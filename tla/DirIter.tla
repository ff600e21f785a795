------------------------------- MODULE DirIter -------------------------------
(***************************************************************************)
(* Reading directories: the iterator of src/fat32/diriter.c and its three  *)
(* users, fat32_fs_get_object (src/fat32/fs.c), fat32_readdir              *)
(* (src/operations.c) and fat32_fs_object_is_empty_directory               *)
(* (src/fat32/fs_object.c), as the requests getattr, readdir and (up to    *)
(* the emptiness check) rmdir run them.                                    *)
(*                                                                         *)
(* A directory is a chain of clusters of ClusterSlots entries each.  A     *)
(* step is one access to the device.  Nothing here writes.  What was       *)
(* allocated is counted.                                                   *)
(***************************************************************************)
EXTENDS FatEntry, Fat32Errors, Integers, Sequences, FiniteSetsExt

CONSTANTS
    ClusterSlots,    \* directory entries per cluster
    ClusterBytes,    \* fs->cluster_size
    RootCluster,     \* bpb->root_cluster
    Tables,          \* the FATs the volume may have
    Content,         \* Content[c]: the entries of cluster c
    Chars,           \* characters of names
    BaseSize,        \* characters of a base name: 8 in the code
    ExtSize,         \* characters of an extension: 3 in the code
    Names,           \* names of entries, filled up with spaces
    Requests,        \* pairs of an operation and a path, a sequence of tokens
    EntryFaults,     \* error codes a read may fail with
    AllocFaults      \* what may fail to be allocated

Space == " "
Dot == "."

\* "mark" is the first byte of the name, which outranks the attributes: 0xE5
\* for a deleted entry, 0 for the end of the directory.  "marked": a read-only,
\* hidden or system file; "other": a volume label or a part of a long name.
Direntry == [mark : {"used", "free", "last"}, kind : {"file", "dir", "marked", "other"},
             name : Names, dot : BOOLEAN, first : Nat, size : Nat]

ASSUME DirIterAssumption ==
    /\ {ClusterSlots, ClusterBytes} \subseteq Nat \ {0}
    /\ {BaseSize, ExtSize} \subseteq Nat /\ BaseSize >= 2
    /\ RootCluster \in DOMAIN Content /\ DOMAIN Content \subseteq Nat
    /\ \A t \in Tables :
        t \in [DOMAIN t -> Entry] /\ DOMAIN Content \subseteq DOMAIN t
    /\ \A c \in DOMAIN Content : Content[c] \in [1..ClusterSlots -> Direntry]
    /\ Names \subseteq [base : [1..BaseSize -> Chars], ext : [1..ExtSize -> Chars]]
    /\ Requests \subseteq {"getattr", "readdir", "rmdir"} \X Seq(Seq(Chars \cup {Dot}))
    /\ EntryFaults \subseteq {FE_ERRNO, FE_INVALID_DEV}
    /\ AllocFaults \subseteq {"path", "root", "iterator", "filler", "short_name",
                             "object", "name", "direntry"}

\* The blocks of an object in the order fat32_fs_object_direntry allocates them.
ObjectBlocks == <<"object", "name", "direntry">>

Kinds == Range(ObjectBlocks) \cup {"path", "iterator"}

RootDir == [mark |-> "used", kind |-> "root", name |-> [base |-> <<>>, ext |-> <<>>],
            dot |-> FALSE, first |-> RootCluster, size |-> 0]

VARIABLES
    table,    \* the FAT
    heap,     \* heap[k]: blocks of the kind k allocated since the request came
    j         \* the request under way, or the last one and its results

dirvars == <<table, heap, j>>

Nothing == [k \in Kinds |-> 0]

\* "lost" is history: an entry's object could not be allocated.
NoJob == [op |-> "none", path |-> <<>>, pc |-> "idle", use |-> "lookup",
          todo |-> <<>>, obj |-> RootDir, cluster |-> 0, offset |-> 0,
          entry |-> 0, listing |-> <<>>, stat |-> <<>>, lost |-> FALSE,
          reply |-> "none"]

DirInit ==
    /\ table \in Tables
    /\ heap = Nothing
    /\ j = NoJob

-----------------------------------------------------------------------------
fat32_direntry_is_last(e) == e.mark = "last"

fat32_direntry_is_free(e) == e.mark \in {"free", "last"}

fat32_direntry_is_directory(e) == e.kind = "dir"

\* The code tests for any bit of the mask of long names, which are read-only,
\* hidden, system and volume label: a marked file is none.
fat32_direntry_is_file(e) == e.kind = "file"

\* Any name that starts with a dot is one, for the code.
fat32_direntry_is_dot(e) == e.dot

\* Mutant: deleted entries are not passed over.
suitable_direntry_deleted(e, list_dots) ==
    \/ fat32_direntry_is_last(e)
    \/ /\ fat32_direntry_is_directory(e) \/ fat32_direntry_is_file(e)
       /\ list_dots \/ ~fat32_direntry_is_dot(e)

\* Mutant: dot entries count always.
suitable_direntry_dots(e, list_dots) ==
    \/ fat32_direntry_is_last(e)
    \/ /\ ~fat32_direntry_is_free(e)
       /\ fat32_direntry_is_directory(e) \/ fat32_direntry_is_file(e)

suitable_direntry(e, list_dots) ==
    \/ fat32_direntry_is_last(e)
    \/ /\ ~fat32_direntry_is_free(e)
       /\ fat32_direntry_is_directory(e) \/ fat32_direntry_is_file(e)
       /\ list_dots \/ ~fat32_direntry_is_dot(e)

Stripped(chars) == SubSeq(chars, 1, Max({0} \cup {i \in DOMAIN chars : chars[i] # Space}))

\* What both parts are followed by is left out, and the dot without an
\* extension.
fat32_direntry_short_name(e) ==
    LET extension == Stripped(e.name.ext)
    IN  Stripped(e.name.base) \o IF extension = <<>> THEN <<>> ELSE <<Dot>> \o extension

is_directory(obj) == obj.kind \in {"dir", "root"}

\* libfuse clears the buffer: a directory has no size and no blocks.
fs_object_attrs(obj) ==
    IF is_directory(obj) THEN [type |-> "directory", size |-> 0, blocks |-> 0]
    ELSE [type |-> "file", size |-> obj.size,
          blocks |-> (obj.size + ClusterBytes + 1) \div ClusterBytes]

DotNames == << <<Dot, Dot>>, <<Dot>> >>

reply_of(code) == IF code = FE_INVALID_DEV THEN "EINVAL" ELSE "errno"

Finish(l, r) == j' = [l EXCEPT !.pc = "idle", !.reply = r]

Count(blocks) == [k \in Kinds |-> IF k \in blocks THEN 1 ELSE 0]

Alloc(h, blocks) == [k \in Kinds |-> h[k] + Count(blocks)[k]]

Free(h, blocks) == [k \in Kinds |-> h[k] - Count(blocks)[k]]

\* The root has neither a name nor an entry.
Blocks(obj) == IF obj.kind = "root" THEN {"object"} ELSE Range(ObjectBlocks)

(***************************************************************************)
(* What the clean-up of the iterator's user frees: the copy of the path,   *)
(* its object, which readdir no longer has once it iterates, and the       *)
(* iterator, if there is one.  fat32_fs_object_is_empty_directory does not *)
(* free its iterator.                                                      *)
(***************************************************************************)
Owned(l) ==
    (IF l.use = "lookup" THEN {"path"} ELSE {})
    \cup (IF l.use = "list" /\ l.pc = "next" THEN {} ELSE Blocks(l.obj))
    \cup (IF l.use = "empty" \/ l.pc = "create" THEN {} ELSE {"iterator"})

CleanUp(l) == heap' = Free(heap, Owned(l))

Fail(l, code) == Finish(l, reply_of(code)) /\ CleanUp(l)

-----------------------------------------------------------------------------
(***************************************************************************)
(* A directory as the FAT format defines it, on a volume with the table t: *)
(* the slots of its clusters in the order of the chain, of which those up  *)
(* to the one that says there are no more hold its entries.                *)
(***************************************************************************)
Ends(e) == fat32_fat_entry_is_null(e) \/ fat32_fat_entry_is_bad(e)

ChainOf(t, first) ==
    LET from[c \in DOMAIN Content] ==
          IF Ends(t[c]) THEN <<c>> ELSE <<c>> \o from[t[c].value]
    IN  from[first]

SlotsOf(t, first) ==
    LET chain == ChainOf(t, first)
    IN  [i \in 1..ClusterSlots * Len(chain) |->
            Content[chain[((i - 1) \div ClusterSlots) + 1]]
                   [((i - 1) % ClusterSlots) + 1]]

Visible(e) == e.mark = "used" /\ e.kind \in {"file", "dir", "marked"}

\* The places of the entries.
EntriesIn(slots) ==
    {i \in DOMAIN slots : Visible(slots[i]) /\ \A k \in 1..i : slots[k].mark # "last"}

(***************************************************************************)
(* How the format stores a name: what is before the last dot and what is   *)
(* behind it, each filled up with spaces; the dot entries as they are.     *)
(***************************************************************************)
Filled(chars, length) == [i \in 1..length |-> IF i \in DOMAIN chars THEN chars[i] ELSE Space]

Stored(token) ==
    LET dot == IF token \in {DotNames[1], DotNames[2]} THEN Len(token) + 1
               ELSE Max({i \in DOMAIN token : token[i] = Dot} \cup {0})
        split == IF dot = 0 THEN Len(token) + 1 ELSE dot
    IN  [base |-> Filled(SubSeq(token, 1, split - 1), BaseSize),
         ext  |-> Filled(SubSeq(token, split + 1, Len(token)), ExtSize)]

\* The first entry of that name.
Named(slots, token) ==
    LET hits == {i \in EntriesIn(slots) : slots[i].name = Stored(token)}
    IN  {slots[i] : i \in {k \in hits : \A m \in hits : k <= m}}

\* The objects along a path, each with what follows from its name.
ObjectsAlong(t, path) ==
    LET at[k \in 0..Len(path)] ==
          IF k = 0 THEN {RootDir}
          ELSE UNION {Named(SlotsOf(t, d.first), path[k]) : d \in at[k - 1]}
    IN  at

\* The object of a path, or nothing.
ObjectOf(t, path) == ObjectsAlong(t, path)[Len(path)]

\* Name by name the first entries, each once and in their order.
Lists(listing, slots) ==
    LET places  == EntriesIn(slots)
        rank(i) == Cardinality({k \in places : k <= i})
    IN  /\ Len(listing) <= Cardinality(places)
        /\ \A i \in places : rank(i) <= Len(listing) =>
              slots[i].name = Stored(listing[rank(i)])

(***************************************************************************)
(* The directories are consistent when the volume is mounted: each chain   *)
(* comes to an end, in clusters of entries, and each directory begins with *)
(* one, but for "..", which says 0 for the root.  No dot is part of a name *)
(* but of those of the dot entries.                                        *)
(***************************************************************************)
DotEntries == {Stored(DotNames[1]), Stored(DotNames[2])}

ASSUME DirectoriesAssumption ==
    /\ IsFiniteSet(DOMAIN Content)
    /\ \A t \in Tables :
        \E rank \in [DOMAIN Content -> 0..Cardinality(DOMAIN Content)] :
            \A c \in DOMAIN Content : ~Ends(t[c]) =>
                t[c].value \in DOMAIN Content /\ rank[t[c].value] < rank[c]
    /\ \A c \in DOMAIN Content : \A i \in 1..ClusterSlots :
        LET e == Content[c][i]
        IN  Visible(e) /\ e.kind = "dir" /\ e.name # Stored(DotNames[1]) =>
                e.first \in DOMAIN Content
    /\ \A n \in Names : n \notin DotEntries =>
        Dot \notin {n.base[i] : i \in 1..BaseSize} \cup {n.ext[i] : i \in 1..ExtSize}

-----------------------------------------------------------------------------
(***************************************************************************)
(* The kernel asks for the names of the format, one after the other as     *)
(* long as it gets directories, and never for "..".                        *)
(***************************************************************************)
Resolvable(path) ==
    /\ \A k \in DOMAIN path :
        /\ path[k] # DotNames[1]
        /\ \E n \in Names : path[k] = fat32_direntry_short_name([name |-> n])
    /\ \A k \in 1..Len(path) - 1 : \A d \in ObjectsAlong(table, path)[k] : is_directory(d)

(***************************************************************************)
(* A request arrives: fat32_fs_get_object copies the path and starts at    *)
(* the root.                                                               *)
(***************************************************************************)
Request(op, path) ==
    /\ j.pc = "idle"
    /\ Resolvable(path)
    /\ LET l == [NoJob EXCEPT !.op = op, !.path = path, !.todo = path]
       IN  \/ /\ j' = [l EXCEPT !.pc = "create"]
              /\ heap' = Alloc(Nothing, {"path"} \cup Blocks(RootDir))
           \/ /\ AllocFaults \cap {"path", "root"} # {}
              /\ Finish(l, "errno")
              /\ heap' = Nothing
    /\ UNCHANGED table

\* fat32_diriter_create; readdir has no need of its object after it.
CreateIterator ==
    /\ j.pc = "create"
    /\ j.use # "lookup" \/ j.todo # <<>>
    /\ \/ /\ j' = [j EXCEPT !.pc = "next", !.cluster = j.obj.first, !.offset = 0]
          /\ heap' = Free(Alloc(heap, {"iterator"}),
                          IF j.use = "list" THEN Blocks(j.obj) ELSE {})
       \/ "iterator" \in AllocFaults /\ Fail(j, FE_ERRNO)
    /\ UNCHANGED table

(***************************************************************************)
(* No token of the path is left: the object is found.                      *)
(***************************************************************************)
Resolved ==
    /\ j.pc = "create" /\ j.use = "lookup" /\ j.todo = <<>>
    /\ \/ /\ j.op = "getattr"
          /\ Finish([j EXCEPT !.stat = fs_object_attrs(j.obj)], "0") /\ CleanUp(j)
       \/ /\ j.op # "getattr" /\ ~is_directory(j.obj)
          /\ Finish(j, "ENOTDIR") /\ CleanUp(j)
       \/ /\ j.op = "rmdir" /\ j.obj = RootDir
          /\ Finish(j, "EPERM") /\ CleanUp(j)
       \/ /\ j.op = "rmdir" /\ is_directory(j.obj) /\ j.obj # RootDir
          /\ j' = [j EXCEPT !.use = "empty"]
          /\ heap' = Free(heap, {"path"})
       \/ /\ j.op = "readdir" /\ is_directory(j.obj)
          /\ \/ /\ j' = [j EXCEPT !.use = "list",
                           !.listing = IF j.obj = RootDir THEN DotNames ELSE <<>>]
                /\ heap' = Free(heap, {"path"})
             \/ /\ j.obj = RootDir /\ "filler" \in AllocFaults
                /\ Fail(j, FE_ERRNO)
    /\ UNCHANGED table

-----------------------------------------------------------------------------
(***************************************************************************)
(* What the users do with the iterator's result: the end of the directory, *)
(* or an object.                                                           *)
(***************************************************************************)
NoMore(l) ==
    /\ Finish(l, IF l.use = "lookup" THEN "ENOENT" ELSE "0")
    /\ CleanUp(l)

\* The token is compared with the name; a match is the next directory.
Compare(l, child) ==
    IF fat32_direntry_short_name(child) = Head(l.todo)
    THEN /\ j' = [l EXCEPT !.pc = "create", !.obj = child, !.todo = Tail(@)]
         /\ heap' = Free(Alloc(heap, Blocks(child)), {"iterator"} \cup Blocks(l.obj))
    ELSE j' = l /\ UNCHANGED heap

\* The name is handed to libfuse, which copies it.
Fill(l, child) ==
    \/ j' = [l EXCEPT !.listing = Append(@, fat32_direntry_short_name(child))] /\ UNCHANGED heap
    \/ "filler" \in AllocFaults /\ Fail(l, FE_ERRNO)

Deliver(l, child) ==
    \/ l.use = "lookup" /\ Compare(l, child)
    \/ l.use = "list" /\ Fill(l, child)
    \/ l.use = "empty" /\ Finish(l, "ENOTEMPTY") /\ CleanUp(l)

\* Mutant: the copy of the name stays when the entry cannot be copied.
NoChildKeepsName(l) ==
    \E i \in DOMAIN ObjectBlocks :
        LET made == {ObjectBlocks[k] : k \in 1..i - 1}
        IN  /\ ObjectBlocks[i] \in AllocFaults
            /\ Finish([l EXCEPT !.lost = TRUE], IF l.use = "lookup" THEN "ENOENT" ELSE "0")
            /\ heap' = Free(Free(Alloc(heap, made), made \ {"name"}), Owned(l))

(***************************************************************************)
(* An object short of one of its blocks is freed with those it has, and    *)
(* the iterator hands out NULL with FE_OK: for its user the directory ends *)
(* here.  Without the short name, which is freed at once otherwise, the    *)
(* object's name would be a copy of NULL: the driver dies, and answers     *)
(* again when it was mounted anew.                                         *)
(***************************************************************************)
NoChild(l) ==
    \/ \E i \in DOMAIN ObjectBlocks :
          LET made == {ObjectBlocks[k] : k \in 1..i - 1}
          IN  /\ ObjectBlocks[i] \in AllocFaults
              /\ Finish([l EXCEPT !.lost = TRUE], IF l.use = "lookup" THEN "ENOENT" ELSE "0")
              /\ heap' = Free(Free(Alloc(heap, made), made), Owned(l))
    \/ /\ "short_name" \in AllocFaults
       /\ Finish(l, "died")
       /\ heap' = Nothing

\* Mutant: the offset is not reset for the next cluster.
NextClusterKeepsOffset ==
    /\ j.pc = "next" /\ j.offset = ClusterSlots /\ j.cluster \in DOMAIN table
    /\ LET e == table[j.cluster]
       IN  IF fat32_fat_entry_is_null(e)
           THEN NoMore([j EXCEPT !.cluster = 0])
           ELSE j' = [j EXCEPT !.cluster = fat32_fat_entry_to_cluster(e)] /\ UNCHANGED heap
    /\ UNCHANGED table

\* Mutant: the next cluster is read but not stored.
NextClusterStays ==
    /\ j.pc = "next" /\ j.offset = ClusterSlots
    /\ IF fat32_fat_entry_is_null(table[j.cluster])
       THEN NoMore([j EXCEPT !.cluster = 0])
       ELSE j' = [j EXCEPT !.offset = 0] /\ UNCHANGED heap
    /\ UNCHANGED table

(***************************************************************************)
(* fat32_diriter_next at the end of a cluster: read the table for the next *)
(* one; a bad mark is itself looked up, as if it were a cluster.           *)
(***************************************************************************)
NextCluster ==
    /\ j.pc = "next" /\ j.offset = ClusterSlots
    /\ LET c == IF j.entry = 0 THEN j.cluster ELSE j.entry
       IN  \/ \E code \in EntryFaults : Fail(j, code)
           \/ c \notin DOMAIN table /\ Fail(j, FE_INVALID_DEV)
           \/ /\ c \in DOMAIN table
              /\ LET e == table[c]
                     next == fat32_fat_entry_to_cluster(e)
                 IN  \/ /\ fat32_fat_entry_is_bad(e)
                        /\ j' = [j EXCEPT !.entry = next]
                        /\ UNCHANGED heap
                     \/ /\ ~fat32_fat_entry_is_bad(e) /\ fat32_fat_entry_is_null(e)
                        /\ NoMore([j EXCEPT !.cluster = 0, !.offset = 0, !.entry = 0])
                     \/ /\ ~fat32_fat_entry_is_bad(e) /\ ~fat32_fat_entry_is_null(e)
                        /\ j' = [j EXCEPT !.cluster = next, !.offset = 0, !.entry = 0]
                        /\ UNCHANGED heap
    /\ UNCHANGED table

(***************************************************************************)
(* fat32_diriter_next inside a cluster: read the entry and go past it.     *)
(***************************************************************************)
ReadEntry ==
    /\ j.pc = "next" /\ j.offset < ClusterSlots
    /\ \/ \E code \in EntryFaults : Fail(j, code)
       \/ LET e == Content[j.cluster][j.offset + 1]
              l == [j EXCEPT !.offset = @ + 1]
          IN  \/ /\ fat32_direntry_is_last(e)
                 /\ NoMore([l EXCEPT !.cluster = 0])
              \/ /\ ~suitable_direntry(e, j.use # "empty")
                 /\ j' = l
                 /\ UNCHANGED heap
              \/ /\ ~fat32_direntry_is_last(e)
                 /\ suitable_direntry(e, j.use # "empty")
                 /\ Deliver(l, e) \/ NoChild(l)
    /\ UNCHANGED table

DirStep ==
    \/ CreateIterator
    \/ Resolved
    \/ NextCluster
    \/ ReadEntry

DirNext ==
    \/ \E r \in Requests : Request(r[1], r[2])
    \/ DirStep

DirSpec == DirInit /\ [][DirNext]_dirvars

\* The thread that runs the request keeps running.
FairDirSpec == DirSpec /\ WF_dirvars(DirStep)

-----------------------------------------------------------------------------
Done(op) == j.pc = "idle" /\ j.op = op

\* Types of the request's locals.
DirTypeOK ==
    /\ table \in Tables
    /\ heap \in [Kinds -> {0, 1}]
    /\ j.pc \in {"idle", "create", "next"}
    /\ j.use \in {"lookup", "list", "empty"}
    /\ j.obj \in Direntry \cup {RootDir}
    /\ j.offset \in 0..ClusterSlots
    /\ j.reply \in {"none", "0", "errno", "EINVAL", "ENOENT", "ENOTDIR", "EPERM",
                    "ENOTEMPTY", "died"}

(***************************************************************************)
(* fat32_fs_get_object finds the object of the path, through directories   *)
(* of several clusters, deleted entries and entries that are no files, and *)
(* says ENOENT only when there is none or when it ran out of memory for an *)
(* object on the way.  The attributes are those of the object, and its     *)
(* blocks hold it.                                                         *)
(***************************************************************************)
FindsTheObject ==
    Done("getattr") =>
        /\ j.reply = "0" =>
            /\ ObjectOf(table, j.path) = {j.obj}
            /\ j.stat.type = IF j.obj.kind \in {"file", "marked"} THEN "file" ELSE "directory"
            /\ j.stat.type = "file" =>
                j.stat.size = j.obj.size /\ j.stat.blocks * ClusterBytes >= j.obj.size
        /\ j.reply = "ENOENT" /\ ~j.lost => ObjectOf(table, j.path) = {}

(***************************************************************************)
(* What readdir listed with success are the entries of the directory, each *)
(* once and in order: all of them, or the first ones when it ran out of    *)
(* memory for the object of the next.                                      *)
(***************************************************************************)
ListsTheDirectory ==
    Done("readdir") /\ j.reply = "0" =>
        \E d \in ObjectOf(table, j.path) :
            LET dots  == IF d = RootDir THEN Len(DotNames) ELSE 0
                names == SubSeq(j.listing, dots + 1, Len(j.listing))
                slots == SlotsOf(table, d.first)
            IN  /\ SubSeq(j.listing, 1, dots) = SubSeq(DotNames, 1, dots)
                /\ Lists(names, slots)
                /\ ~j.lost => Len(names) = Cardinality(EntriesIn(slots))

(***************************************************************************)
(* The check rmdir relies on: "not empty" is said only of a directory that *)
(* holds more than its dot entries, and "empty", unless it ran out of      *)
(* memory for the object of an entry, only of one that holds nothing else. *)
(***************************************************************************)
EmptyMeansEmpty ==
    Done("rmdir") /\ j.use = "empty" =>
        LET slots == SlotsOf(table, j.obj.first)
            holds == {i \in EntriesIn(slots) : ~slots[i].dot}
        IN  /\ j.reply = "0" /\ ~j.lost => holds = {}
            /\ j.reply = "ENOTEMPTY" => holds # {}

(***************************************************************************)
(* However a request ends, whichever access failed and whichever block of  *)
(* whichever object could not be allocated: the copy of the path and every *)
(* object with its name and entry have been freed, each once, and so have  *)
(* the iterators of getattr and readdir.                                   *)
(***************************************************************************)
NothingLeaked ==
    j.pc = "idle" => /\ \A k \in Kinds \ {"iterator"} : heap[k] = 0
                     /\ j.op # "rmdir" => heap["iterator"] = 0

(***************************************************************************)
(* Every request is answered, when no directory's chain is a circle and    *)
(* the driver does not die of it.                                          *)
(***************************************************************************)
RequestAnswered == (j.pc # "idle") ~> (j.pc = "idle")

(***************************************************************************)
(* "Frees resources hold by directory iterator" (fat32_diriter_free) is    *)
(* what the users of an iterator call when they are done with it.          *)
(***************************************************************************)
IteratorsFreed == j.pc = "idle" => heap["iterator"] = 0

(***************************************************************************)
(* include/fat32/fs.h, fat32_fs_get_object: "NULL is stored if object with *)
(* given path can't be found", which is where ENOENT comes from.           *)
(***************************************************************************)
NotFoundMeansNone ==
    Done("getattr") /\ j.reply = "ENOENT" => ObjectOf(table, j.path) = {}

(***************************************************************************)
(* What readdir returns with success is the directory (readdir of libfuse).*)
(***************************************************************************)
SuccessListsAll ==
    Done("readdir") /\ j.reply = "0" =>
        \E d \in ObjectOf(table, j.path) :
            Len(j.listing) >= Cardinality(EntriesIn(SlotsOf(table, d.first)))

(***************************************************************************)
(* include/fat32/fs_object.h, fat32_fs_object_is_empty_directory: the      *)
(* result tells whether the directory is empty.                            *)
(***************************************************************************)
EmptyIsEmpty ==
    Done("rmdir") /\ j.use = "empty" /\ j.reply = "0" =>
        LET slots == SlotsOf(table, j.obj.first)
        IN  \A i \in EntriesIn(slots) : slots[i].dot

=============================================================================
