----------------------------- MODULE OpenFiles -----------------------------
(***************************************************************************)
(* Open files: fat32_open, fat32_release, the handle check of fat32_read   *)
(* and the busy check of fat32_unlink (src/operations.c), with the handle  *)
(* allocator (src/fat32/fh.c), the table from handles to objects and the   *)
(* table from paths to reference counts (src/hash_table.c).                *)
(*                                                                         *)
(* A thread of libfuse's loop runs a handler; a step is one access to      *)
(* shared state.  No lock of the driver is ever taken.  libfuse keeps      *)
(* unlink apart from every other request, and calls release once for each  *)
(* handle that open delivered.                                             *)
(*                                                                         *)
(* The heap is modelled for the objects the handlers pass around: who      *)
(* frees one, and whether somebody frees it again.                         *)
(***************************************************************************)
EXTENDS Naturals, FiniteSets

CONSTANTS
    Threads,
    Files, Directories,    \* paths of the volume
    NoPath,                \* no path at all
    MaxFh,                 \* UINT64_MAX
    MaxHeld,               \* bound on the handles the kernel holds
    AllocFaults            \* allocations that may fail

Paths == Files \cup Directories
Fhs == 0..MaxFh
Slots == 1..MaxHeld
Objects == 1..MaxHeld + Cardinality(Threads)
NoObject == 0

ASSUME OpenFilesAssumption ==
    /\ IsFiniteSet(Threads)
    /\ Files \cap Directories = {}
    /\ NoPath \notin Paths
    /\ MaxFh \in Nat /\ MaxHeld \in Nat
    /\ AllocFaults \subseteq {"object", "fh_table", "file_table"}

VARIABLES
    exists,        \* files that have a directory entry
    last_fh,       \* fh_allocator->last_fh
    fh_table,      \* the entries of fs->fh_table
    file_table,    \* file_table[p]: the count "refs" of p's entry, 0 if none
    heap,          \* the objects that are allocated
    held,          \* handles the kernel holds
    th,            \* th[t]: the handler thread t runs and its locals
    failure        \* the first fatal error, if any

vars == <<exists, last_fh, fh_table, file_table, heap, held, th, failure>>

HandleEntry == [fh : Fhs, obj : Objects, path : Files]
HeldHandle == [path : Files, fh : Fhs, slot : Slots]

Idle == [pc |-> "idle", path |-> NoPath, obj |-> NoObject, fh |-> 0, seen |-> {},
         refs |-> 0]

Init ==
    /\ exists = Files
    /\ last_fh = 0
    /\ fh_table = {}
    /\ file_table = [p \in Files |-> 0]
    /\ heap = {}
    /\ held = {}
    /\ th = [t \in Threads |-> Idle]
    /\ failure = "none"

-----------------------------------------------------------------------------
(***************************************************************************)
(* fat32_fs_object_free, the value deallocator of fh_table too.            *)
(***************************************************************************)
fs_object_free(o) ==
    /\ heap' = heap \ {o}
    /\ failure' = IF o \in heap THEN failure ELSE "double free"

Goto(t, pc) == th' = [th EXCEPT ![t].pc = pc]

Return(t) == th' = [th EXCEPT ![t] = Idle]

At(t, pc) == failure = "none" /\ th[t].pc = pc

(***************************************************************************)
(* fat32_open.  The kernel does not open a file once more than MaxHeld     *)
(* times.                                                                  *)
(***************************************************************************)
open(t, p) ==
    /\ At(t, "idle")
    /\ Cardinality(held) + Cardinality({u \in Threads : th[u].pc # "idle"}) < MaxHeld
    /\ th' = [th EXCEPT ![t] = [Idle EXCEPT !.pc = "get_object", !.path = p]]
    /\ UNCHANGED <<exists, last_fh, fh_table, file_table, heap, held, failure>>

(***************************************************************************)
(* fat32_fs_get_object, then the checks of the object: nothing there or    *)
(* out of memory, or a directory, whose object is freed at once.           *)
(***************************************************************************)
GetObject(t) ==
    /\ At(t, "get_object")
    /\ \/ /\ \/ th[t].path \notin exists \cup Directories
             \/ "object" \in AllocFaults
             \/ th[t].path \in Directories
          /\ Return(t)
          /\ UNCHANGED heap
       \/ /\ th[t].path \in exists
          /\ LET o == CHOOSE o \in Objects : o \notin heap
             IN  /\ heap' = heap \cup {o}
                 /\ th' = [th EXCEPT ![t].pc = "fh_read", ![t].obj = o]
    /\ UNCHANGED <<exists, last_fh, fh_table, file_table, held, failure>>

(***************************************************************************)
(* fat32_fh_allocate: read the counter, then write it back incremented; no *)
(* handle is left when it has reached its limit.                           *)
(***************************************************************************)
FhRead(t) ==
    /\ At(t, "fh_read")
    /\ \/ /\ last_fh < MaxFh
          /\ th' = [th EXCEPT ![t].pc = "fh_write", ![t].fh = last_fh + 1]
          /\ UNCHANGED <<heap, failure>>
       \/ /\ last_fh >= MaxFh
          /\ fs_object_free(th[t].obj)
          /\ Return(t)
    /\ UNCHANGED <<exists, last_fh, fh_table, file_table, held>>

FhWrite(t) ==
    /\ At(t, "fh_write")
    /\ last_fh' = th[t].fh
    /\ Goto(t, "fh_insert_read")
    /\ UNCHANGED <<exists, fh_table, file_table, heap, held, failure>>

\* Mutant: the object is not freed when the insertion fails.
FhInsertReadLeaks(t) ==
    /\ At(t, "fh_insert_read")
    /\ \/ th' = [th EXCEPT ![t].pc = "fh_insert_write", ![t].seen = fh_table]
       \/ "fh_table" \in AllocFaults /\ Return(t)
    /\ UNCHANGED <<exists, last_fh, fh_table, file_table, heap, held, failure>>

(***************************************************************************)
(* hash_table_insert into fh_table.  fat32_fh_hash divides by UINT_MAX, so *)
(* all handles are in one list; the insertion reads its head, allocates a  *)
(* node and makes that the head.  What was inserted in between is lost;    *)
(* what was deleted in between may still hang on the old head.             *)
(***************************************************************************)
FhInsertRead(t) ==
    /\ At(t, "fh_insert_read")
    /\ \/ /\ th' = [th EXCEPT ![t].pc = "fh_insert_write", ![t].seen = fh_table]
          /\ UNCHANGED <<heap, failure>>
       \/ /\ "fh_table" \in AllocFaults
          /\ fs_object_free(th[t].obj)
          /\ Return(t)
    /\ UNCHANGED <<exists, last_fh, fh_table, file_table, held>>

FhInsertWrite(t) ==
    /\ At(t, "fh_insert_write")
    /\ LET new == [fh |-> th[t].fh, obj |-> th[t].obj, path |-> th[t].path]
           old == {e \in th[t].seen : e.fh # th[t].fh}
       IN  \E gone \in SUBSET (old \ fh_table) : fh_table' = {new} \cup (old \ gone)
    /\ th' = [th EXCEPT ![t].pc = "refs_read", ![t].seen = {}]
    /\ heap' = heap \ {e.obj : e \in {e \in th[t].seen : e.fh = th[t].fh}}
    /\ UNCHANGED <<exists, last_fh, file_table, held, failure>>

(***************************************************************************)
(* The count of the path: an entry that is there is incremented, read and  *)
(* written apart; one that is not is inserted with the count 1.            *)
(***************************************************************************)
RefsRead(t) ==
    /\ At(t, "refs_read")
    /\ th' = [th EXCEPT ![t].refs = file_table[th[t].path],
                        ![t].pc = IF file_table[th[t].path] = 0 THEN "refs_insert"
                                                                ELSE "refs_write"]
    /\ UNCHANGED <<exists, last_fh, fh_table, file_table, heap, held, failure>>

\* open returns 0 and the kernel holds the handle.
Deliver(t) ==
    LET s == CHOOSE s \in Slots : \A k \in held : k.slot # s
    IN  /\ held' = held \cup {[path |-> th[t].path, fh |-> th[t].fh, slot |-> s]}
        /\ Return(t)

RefsWrite(t) ==
    /\ At(t, "refs_write")
    /\ file_table' = [file_table EXCEPT ![th[t].path] = th[t].refs + 1]
    /\ Deliver(t)
    /\ UNCHANGED <<exists, last_fh, fh_table, heap, failure>>

RefsInsert(t) ==
    /\ At(t, "refs_insert")
    /\ file_table' = [file_table EXCEPT ![th[t].path] = 1]
    /\ Deliver(t)
    /\ UNCHANGED <<exists, last_fh, fh_table, heap, failure>>

\* Mutant: the count is there although the insertion failed.
RefsInsertFailsCounted(t) ==
    /\ At(t, "refs_insert")
    /\ "file_table" \in AllocFaults
    /\ fh_table' = {e \in fh_table : e.fh # th[t].fh}
    /\ heap' = heap \ {e.obj : e \in {e \in fh_table : e.fh = th[t].fh}}
    /\ file_table' = [file_table EXCEPT ![th[t].path] = 1]
    /\ Return(t)
    /\ UNCHANGED <<exists, last_fh, held, failure>>

(***************************************************************************)
(* When the insertion fails, the entry of the handle is deleted, which     *)
(* frees the object, and the clean-up of fat32_open frees it again.        *)
(***************************************************************************)
RefsInsertFails(t) ==
    /\ At(t, "refs_insert")
    /\ "file_table" \in AllocFaults
    /\ fh_table' = {e \in fh_table : e.fh # th[t].fh}
    /\ heap' = heap \ {e.obj : e \in {e \in fh_table : e.fh = th[t].fh}}
    /\ Goto(t, "cleanup")
    /\ UNCHANGED <<exists, last_fh, file_table, held, failure>>

Cleanup(t) ==
    /\ At(t, "cleanup")
    /\ fs_object_free(th[t].obj)
    /\ Return(t)
    /\ UNCHANGED <<exists, last_fh, fh_table, file_table, held>>

-----------------------------------------------------------------------------
(***************************************************************************)
(* fat32_read finds the object of its handle before anything else, and     *)
(* asserts that it is there.                                               *)
(***************************************************************************)
read(t, k) ==
    /\ At(t, "idle")
    /\ failure' = IF \E e \in fh_table : e.fh = k.fh THEN failure ELSE "assertion"
    /\ UNCHANGED <<exists, last_fh, fh_table, file_table, heap, held, th>>

\* Mutant: every handle of the path is released.
releaseByPath(t, k) ==
    /\ At(t, "idle")
    /\ held' = held \ {k}
    /\ fh_table' = {e \in fh_table : e.path # k.path}
    /\ heap' = heap \ {e.obj : e \in {e \in fh_table : e.path = k.path}}
    /\ th' = [th EXCEPT ![t] = [Idle EXCEPT !.pc = "unref", !.path = k.path]]
    /\ UNCHANGED <<exists, last_fh, file_table, failure>>

(***************************************************************************)
(* fat32_release deletes the entry of the handle and its object, then      *)
(* drops one reference of the path, and the entry with the last one.       *)
(***************************************************************************)
release(t, k) ==
    /\ At(t, "idle")
    /\ held' = held \ {k}
    /\ fh_table' = {e \in fh_table : e.fh # k.fh}
    /\ heap' = heap \ {e.obj : e \in {e \in fh_table : e.fh = k.fh}}
    /\ th' = [th EXCEPT ![t] = [Idle EXCEPT !.pc = "unref", !.path = k.path]]
    /\ UNCHANGED <<exists, last_fh, file_table, failure>>

Unref(t) ==
    /\ At(t, "unref")
    /\ \/ /\ file_table[th[t].path] = 0
          /\ failure' = "assertion"
          /\ UNCHANGED file_table
       \/ /\ file_table[th[t].path] > 0
          /\ file_table' = [file_table EXCEPT ![th[t].path] = @ - 1]
          /\ UNCHANGED failure
    /\ Return(t)
    /\ UNCHANGED <<exists, last_fh, fh_table, heap, held>>

\* Mutant: the path is not looked for in file_table.
unlinkUnchecked(t, p) ==
    /\ failure = "none"
    /\ \A u \in Threads : th[u].pc = "idle"
    /\ exists' = exists \ {p}
    /\ UNCHANGED <<last_fh, fh_table, file_table, heap, held, th, failure>>

(***************************************************************************)
(* fat32_unlink refuses a path that has an entry in file_table.  It runs   *)
(* alone; what fat32_perform_unlink does is FatVolume.                     *)
(***************************************************************************)
unlink(t, p) ==
    /\ failure = "none"
    /\ \A u \in Threads : th[u].pc = "idle"
    /\ file_table[p] = 0
    /\ exists' = exists \ {p}
    /\ UNCHANGED <<last_fh, fh_table, file_table, heap, held, th, failure>>

OpenStep(t) ==
    \/ GetObject(t)
    \/ FhRead(t)
    \/ FhWrite(t)
    \/ FhInsertRead(t)
    \/ FhInsertWrite(t)
    \/ RefsRead(t)
    \/ RefsWrite(t)
    \/ RefsInsert(t)
    \/ RefsInsertFails(t)
    \/ Cleanup(t)

Next == \E t \in Threads :
    \/ \E p \in Paths : open(t, p)
    \/ OpenStep(t)
    \/ \E k \in held : read(t, k) \/ release(t, k)
    \/ Unref(t)
    \/ \E p \in Files : unlink(t, p)

Spec == Init /\ [][Next]_vars

-----------------------------------------------------------------------------
\* Types of the tables and of the handlers' locals.
TypeOK ==
    /\ exists \subseteq Files
    /\ last_fh \in Fhs
    /\ fh_table \subseteq HandleEntry
    /\ file_table \in [Files -> 0..MaxHeld]
    /\ heap \subseteq Objects
    /\ held \subseteq HeldHandle
    /\ \A t \in Threads :
          /\ th[t].path \in Paths \cup {NoPath}
          /\ th[t].obj \in Objects \cup {NoObject}
          /\ th[t].fh \in Fhs
          /\ th[t].seen \subseteq HandleEntry
          /\ th[t].refs \in 0..MaxHeld
    /\ failure \in {"none", "assertion", "double free"}

(***************************************************************************)
(* The assertions of fat32_read ("fs_object != NULL") and fat32_release    *)
(* ("f32_file_info != NULL") hold, whichever opens failed before.          *)
(***************************************************************************)
NoAssertionFails == failure # "assertion"

(***************************************************************************)
(* No object is freed twice: deleting a mapping already deallocates what   *)
(* "key and value" hold (hash_table.h, hash_table_delete).                 *)
(***************************************************************************)
NoDoubleFree == failure # "double free"

(***************************************************************************)
(* Each handle the kernel holds leads through fh_table to an object of its *)
(* own file that is still allocated, and no two handles are the same.      *)
(***************************************************************************)
HandlesBacked ==
    /\ \A k \in held : \E e \in fh_table :
          e.fh = k.fh /\ e.path = k.path /\ e.obj \in heap
    /\ \A j, k \in held : j.fh = k.fh => j = k

HeldOn(p) == {k \in held : k.path = p}

(***************************************************************************)
(* Whenever no handler runs, the count of each path is the number of its   *)
(* open handles, whatever opens failed on the way.                         *)
(***************************************************************************)
RefsExact ==
    (\A t \in Threads : th[t].pc = "idle") =>
        \A p \in Files : file_table[p] = Cardinality(HeldOn(p))

(***************************************************************************)
(* Every object is reachable from fh_table or from the handler that works  *)
(* on it, so none is leaked; and no entry of fh_table dangles.  (In its    *)
(* clean-up open holds an object that hash_table_delete has freed.)        *)
(***************************************************************************)
ObjectsAccounted ==
    heap = {e.obj : e \in fh_table} \cup
           ({th[t].obj : t \in {u \in Threads : th[u].pc # "cleanup"}} \ {NoObject})

(***************************************************************************)
(* A file is only removed while nobody has it open: "Actually deletes a    *)
(* file under assumption that it's not open" (fat32_perform_unlink).       *)
(***************************************************************************)
UnlinkSparesOpenFiles ==
    [][\A p \in Files : p \in exists \ exists' => HeldOn(p) = {}]_vars

=============================================================================
