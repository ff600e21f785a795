----------------------------- MODULE FatVolume -----------------------------
(***************************************************************************)
(* Deleting files and directories: fat32_perform_unlink and fat32_rmdir of *)
(* src/operations.c with fat32_fs_object_delete and                        *)
(* fat32_fs_object_is_empty_directory of src/fat32/fs_object.c, on the     *)
(* file allocation table of FatTable.                                      *)
(*                                                                         *)
(* A deletion is a sequence of device accesses: look the object up, (rmdir)*)
(* check that the directory is empty, mark the directory entry free, then  *)
(* clear the entries of the cluster chain one by one.  A step is one       *)
(* access; any of them may fail, and the process may die between any two.  *)
(*                                                                         *)
(* "dent" is what the directory entries on the device say.  Everything     *)
(* else an object is made of (its place, its attributes, its size, its     *)
(* chain) is never changed by the operations modelled here, so it is a     *)
(* constant.                                                               *)
(***************************************************************************)
EXTENDS FatTable, FiniteSets

CONSTANTS
    Nodes,         \* files and directories, the root included
    Root,
    Parent,        \* Parent[n] is the directory that holds n
    Path,          \* Path[n]: the objects the path of n names, one per token
    Directories,   \* objects with FAT32_DIRENTRY_DIRECTORY, and the root
    Marked,        \* files that are read-only, hidden or system
    Chain,         \* Chain[n]: the clusters of n in order, <<>> for no data
    AllocFaults,   \* may an allocation fail?  {FALSE} or BOOLEAN
    Crashes        \* may the driver die and be mounted again?

FirstCluster(n) == IF Chain[n] = <<>> THEN 0 ELSE Chain[n][1]

ASSUME NodesAssumption ==
    /\ Root \in Nodes
    /\ Parent \in [Nodes \ {Root} -> Directories]
    /\ Path \in [Nodes -> SUBSET Nodes]
    /\ \A n \in Nodes \ {Root} : n \in Path[n] /\ Root \notin Path[n]
    /\ Directories \subseteq Nodes
    /\ Root \in Directories
    /\ Marked \subseteq Nodes \ Directories
    /\ AllocFaults \subseteq BOOLEAN
    /\ Crashes \subseteq BOOLEAN

(***************************************************************************)
(* The j-th cluster of n's chain leads to the next one, the last one ends  *)
(* the chain.                                                              *)
(***************************************************************************)
Linked(f, n, j) ==
    IF j < Len(Chain[n]) THEN f[Chain[n][j]].value = Chain[n][j + 1]
                         ELSE f[Chain[n][j]].value >= FAT32_FAT_ENTRY_EOC

(***************************************************************************)
(* The volume is consistent when it is mounted: no cluster is in two       *)
(* places, every chain is in the FAT, and only files may have no data.     *)
(***************************************************************************)
ASSUME LayoutAssumption ==
    /\ Chain \in [Nodes -> Seq(Clusters)]
    /\ \A n \in Directories : Chain[n] # <<>>
    /\ \A m, n \in Nodes : \A i \in DOMAIN Chain[m], j \in DOMAIN Chain[n] :
          Chain[m][i] = Chain[n][j] => m = n /\ i = j
    /\ \A f \in InitialFats : \A n \in Nodes : \A j \in DOMAIN Chain[n] :
          Linked(f, n, j)

VARIABLES
    dent,    \* dent[n]: the directory entry of n is "used" or "free" (0xE5)
    h        \* the handler under way, or the last one and its reply

vars == <<fat, hint, call, dent, h>>

-----------------------------------------------------------------------------

Replies == {"0", "errno", "EINVAL", "ENOENT", "EISDIR", "ENOTDIR", "EPERM",
            "ENOTEMPTY"}

HandlerType == [op : {"none", "unlink", "rmdir"}, node : Nodes,
                pc : {"idle", "lookup", "isempty", "delete", "freeing"},
                obj : BOOLEAN,       \* fs_object # NULL
                reply : Replies]

NoHandler == [op |-> "none", node |-> Root, pc |-> "idle", obj |-> FALSE,
              reply |-> "0"]

Init ==
    /\ FatInit
    /\ dent = [n \in Nodes |-> "used"]
    /\ h = NoHandler

Reply(r) == h' = [h EXCEPT !.pc = "idle", !.reply = r]

\* How the handlers answer for a code of a lower layer.
reply_of(code) == IF code = FE_INVALID_DEV THEN "EINVAL" ELSE "errno"

(***************************************************************************)
(* The directory iterator passes over an entry that is free and over one   *)
(* that is neither a directory nor a "file": fat32_direntry_is_file is     *)
(* false as soon as one bit of the read-only, hidden, system or volume     *)
(* attributes is set.                                                      *)
(***************************************************************************)
suitable_direntry(n) == dent[n] = "used" /\ n \notin Marked

(***************************************************************************)
(* fat32_fs_get_object: every token of the path is looked for among the    *)
(* entries of the directory found for the one before.  A failed allocation *)
(* either reports FE_ERRNO or, in fat32_diriter_next, looks like the end   *)
(* of the directory: an object that is there is not found.                 *)
(***************************************************************************)
get_object(n) ==
    {[ret |-> FE_OK, obj |-> \A m \in Path[n] : suitable_direntry(m)]}
    \cup [ret : ReadFaults, obj : {FALSE}]
    \cup (IF TRUE \in AllocFaults
          THEN {[ret |-> FE_ERRNO, obj |-> FALSE], [ret |-> FE_OK, obj |-> FALSE]}
          ELSE {})

(***************************************************************************)
(* fat32_fs_object_is_empty_directory: the iterator finds no entry.  The   *)
(* failed allocation that looks like the end of the directory looks like   *)
(* an empty directory here.                                                *)
(***************************************************************************)
Children(n) == {m \in Nodes \ {Root} : Parent[m] = n}

\* Mutant: only files count as the contents of a directory.
is_empty_directory_files(n) ==
    {[ret |-> FE_OK,
      empty |-> \A m \in Children(n) \ Directories : ~suitable_direntry(m)]}
    \cup [ret : ReadFaults, empty : {FALSE}]

is_empty_directory(n) ==
    {[ret |-> FE_OK, empty |-> \A m \in Children(n) : ~suitable_direntry(m)]}
    \cup [ret : ReadFaults, empty : {FALSE}]
    \cup (IF TRUE \in AllocFaults
          THEN {[ret |-> FE_ERRNO, empty |-> FALSE], [ret |-> FE_OK, empty |-> TRUE]}
          ELSE {})

-----------------------------------------------------------------------------
(***************************************************************************)
(* A request arrives.  libfuse holds its tree lock for writing around      *)
(* unlink and rmdir, so they exclude each other.                           *)
(***************************************************************************)
Request(op, n) ==
    /\ h.pc = "idle"
    /\ h' = [NoHandler EXCEPT !.op = op, !.node = n, !.pc = "lookup"]
    /\ call' = NoCall
    /\ UNCHANGED <<fat, hint, dent>>

perform_unlink(n) == Request("unlink", n)

rmdir(n) == Request("rmdir", n)

\* Mutant: the root may be removed.
RefusalButRoot(op, n) ==
    CASE op = "unlink" /\ n \in Directories    -> "EISDIR"
      [] op = "rmdir"  /\ n \notin Directories -> "ENOTDIR"
      [] OTHER                                 -> "0"

(***************************************************************************)
(* The answers the handlers give before anything is changed.               *)
(***************************************************************************)
Refusal(op, n) ==
    CASE op = "unlink" /\ n \in Directories    -> "EISDIR"
      [] op = "rmdir"  /\ n \notin Directories -> "ENOTDIR"
      [] op = "rmdir"  /\ n = Root             -> "EPERM"
      [] OTHER                                 -> "0"

LookUp ==
    /\ h.pc = "lookup"
    /\ \E r \in get_object(h.node) :
          \/ r.ret # FE_OK /\ Reply(reply_of(r.ret))
          \/ r.ret = FE_OK /\ ~r.obj /\ Reply("ENOENT")
          \/ /\ r.ret = FE_OK /\ r.obj /\ Refusal(h.op, h.node) # "0"
             /\ h' = [h EXCEPT !.obj = TRUE, !.pc = "idle",
                               !.reply = Refusal(h.op, h.node)]
          \/ /\ r.ret = FE_OK /\ r.obj /\ Refusal(h.op, h.node) = "0"
             /\ h' = [h EXCEPT !.obj = TRUE,
                         !.pc = IF h.op = "rmdir" THEN "isempty" ELSE "delete"]
    /\ UNCHANGED <<fat, hint, call, dent>>

\* Mutant: after a read error the request starts again.
CheckEmptyRetries ==
    /\ h.pc = "isempty"
    /\ \E r \in is_empty_directory(h.node) :
          IF r.ret # FE_OK THEN h' = [h EXCEPT !.pc = "lookup"]
          ELSE IF r.empty THEN h' = [h EXCEPT !.pc = "delete"]
          ELSE Reply("ENOTEMPTY")
    /\ UNCHANGED <<fat, hint, call, dent>>

CheckEmpty ==
    /\ h.pc = "isempty"
    /\ \E r \in is_empty_directory(h.node) :
          \/ r.ret # FE_OK /\ Reply(reply_of(r.ret))
          \/ r.ret = FE_OK /\ ~r.empty /\ Reply("ENOTEMPTY")
          \/ r.ret = FE_OK /\ r.empty /\ h' = [h EXCEPT !.pc = "delete"]
    /\ UNCHANGED <<fat, hint, call, dent>>

\* Mutant: the entry is marked in memory and not written.
MarkFreeUnwritten ==
    /\ h.pc = "delete"
    /\ IF h.node \notin Directories /\ Chain[h.node] = <<>>
       THEN Reply("0") /\ UNCHANGED fatvars
       ELSE /\ h' = [h EXCEPT !.pc = "freeing"]
            /\ mark_cluster_chain_free(FirstCluster(h.node))
    /\ UNCHANGED dent

\* Mutant: a directory, whose entry says size 0, passes for an empty file.
MarkFreeBySize ==
    /\ h.pc = "delete"
    /\ dent' = [dent EXCEPT ![h.node] = "free"]
    /\ IF h.node \in Directories \/ Chain[h.node] = <<>>
       THEN Reply("0") /\ UNCHANGED fatvars
       ELSE /\ h' = [h EXCEPT !.pc = "freeing"]
            /\ mark_cluster_chain_free(FirstCluster(h.node))

(***************************************************************************)
(* fat32_fs_object_delete, first the directory entry: its first byte is    *)
(* overwritten, or the write fails and nothing is.  A file without data    *)
(* has no chain to free.                                                   *)
(***************************************************************************)
MarkFree ==
    /\ h.pc = "delete"
    /\ dent' = [dent EXCEPT ![h.node] = "free"]
    /\ IF h.node \notin Directories /\ Chain[h.node] = <<>>
       THEN Reply("0") /\ UNCHANGED fatvars
       ELSE /\ h' = [h EXCEPT !.pc = "freeing"]
            /\ mark_cluster_chain_free(FirstCluster(h.node))

MarkFreeFails ==
    /\ h.pc = "delete" /\ TRUE \in WriteFaults
    /\ Reply("errno")
    /\ UNCHANGED <<fat, hint, call, dent>>

\* Then the clusters, one entry of the table after the other.
FreeCluster ==
    /\ h.pc = "freeing"
    /\ FreeChainStep
    /\ UNCHANGED <<dent, h>>

\* Mutant: the code of the table is passed on as it is.
delete_code_raw(code) == code

(***************************************************************************)
(* What fat32_fs_object_delete makes of the result, and the handlers of    *)
(* that: FE_FS_PARTIALLY_CONSISTENT is logged and answered with success.   *)
(***************************************************************************)
delete_code(code) ==
    IF code \in {FE_ERRNO, FE_FS_INCONSISTENT, FE_INVALID_FS}
    THEN FE_FS_PARTIALLY_CONSISTENT ELSE code

delete_reply(code) ==
    IF code \in {FE_OK, FE_FS_PARTIALLY_CONSISTENT} THEN "0" ELSE reply_of(code)

Deleted ==
    /\ h.pc = "freeing" /\ call.pc = "idle"
    /\ Reply(delete_reply(delete_code(call.ret)))
    /\ UNCHANGED <<fat, hint, call, dent>>

(***************************************************************************)
(* The driver dies and is mounted again: only what was written is left.    *)
(***************************************************************************)
Crash ==
    /\ TRUE \in Crashes
    /\ h' = NoHandler /\ call' = NoCall /\ hint' = FAT32_MIN_CLUSTER_NUMBER
    /\ UNCHANGED <<fat, dent>>

Handler ==
    \/ LookUp
    \/ CheckEmpty
    \/ MarkFree
    \/ MarkFreeFails
    \/ FreeCluster
    \/ Deleted

Next ==
    \/ \E n \in Nodes : perform_unlink(n) \/ rmdir(n)
    \/ Handler
    \/ Crash

Spec == Init /\ [][Next]_vars

\* The thread that runs a handler keeps running.
FairSpec == Spec /\ WF_vars(Handler)

-----------------------------------------------------------------------------
\* Types of the volume's state.
TypeOK ==
    /\ fat \in [Cells -> Entry]
    /\ hint \in Nat
    /\ call \in CallType
    /\ dent \in [Nodes -> {"used", "free"}]
    /\ h \in HandlerType

(***************************************************************************)
(* The chain of every object that still has a directory entry is whole, at *)
(* every moment: the order in which a deletion writes, a failed write in   *)
(* the middle of it, and the death of the driver at any point never leave  *)
(* a directory entry on clusters that are free.                            *)
(***************************************************************************)
LiveChainsIntact ==
    \A n \in Nodes : dent[n] = "used" =>
        \A j \in DOMAIN Chain[n] : Linked(fat, n, j)

\* The first k clusters of n are free, the others still make up a chain.
ClearedUpTo(n, k) ==
    \A j \in DOMAIN Chain[n] :
        IF j <= k THEN fat[Chain[n][j]] = FAT32_FAT_ENTRY_EMPTY
                  ELSE Linked(fat, n, j)

(***************************************************************************)
(* What an interrupted deletion leaves of a chain is a tail of it that     *)
(* still ends properly, everything before it being empty: "some clusters   *)
(* won't be used before fsck is performed" (operations.c) is all the       *)
(* damage there is.                                                        *)
(***************************************************************************)
LostChainsAreTails ==
    \A n \in Nodes : dent[n] = "free" =>
        \E k \in 0..Len(Chain[n]) : ClearedUpTo(n, k)

(***************************************************************************)
(* A deletion that is answered with success, and for which no inconsistent *)
(* state was logged, has freed every cluster of the object.                *)
(***************************************************************************)
CleanDeleteFreesAll ==
    h.pc = "idle" /\ h.op # "none" /\ h.reply = "0" /\ call.ret = FE_OK
        => /\ dent[h.node] = "free"
           /\ \A j \in DOMAIN Chain[h.node] :
                 fat[Chain[h.node][j]] = FAT32_FAT_ENTRY_EMPTY

(***************************************************************************)
(* The answer tells the caller whether the object is gone: success exactly *)
(* when its directory entry has been removed.  "As direnty is already      *)
(* marked as free generally we can only say that operation has completed   *)
(* successfully" (operations.c).                                           *)
(***************************************************************************)
ReplyIsTruthful ==
    h.pc = "idle" /\ h.obj => (h.reply = "0" <=> dent[h.node] = "free")

\* The objects with a directory entry.
Live == {n \in Nodes : dent[n] = "used"}

(***************************************************************************)
(* A directory is removed only when nothing is left in it: whatever has a  *)
(* directory entry is in a directory that has one.                         *)
(***************************************************************************)
NoOrphans == \A n \in Live \ {Root} : Parent[n] \in Live

(***************************************************************************)
(* To its users the volume is AbstractVolume: objects disappear one at a   *)
(* time, at once, and never a directory with something in it.              *)
(***************************************************************************)
A == INSTANCE AbstractVolume WITH live <- Live

Removes == A!Spec

(***************************************************************************)
(* Every request is answered, whatever fails on the way.                   *)
(***************************************************************************)
RequestsAnswered == (h.pc # "idle") ~> (h.pc = "idle")

=============================================================================
