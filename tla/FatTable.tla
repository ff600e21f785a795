------------------------------ MODULE FatTable ------------------------------
(***************************************************************************)
(* The file allocation table, src/fat32/fat.c: walking a cluster chain,    *)
(* freeing it, ending it, and looking for a free cluster.                  *)
(*                                                                         *)
(* One call is under way at a time (the driver's modifying operations      *)
(* exclude each other, see the README); it advances by one device access   *)
(* per step.  "call" holds the locals of the function being run.           *)
(*                                                                         *)
(* The device is a sequence of words, of which those of cells              *)
(* 0..ClustersCount+1 are the FAT and those after them whatever follows it *)
(* (the second FAT, then data): fat32_fat_get_entry and                    *)
(* fat32_fat_set_entry do not check the cluster number they are given.     *)
(***************************************************************************)
EXTENDS FatEntry, Fat32Errors, Sequences

CONSTANTS
    ClustersCount,    \* fat32_bpb_clusters_count(bpb)
    DeviceCells,      \* number of words the device holds after the FAT's start
    InitialFats,      \* the contents the device may have when it is mounted
    ReadFaults,       \* error codes a read may fail with
    WriteFaults       \* may a write fail?  {FALSE} or BOOLEAN

Cells == 0..DeviceCells - 1
Clusters == FAT32_MIN_CLUSTER_NUMBER..ClustersCount + 1

ASSUME FatTableAssumption ==
    /\ ClustersCount \in Nat
    /\ DeviceCells \in Nat
    /\ ClustersCount + 2 <= DeviceCells          \* the FAT is on the device
    /\ ClustersCount + 2 <= FAT32_FAT_ENTRY_BAD  \* cluster numbers are below the marks
    /\ InitialFats \subseteq [Cells -> Entry]
    /\ ReadFaults \subseteq {FE_ERRNO, FE_INVALID_DEV}
    /\ WriteFaults \subseteq BOOLEAN

VARIABLES
    fat,     \* [Cells -> Entry], the words on the device
    hint,    \* fat->free_cluster_hint
    call     \* the call under way, or the last one and its result

fatvars == <<fat, hint, call>>

-----------------------------------------------------------------------------

FatFunctions == {"none", "mark_cluster_chain_free", "get_nth_entry",
                 "find_free_cluster", "mark_cluster_last"}

CallType == [fn : FatFunctions, pc : {"idle", "get", "set"},
             cluster : Nat,      \* the parameter or local "cluster"
             left : Nat,         \* n - i of get_nth_entry
             entry : Entry,      \* the local or out-parameter "entry"
             ret : Nat]          \* the result, once pc is "idle"

NoCall == [fn |-> "none", pc |-> "idle", cluster |-> 0, left |-> 0,
           entry |-> FAT32_FAT_ENTRY_EMPTY, ret |-> FE_OK]

(***************************************************************************)
(* fat32_fat_init ignores the hint of the FSInfo sector and starts from    *)
(* the lowest cluster number.                                              *)
(***************************************************************************)
FatInit ==
    /\ fat \in InitialFats
    /\ hint = FAT32_MIN_CLUSTER_NUMBER
    /\ call = NoCall

(***************************************************************************)
(* The outcomes of fat32_fat_get_entry: the word, a failed lseek or read,  *)
(* or a short read, which is certain beyond the end of the device.         *)
(***************************************************************************)
get_entry(c) ==
    (IF c \in Cells THEN {[ret |-> FE_OK, entry |-> fat[c]]}
                    ELSE {[ret |-> FE_INVALID_DEV, entry |-> call.entry]})
    \cup [ret : ReadFaults, entry : {call.entry}]

(***************************************************************************)
(* The outcomes of fat32_fat_set_entry: done, or failed, and then the word *)
(* may or may not have reached the device.                                 *)
(***************************************************************************)
set_entry(c, e) ==
    {[ret |-> FE_OK, fat |-> [fat EXCEPT ![c] = e]]}
    \cup (IF TRUE \in WriteFaults
          THEN [ret : {FE_ERRNO}, fat : {fat, [fat EXCEPT ![c] = e]}]
          ELSE {})

Return(code) == call' = [call EXCEPT !.pc = "idle", !.ret = code]

-----------------------------------------------------------------------------
(***************************************************************************)
(* fat32_fat_mark_cluster_chain_free: read the entry of the cluster, clear *)
(* it, go on with the cluster the entry named until the entry was null.    *)
(***************************************************************************)
mark_cluster_chain_free(c) ==
    /\ call.pc = "idle"
    /\ call' = [NoCall EXCEPT !.fn = "mark_cluster_chain_free", !.pc = "get",
                              !.cluster = c]
    /\ UNCHANGED <<fat, hint>>

\* Mutant: a bad cluster in the chain is not noticed.
FreeChainGetBadPasses ==
    /\ call.fn = "mark_cluster_chain_free" /\ call.pc = "get"
    /\ \E r \in get_entry(call.cluster) :
          \/ /\ r.ret # FE_OK
             /\ Return(r.ret)
          \/ /\ r.ret = FE_OK
             /\ fat32_fat_entry_is_free(r.entry)
             /\ Return(FE_INVALID_FS)
          \/ /\ r.ret = FE_OK
             /\ ~fat32_fat_entry_is_free(r.entry)
             /\ call' = [call EXCEPT !.pc = "set", !.entry = r.entry]
    /\ UNCHANGED <<fat, hint>>

FreeChainGet ==
    /\ call.fn = "mark_cluster_chain_free" /\ call.pc = "get"
    /\ \E r \in get_entry(call.cluster) :
          \/ /\ r.ret # FE_OK
             /\ Return(r.ret)
          \/ /\ r.ret = FE_OK
             /\ \/ fat32_fat_entry_is_free(r.entry)
                \/ fat32_fat_entry_is_bad(r.entry)
             /\ Return(FE_INVALID_FS)
          \/ /\ r.ret = FE_OK
             /\ ~fat32_fat_entry_is_free(r.entry)
             /\ ~fat32_fat_entry_is_bad(r.entry)
             /\ call' = [call EXCEPT !.pc = "set", !.entry = r.entry]
    /\ UNCHANGED <<fat, hint>>

\* Mutant: the cluster is advanced before its entry is cleared.
FreeChainSetAdvanced ==
    /\ call.fn = "mark_cluster_chain_free" /\ call.pc = "set"
    /\ LET next == fat32_fat_entry_to_cluster(call.entry)
       IN  /\ fat' = IF next \in Cells THEN [fat EXCEPT ![next] = FAT32_FAT_ENTRY_EMPTY]
                                      ELSE fat
           /\ call' = [call EXCEPT !.cluster = next,
                         !.pc = IF fat32_fat_entry_is_null(call.entry) THEN "idle"
                                                                       ELSE "get"]
    /\ UNCHANGED hint

FreeChainSet ==
    /\ call.fn = "mark_cluster_chain_free" /\ call.pc = "set"
    /\ \E w \in set_entry(call.cluster, FAT32_FAT_ENTRY_EMPTY) :
          /\ fat' = w.fat
          /\ \/ /\ w.ret = FE_ERRNO
                /\ Return(FE_FS_INCONSISTENT)
             \/ /\ w.ret = FE_OK
                /\ fat32_fat_entry_is_null(call.entry)
                /\ call' = [call EXCEPT !.pc = "idle", !.ret = FE_OK,
                              !.cluster = fat32_fat_entry_to_cluster(call.entry)]
             \/ /\ w.ret = FE_OK
                /\ ~fat32_fat_entry_is_null(call.entry)
                /\ call' = [call EXCEPT !.pc = "get",
                              !.cluster = fat32_fat_entry_to_cluster(call.entry)]
    /\ UNCHANGED hint

FreeChainStep == FreeChainGet \/ FreeChainSet

-----------------------------------------------------------------------------
(***************************************************************************)
(* fat32_fat_get_nth_entry: follow n links from the cluster.               *)
(***************************************************************************)
get_nth_entry(c, n) ==
    /\ call.pc = "idle"
    /\ call' = [NoCall EXCEPT !.fn = "get_nth_entry", !.pc = "get",
                              !.cluster = c, !.left = n, !.entry = Word(c)]
    /\ UNCHANGED <<fat, hint>>

\* Mutant: the walk stops one link early.
NthEndEarly ==
    /\ call.fn = "get_nth_entry" /\ call.pc = "get" /\ call.left <= 1
    /\ Return(FE_OK)
    /\ UNCHANGED <<fat, hint>>

NthEnd ==
    /\ call.fn = "get_nth_entry" /\ call.pc = "get" /\ call.left = 0
    /\ Return(FE_OK)
    /\ UNCHANGED <<fat, hint>>

\* The result of the loop body once the next entry has been read.
NthCode(e) ==
    IF fat32_fat_entry_is_null(e) THEN FE_CLUSTER_CHAIN_ENDED
    ELSE IF fat32_fat_entry_is_bad(e) \/ fat32_fat_entry_is_free(e)
         THEN FE_INVALID_FS
         ELSE FE_OK

\* Mutant: the links are not counted.
NthGetUncounted ==
    /\ call.fn = "get_nth_entry" /\ call.pc = "get" /\ call.left > 0
    /\ \E r \in get_entry(call.cluster) :
          IF r.ret # FE_OK THEN Return(r.ret)
          ELSE IF NthCode(r.entry) # FE_OK THEN Return(NthCode(r.entry))
          ELSE call' = [call EXCEPT !.entry = r.entry,
                          !.cluster = fat32_fat_entry_to_cluster(r.entry)]
    /\ UNCHANGED <<fat, hint>>

NthGet ==
    /\ call.fn = "get_nth_entry" /\ call.pc = "get" /\ call.left > 0
    /\ \E r \in get_entry(call.cluster) :
          \/ /\ r.ret # FE_OK
             /\ Return(r.ret)
          \/ /\ r.ret = FE_OK
             /\ NthCode(r.entry) # FE_OK
             /\ call' = [call EXCEPT !.pc = "idle", !.entry = r.entry,
                                     !.ret = NthCode(r.entry)]
          \/ /\ r.ret = FE_OK
             /\ NthCode(r.entry) = FE_OK
             /\ call' = [call EXCEPT !.entry = r.entry, !.left = @ - 1,
                           !.cluster = fat32_fat_entry_to_cluster(r.entry)]
    /\ UNCHANGED <<fat, hint>>

-----------------------------------------------------------------------------
(***************************************************************************)
(* fat32_fat_find_free_cluster: try the clusters from the hint upwards.    *)
(* When one is free the function remembers it as the hint and returns the  *)
(* cluster number itself as its error code.                                *)
(***************************************************************************)
find_free_cluster ==
    /\ call.pc = "idle"
    /\ call' = [NoCall EXCEPT !.fn = "find_free_cluster", !.pc = "get",
                              !.cluster = hint]
    /\ UNCHANGED <<fat, hint>>

FindFull ==
    /\ call.fn = "find_free_cluster" /\ call.pc = "get"
    /\ call.cluster \notin Clusters
    /\ Return(FE_FS_IS_FULL)
    /\ UNCHANGED <<fat, hint>>

\* Mutant: the cluster after the one that was found becomes the hint.
FindGetHintsPast ==
    /\ call.fn = "find_free_cluster" /\ call.pc = "get"
    /\ call.cluster \in Clusters
    /\ \E r \in get_entry(call.cluster) :
          \/ /\ r.ret # FE_OK
             /\ Return(r.ret)
             /\ UNCHANGED hint
          \/ /\ r.ret = FE_OK
             /\ fat32_fat_entry_is_free(r.entry)
             /\ hint' = call.cluster + 1
             /\ Return(call.cluster)
          \/ /\ r.ret = FE_OK
             /\ ~fat32_fat_entry_is_free(r.entry)
             /\ call' = [call EXCEPT !.cluster = @ + 1]
             /\ UNCHANGED hint
    /\ UNCHANGED fat

FindGet ==
    /\ call.fn = "find_free_cluster" /\ call.pc = "get"
    /\ call.cluster \in Clusters
    /\ \E r \in get_entry(call.cluster) :
          \/ /\ r.ret # FE_OK
             /\ Return(r.ret)
             /\ UNCHANGED hint
          \/ /\ r.ret = FE_OK
             /\ fat32_fat_entry_is_free(r.entry)
             /\ hint' = call.cluster
             /\ Return(call.cluster)
          \/ /\ r.ret = FE_OK
             /\ ~fat32_fat_entry_is_free(r.entry)
             /\ call' = [call EXCEPT !.cluster = @ + 1]
             /\ UNCHANGED hint
    /\ UNCHANGED fat

-----------------------------------------------------------------------------
(***************************************************************************)
(* fat32_fat_mark_cluster_last.  Its caller has read the cluster's entry,  *)
(* so the cluster is on the device.                                        *)
(***************************************************************************)
mark_cluster_last(c) ==
    /\ call.pc = "idle"
    /\ c \in Cells
    /\ call' = [NoCall EXCEPT !.fn = "mark_cluster_last", !.pc = "set",
                              !.cluster = c]
    /\ UNCHANGED <<fat, hint>>

MarkLastSet ==
    /\ call.fn = "mark_cluster_last" /\ call.pc = "set"
    /\ \E w \in set_entry(call.cluster, Word(FAT32_FAT_ENTRY_EOC)) :
          /\ fat' = w.fat
          /\ Return(IF w.ret = FE_ERRNO THEN FE_FS_INCONSISTENT ELSE FE_OK)
    /\ UNCHANGED hint

=============================================================================
