---------------------------- MODULE FatTableCalls ----------------------------
(***************************************************************************)
(* The file allocation table on its own: any sequence of calls of its      *)
(* functions, on any FAT the device may hold, damaged ones included.       *)
(*                                                                         *)
(* "before" and "start" remember the device and the cluster as they were   *)
(* when the last call was made; no function reads them.  The properties    *)
(* compare what a call did with what its chain was then.                   *)
(***************************************************************************)
EXTENDS FatTable

CONSTANTS
    MaxLinks,     \* bound on the n given to fat32_fat_get_nth_entry
    MaxCalls      \* bound on the number of calls of a behaviour

ASSUME BoundsAssumption ==
    /\ MaxLinks \in 0..DeviceCells
    /\ MaxCalls \in Nat

VARIABLES before, start

vars == <<fat, hint, call, before, start>>

Init == FatInit /\ before = fat /\ start = [cluster |-> 0, left |-> 0, calls |-> 0]

(***************************************************************************)
(* The cluster numbers a caller may pass are those a directory entry can   *)
(* hold, good or bad: every cell and one number beyond the device.  The    *)
(* number fat32_fat_get_nth_entry is given becomes a word at once, so only *)
(* numbers of the low field are passed to it.                              *)
(***************************************************************************)
Call ==
    /\ start.calls < MaxCalls
    /\ \/ \E c \in 0..DeviceCells : mark_cluster_chain_free(c)
       \/ \E c \in (0..DeviceCells) \cap (0..ClusterSpace - 1), n \in 0..MaxLinks :
             get_nth_entry(c, n)
       \/ find_free_cluster
       \/ \E c \in Cells : mark_cluster_last(c)
    /\ before' = fat
    /\ start' = [cluster |-> call'.cluster, left |-> call'.left,
                 calls |-> start.calls + 1]

Step ==
    /\ \/ FreeChainGet
       \/ FreeChainSet
       \/ NthEnd
       \/ NthGet
       \/ FindFull
       \/ FindGet
       \/ MarkLastSet
    /\ UNCHANGED <<before, start>>

Next == Call \/ Step

Spec == Init /\ [][Next]_vars

\* A function that was called keeps running.
FairSpec == Spec /\ WF_vars(Step)

-----------------------------------------------------------------------------
(***************************************************************************)
(* The chain of a cluster as the FAT32 format defines it, on the masked    *)
(* words: Walk(f, s)[k] is the k-th cluster of the chain, Stop, which is   *)
(* the number of no cell and the value of no word, after its end.          *)
(***************************************************************************)
Stop == ClusterSpace + DeviceCells

Ends(e) == e.value >= FAT32_FAT_ENTRY_EOC

Follows(e) == ~Ends(e) /\ ~fat32_fat_entry_is_free(e) /\ ~fat32_fat_entry_is_bad(e)

NextOf(f, c) == IF c \in Cells /\ Follows(f[c]) THEN f[c].value ELSE Stop

Walk(f, s) ==
    LET w[k \in 0..DeviceCells] == IF k = 0 THEN s ELSE NextOf(f, w[k - 1])
    IN  w

Chain(f, s) == {Walk(f, s)[k] : k \in 0..DeviceCells} \cap Cells

Ended(f, s) == \E c \in Chain(f, s) : Ends(f[c])

LeavesDevice(f, s) ==
    \E k \in 0..DeviceCells : Walk(f, s)[k] \notin Cells \cup {Stop}

Cleared == {c \in Cells : fat[c] # before[c]}

-----------------------------------------------------------------------------
\* Types of the table's state.
TypeOK ==
    /\ fat \in [Cells -> Entry]
    /\ hint \in Clusters
    /\ call \in CallType
    /\ before \in [Cells -> Entry]

(***************************************************************************)
(* However fat32_fat_mark_cluster_chain_free ends, and at every moment     *)
(* while it runs, the words it has changed are the first ones of the chain *)
(* it was given and are all empty: an I/O error or damage in the middle of *)
(* a chain never makes it touch a word of another chain.                   *)
(***************************************************************************)
ClearsPrefixOfChain ==
    call.fn = "mark_cluster_chain_free" =>
        LET w == Walk(before, start.cluster)
        IN  \E k \in 0..DeviceCells :
              /\ Cleared = {w[i] : i \in 0..k} \cap Cleared
              /\ \A i \in 0..k - 1 : w[i] \in Cells /\ fat[w[i]] = FAT32_FAT_ENTRY_EMPTY
              /\ Cleared \subseteq Chain(before, start.cluster)
              /\ \A c \in Cleared : fat[c] = FAT32_FAT_ENTRY_EMPTY

(***************************************************************************)
(* What the result of fat32_fat_mark_cluster_chain_free says is so: FE_OK  *)
(* only for a chain that had an end, all of it now empty; FE_INVALID_FS    *)
(* only for a chain that met a free or bad cluster or ran in a circle;     *)
(* FE_INVALID_DEV only for one that left the device.                       *)
(***************************************************************************)
FreeResult ==
    call.fn = "mark_cluster_chain_free" /\ call.pc = "idle" =>
        /\ call.ret = FE_OK =>
             /\ Ended(before, start.cluster)
             /\ \A c \in Chain(before, start.cluster) : fat[c] = FAT32_FAT_ENTRY_EMPTY
        /\ call.ret = FE_INVALID_FS =>
             /\ ~Ended(before, start.cluster)
             /\ ~LeavesDevice(before, start.cluster)
        /\ call.ret = FE_INVALID_DEV => LeavesDevice(before, start.cluster)

(***************************************************************************)
(* fat32_fat_get_nth_entry: FE_OK gives the n-th cluster of the chain,     *)
(* FE_CLUSTER_CHAIN_ENDED is returned only when the chain has no such      *)
(* cluster and FE_INVALID_FS only when a free or bad cluster comes first.  *)
(***************************************************************************)
NthResult ==
    call.fn = "get_nth_entry" /\ call.pc = "idle" =>
        LET w == Walk(before, start.cluster)
            n == start.left
        IN  /\ call.ret = FE_OK => fat32_fat_entry_to_cluster(call.entry) = w[n]
            /\ call.ret \in {FE_CLUSTER_CHAIN_ENDED, FE_INVALID_FS} => w[n] = Stop
            /\ call.ret = FE_CLUSTER_CHAIN_ENDED => Ended(before, start.cluster)
            /\ call.ret = FE_INVALID_FS => ~Ended(before, start.cluster)

(***************************************************************************)
(* fat32_fat_find_free_cluster, when no cluster below its hint is free:    *)
(* its hint then names the lowest free cluster of the volume, or it says   *)
(* that the volume is full and no cluster is free.  A search that fails    *)
(* half-way leaves the hint alone, so that the next one begins where it    *)
(* did.  What it returns with a cluster is not claimed here.               *)
(***************************************************************************)
FreeClusters == {c \in Clusters : fat32_fat_entry_is_free(fat[c])}

FindsLowestFree ==
    /\ call.fn = "find_free_cluster" /\ call.pc = "idle"
    /\ \A c \in FreeClusters : start.cluster <= c
    => \/ hint \in FreeClusters /\ \A c \in FreeClusters : hint <= c
       \/ FreeClusters = {} /\ hint = start.cluster /\ call.ret = FE_FS_IS_FULL
       \/ hint = start.cluster /\ call.ret \in ReadFaults

(***************************************************************************)
(* Every call returns, on every FAT: a chain that runs in a circle does    *)
(* not keep fat32_fat_mark_cluster_chain_free or fat32_fat_get_nth_entry   *)
(* running for ever.                                                       *)
(***************************************************************************)
CallReturns == (call.pc # "idle") ~> (call.pc = "idle")

-----------------------------------------------------------------------------
(***************************************************************************)
(* include/fat32/fat.h, fat32_fat_find_free_cluster: "FE_OK Free cluster   *)
(* found successfully", the other codes being for I/O errors and for a     *)
(* full volume.                                                            *)
(***************************************************************************)
FindReportsSuccess ==
    call.fn = "find_free_cluster" /\ call.pc = "idle" /\ ReadFaults = {}
        => call.ret \in {FE_OK, FE_FS_IS_FULL}

(***************************************************************************)
(* include/fat32/fat.h, fat32_fat_find_free_cluster: "FE_FS_IS_FULL There  *)
(* is no free space on the file system".                                   *)
(***************************************************************************)
FullMeansFull ==
    call.fn = "find_free_cluster" /\ call.pc = "idle" /\ call.ret = FE_FS_IS_FULL
        => \A c \in Clusters : ~fat32_fat_entry_is_free(fat[c])

=============================================================================
