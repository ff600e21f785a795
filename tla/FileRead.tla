------------------------------ MODULE FileRead ------------------------------
(***************************************************************************)
(* Reading a file: the loop of fat32_read (src/operations.c) with          *)
(* fat32_fat_get_nth_entry and fat32_fat_get_entry (src/fat32/fat.c).      *)
(*                                                                         *)
(* fat->fd is a duplicate of fs->fd (fat32_fat_init), so the table and the *)
(* data are read through one file offset, "pos", that every thread of the  *)
(* driver moves: each access is an lseek and a read, two steps.            *)
(*                                                                         *)
(* The device is a line of addresses: the words of the FAT first, then the *)
(* clusters' bytes.  A byte is modelled by its own address, so what a read *)
(* returned tells where it came from.  While the file is open nobody       *)
(* deletes it (OpenFiles), so the device does not change.                  *)
(***************************************************************************)
EXTENDS FatEntry, Fat32Errors, Integers, Sequences

CONSTANTS
    Threads,
    ClusterSize,      \* fs->cluster_size, in bytes
    ClustersCount,    \* fat32_bpb_clusters_count(bpb)
    Table,            \* the words of the FAT
    First,            \* fat32_fs_object_first_cluster of the open file
    FileSize,         \* file_size of its directory entry
    MaxOffset,        \* bound on the offset and size of a request
    ReadFaults        \* error codes a read may fail with

FatCells == ClustersCount + 2
DeviceSize == FatCells + ClustersCount * ClusterSize

ASSUME FileReadAssumption ==
    /\ ClusterSize \in Nat \ {0}
    /\ ClustersCount \in Nat
    /\ Table \in [0..FatCells - 1 -> Entry]
    /\ First \in Nat /\ FileSize \in Nat /\ MaxOffset \in Nat
    /\ ReadFaults \subseteq {FE_ERRNO}

VARIABLES
    pos,    \* the file offset fs->fd and fat->fd share
    th      \* th[t]: the request thread t serves and the locals of fat32_read

vars == <<pos, th>>

Replies == {"none", "data", "-errno", "-EINVAL", "-FE_ERRNO"}

Locals == [pc : {"idle", "nth_seek", "nth_read", "seek", "read",
                 "next_seek", "next_read"},
           offset : Nat, asked : Nat,       \* the request
           size : Nat,                      \* what is left to read
           coffset : Nat, left : Nat,       \* place in the cluster, n - i
           cluster : Nat, ret : Nat,
           buffer : Seq(Nat),               \* what was read so far
           reply : Replies]

Init ==
    /\ pos = 0
    /\ th = [t \in Threads |->
               [pc |-> "idle", offset |-> 0, asked |-> 0, size |-> 0,
                coffset |-> 0, left |-> 0, cluster |-> 0, ret |-> FE_OK,
                buffer |-> <<>>, reply |-> "none"]]

-----------------------------------------------------------------------------
\* fat32_fat_entry_offset and fat32_cluster_to_offset.
entry_offset(c) == c
cluster_to_offset(c) == FatCells + (c - 2) * ClusterSize

\* What the device holds at an address, read as a table word.
WordAt(a) == IF a < FatCells THEN Table[a] ELSE Word(a % ClusterSpace)

ByteAt(a) == a

OnDevice(a, n) == a >= 0 /\ a + n <= DeviceSize

Seek(a) == pos' = a

Set(t, locals) == th' = [th EXCEPT ![t] = locals]

Answer(t, r) == Set(t, [th[t] EXCEPT !.pc = "idle", !.reply = r])

(***************************************************************************)
(* A request: nothing to do beyond the end of the file, otherwise the size *)
(* is cut to what the file has, and the cluster of the offset is looked up *)
(* in n steps.                                                             *)
(***************************************************************************)
read(t, offset, size) ==
    /\ th[t].pc = "idle"
    /\ LET rest == IF offset >= FileSize THEN 0
                   ELSE IF offset + size > FileSize THEN FileSize - offset
                   ELSE size
           n == offset \div ClusterSize
           l == [th[t] EXCEPT !.offset = offset, !.asked = size, !.size = rest,
                   !.coffset = offset % ClusterSize, !.left = n,
                   !.cluster = First, !.ret = FE_OK, !.buffer = <<>>]
       IN  IF offset >= FileSize
           THEN Set(t, [l EXCEPT !.reply = "data"])
           ELSE Set(t, [l EXCEPT !.reply = "none",
                          !.pc = IF n > 0 THEN "nth_seek" ELSE "seek"])
    /\ UNCHANGED pos

(***************************************************************************)
(* fat32_fat_get_nth_entry.                                                *)
(***************************************************************************)
NthSeek(t) ==
    /\ th[t].pc = "nth_seek"
    /\ Seek(entry_offset(th[t].cluster))
    /\ Set(t, [th[t] EXCEPT !.pc = "nth_read"])

\* The outcomes of reading a word where the offset is: <<code, word>>.
ReadWord ==
    {IF OnDevice(pos, 1) THEN <<FE_OK, WordAt(pos)>> ELSE <<FE_INVALID_DEV, Word(0)>>}
    \cup (ReadFaults \X {Word(0)})

nth_code(r) ==
    IF r[1] # FE_OK THEN r[1]
    ELSE IF fat32_fat_entry_is_null(r[2]) THEN FE_CLUSTER_CHAIN_ENDED
    ELSE IF fat32_fat_entry_is_bad(r[2]) \/ fat32_fat_entry_is_free(r[2])
    THEN FE_INVALID_FS
    ELSE FE_OK

NthRead(t) ==
    /\ th[t].pc = "nth_read"
    /\ \E r \in ReadWord :
          /\ pos' = IF r[1] = FE_OK THEN pos + 1 ELSE pos
          /\ Set(t, [th[t] EXCEPT
                !.ret = nth_code(r),
                !.cluster = IF nth_code(r) = FE_OK
                            THEN fat32_fat_entry_to_cluster(r[2]) ELSE @,
                !.left = @ - 1,
                !.pc = IF nth_code(r) = FE_OK /\ th[t].left > 1
                       THEN "nth_seek" ELSE "seek"])

(***************************************************************************)
(* The loop of fat32_read.  Its body starts with the code of the last      *)
(* table access; a failed one is answered with the code negated, or with   *)
(* EINVAL.                                                                 *)
(***************************************************************************)
LoopEnds(t) ==
    /\ th[t].pc = "seek" /\ th[t].size = 0
    /\ Answer(t, "data")
    /\ UNCHANGED pos

\* Mutant: the code of the last table access is looked at before the size.
LoopFailsFirst(t) ==
    /\ th[t].pc = "seek" /\ th[t].ret # FE_OK
    /\ Answer(t, IF th[t].ret = FE_ERRNO THEN "-FE_ERRNO" ELSE "-EINVAL")
    /\ UNCHANGED pos

LoopFails(t) ==
    /\ th[t].pc = "seek" /\ th[t].size > 0 /\ th[t].ret # FE_OK
    /\ Answer(t, IF th[t].ret = FE_ERRNO THEN "-FE_ERRNO" ELSE "-EINVAL")
    /\ UNCHANGED pos

DataSeek(t) ==
    /\ th[t].pc = "seek" /\ th[t].size > 0 /\ th[t].ret = FE_OK
    /\ Seek(cluster_to_offset(th[t].cluster) + th[t].coffset)
    /\ Set(t, [th[t] EXCEPT !.pc = "read"])

\* Mutant: the next clusters are read from the same offset as the first.
DataReadKeepsOffset(t) ==
    /\ th[t].pc = "read"
    /\ LET room == ClusterSize - th[t].coffset
           want == IF room > th[t].size THEN th[t].size ELSE room
       IN  IF OnDevice(pos, want)
           THEN /\ pos' = pos + want
                /\ Set(t, [th[t] EXCEPT !.pc = "next_seek", !.size = @ - want,
                             !.buffer = @ \o [i \in 1..want |-> ByteAt(pos + i - 1)]])
           ELSE Answer(t, "-EINVAL") /\ UNCHANGED pos

\* Mutant: a failed read of the data is tried again.
DataReadRetries(t) ==
    /\ th[t].pc = "read"
    /\ LET room == ClusterSize - th[t].coffset
           want == IF room > th[t].size THEN th[t].size ELSE room
       IN  \/ /\ OnDevice(pos, want)
              /\ pos' = pos + want
              /\ Set(t, [th[t] EXCEPT !.pc = "next_seek", !.coffset = 0, !.size = @ - want,
                           !.buffer = @ \o [i \in 1..want |-> ByteAt(pos + i - 1)]])
           \/ /\ FE_ERRNO \in ReadFaults
              /\ Set(t, [th[t] EXCEPT !.pc = "seek"])
              /\ UNCHANGED pos

DataRead(t) ==
    /\ th[t].pc = "read"
    /\ LET room == ClusterSize - th[t].coffset
           want == IF room > th[t].size THEN th[t].size ELSE room
       IN  \/ /\ OnDevice(pos, want)
              /\ pos' = pos + want
              /\ Set(t, [th[t] EXCEPT !.pc = "next_seek", !.coffset = 0,
                           !.size = @ - want,
                           !.buffer = @ \o [i \in 1..want |-> ByteAt(pos + i - 1)]])
           \/ /\ ~OnDevice(pos, want)
              /\ Answer(t, "-EINVAL")
              /\ UNCHANGED pos
           \/ /\ FE_ERRNO \in ReadFaults
              /\ Answer(t, "-errno")
              /\ UNCHANGED pos

\* fat32_fat_get_entry, after every piece, the last one included.
NextSeek(t) ==
    /\ th[t].pc = "next_seek"
    /\ Seek(entry_offset(th[t].cluster))
    /\ Set(t, [th[t] EXCEPT !.pc = "next_read"])

NextRead(t) ==
    /\ th[t].pc = "next_read"
    /\ \E r \in ReadWord :
          /\ pos' = IF r[1] = FE_OK THEN pos + 1 ELSE pos
          /\ Set(t, [th[t] EXCEPT !.pc = "seek", !.ret = r[1],
                       !.cluster = IF r[1] = FE_OK
                                   THEN fat32_fat_entry_to_cluster(r[2]) ELSE @])

Step(t) ==
    \/ NthSeek(t)
    \/ NthRead(t)
    \/ LoopEnds(t)
    \/ LoopFails(t)
    \/ DataSeek(t)
    \/ DataRead(t)
    \/ NextSeek(t)
    \/ NextRead(t)

Next == \E t \in Threads :
    \/ \E offset, size \in 0..MaxOffset : read(t, offset, size)
    \/ Step(t)

Spec == Init /\ [][Next]_vars

\* A thread that serves a request keeps running.
FairSpec == Spec /\ \A t \in Threads : WF_vars(Step(t))

-----------------------------------------------------------------------------
(***************************************************************************)
(* The bytes of the file in order: those of the clusters of its chain, of  *)
(* which the size of the file says how many there are.                     *)
(***************************************************************************)
ChainCluster[k \in 0..FileSize \div ClusterSize] ==
    IF k = 0 THEN First ELSE Table[ChainCluster[k - 1]].value

\* The volume is consistent: the chain is as long as the size of the file
\* says, and none of its links is a mark.
ASSUME WholeChainAssumption ==
    \A k \in 0..FileSize \div ClusterSize :
        /\ k * ClusterSize < FileSize => ChainCluster[k] \in 2..FatCells - 1
        /\ (k + 1) * ClusterSize < FileSize =>
              LET e == Table[ChainCluster[k]]
              IN  ~ \/ fat32_fat_entry_is_null(e)
                    \/ fat32_fat_entry_is_bad(e)
                    \/ fat32_fat_entry_is_free(e)

FileByte(i) ==
    ByteAt(cluster_to_offset(ChainCluster[i \div ClusterSize]) + (i % ClusterSize))

Asked(l) ==
    LET end == IF l.offset + l.asked > FileSize THEN FileSize ELSE l.offset + l.asked
    IN  IF l.offset >= end THEN <<>>
        ELSE [i \in 1..end - l.offset |-> FileByte(l.offset + i - 1)]

\* Types of the locals.
TypeOK == pos \in Int /\ th \in [Threads -> Locals]

(***************************************************************************)
(* A read that succeeds returns the bytes of the file from the offset on,  *)
(* as many as were asked for and the file has, whatever clusters they      *)
(* start, cross and end in: "A buffer to store read data ... An offset     *)
(* from the beginning of the file" (fat32_read).                           *)
(***************************************************************************)
ReadsTheFile ==
    \A t \in Threads : th[t].pc = "idle" /\ th[t].reply = "data" =>
        th[t].buffer = Asked(th[t])

(***************************************************************************)
(* On a whole chain a read fails only because the device did, and a        *)
(* failure after the last byte was read does not make it fail.             *)
(***************************************************************************)
FailsOnlyWithDevice ==
    \A t \in Threads : th[t].pc = "idle" =>
        /\ th[t].reply # "-EINVAL"
        /\ th[t].reply \in {"-errno", "-FE_ERRNO"} =>
             Len(th[t].buffer) < Len(Asked(th[t]))

(***************************************************************************)
(* Every read is answered.                                                 *)
(***************************************************************************)
ReadsAnswered == \A t \in Threads : (th[t].pc # "idle") ~> (th[t].pc = "idle")

(***************************************************************************)
(* "Negative value indicates an erorr. It's specified using errno"         *)
(* (fat32_read).                                                           *)
(***************************************************************************)
ErrorsAreErrno == \A t \in Threads : th[t].reply # "-FE_ERRNO"

=============================================================================
