------------------------------ MODULE Truncate ------------------------------
(***************************************************************************)
(* Truncating files: fat32_truncate (src/operations.c) with                *)
(* fat32_fs_object_truncate (src/fat32/fs_object.c) and                    *)
(* fat32_direntry_make_empty (src/fat32/direntry.c), on the file           *)
(* allocation table of FatTable.                                           *)
(*                                                                         *)
(* Of the directory entry only file_size is ever written, and only when    *)
(* the new length needs no cluster at all: "size" is what the device says. *)
(* Making a file longer runs into assert( false ), which ends the driver;  *)
(* it is mounted again.                                                    *)
(***************************************************************************)
EXTENDS FatTable

CONSTANTS
    Files,
    Chain,         \* Chain[f]: the clusters of f when the volume was made
    InitialSize,   \* file_size of each file
    ClusterSize,   \* fs->cluster_size
    SizeSpace,     \* number of values of a uint32_t: 2^32 in the code
    MaxLength,     \* bound on the length asked for
    Crashes        \* may the driver die and be mounted again?

\* The j-th cluster of f leads to the next one, the last one ends the chain.
Linked(F, f, j) ==
    F[Chain[f][j]] = Word(IF j < Len(Chain[f]) THEN Chain[f][j + 1]
                                               ELSE FAT32_FAT_ENTRY_EOC)

ASSUME TruncateAssumption ==
    /\ Files # {}
    /\ ClusterSize \in Nat \ {0}
    /\ SizeSpace \in Nat /\ MaxLength \in Nat
    /\ Crashes \subseteq BOOLEAN
    /\ InitialSize \in [Files -> 0..SizeSpace - 1]

\* The volume that is mounted is a valid one: each file's chain has the
\* clusters its size needs, is linked in the table and shares no cluster.
ASSUME LayoutAssumption ==
    /\ Chain \in [Files -> Seq(Clusters)]
    /\ \A f \in Files :
          Len(Chain[f]) = (InitialSize[f] + ClusterSize - 1) \div ClusterSize
    /\ \A F \in InitialFats, f \in Files : \A j \in DOMAIN Chain[f] : Linked(F, f, j)
    /\ \A f, g \in Files : \A i \in DOMAIN Chain[f], j \in DOMAIN Chain[g] :
          Chain[f][i] = Chain[g][j] => f = g /\ i = j

VARIABLES
    size,    \* size[f]: file_size of the directory entry on the device
    h        \* the handler under way, or the last one and its reply

vars == <<fat, hint, call, size, h>>

Replies == {"none", "0", "errno", "EINVAL", "ENOENT", "abort"}

HandlerType == [file : Files,
                length : Nat,     \* the length asked for
                pc : {"idle", "lookup", "empty", "nth", "entry", "last", "freeing"},
                fsize : 0..SizeSpace - 1,    \* the object's copy of file_size
                next : Nat,
                had : Nat,        \* clusters the file had when the call was made
                reply : Replies]

NoHandler == [file |-> CHOOSE f \in Files : TRUE, length |-> 0, pc |-> "idle",
              fsize |-> 0, next |-> 0, had |-> 0, reply |-> "none"]

Init ==
    /\ FatInit
    /\ size = InitialSize
    /\ h = NoHandler

Reply(r) == h' = [h EXCEPT !.pc = "idle", !.reply = r]

\* The answers to the codes of the layers below.
reply_of(code) == IF code = FE_ERRNO THEN "errno" ELSE "EINVAL"

\* The length is an off_t for the handler and a uint32_t for the object.
length32 == h.length % SizeSpace

\* Mutant: the number of clusters is rounded down.
clustersRoundedDown == length32 \div ClusterSize

clusters == ((length32 + ClusterSize - 1) % SizeSpace) \div ClusterSize

fat32_fs_object_first_cluster(f) == IF Chain[f] = <<>> THEN 0 ELSE Chain[f][1]

-----------------------------------------------------------------------------
\* The number of clusters of f that can still be reached from its first one.
Reached(f) ==
    IF size[f] = 0 \/ Chain[f] = <<>> THEN 0
    ELSE CHOOSE k \in 1..Len(Chain[f]) :
            /\ \A j \in 1..k - 1 : fat[Chain[f][j]] = Word(Chain[f][j + 1])
            /\ k = Len(Chain[f]) \/ fat[Chain[f][k]] # Word(Chain[f][k + 1])

truncate(f, length) ==
    /\ h.pc = "idle"
    /\ h' = [NoHandler EXCEPT !.file = f, !.length = length, !.pc = "lookup",
                              !.had = Reached(f)]
    /\ call' = NoCall
    /\ UNCHANGED <<fat, hint, size>>

(***************************************************************************)
(* fat32_fs_get_object, and the first decision of the truncation.          *)
(***************************************************************************)
LookUpFails ==
    /\ h.pc = "lookup"
    /\ \E code \in ReadFaults : Reply(reply_of(code))
    /\ UNCHANGED <<fat, hint, call, size>>

LookUp ==
    /\ h.pc = "lookup"
    /\ LET fsize == size[h.file]
           found == [h EXCEPT !.fsize = fsize]
       IN  \/ /\ length32 = fsize
              /\ h' = [found EXCEPT !.pc = "idle", !.reply = "0"]
              /\ UNCHANGED call
           \/ /\ length32 > fsize
              /\ h' = [NoHandler EXCEPT !.reply = "abort"]
              /\ call' = NoCall
           \/ /\ length32 < fsize /\ clusters = 0
              /\ h' = [found EXCEPT !.pc = "empty"]
              /\ UNCHANGED call
           \/ /\ length32 < fsize /\ clusters > 0
              /\ h' = [found EXCEPT !.pc = "nth"]
              /\ call' = [NoCall EXCEPT !.fn = "get_nth_entry", !.pc = "get",
                            !.cluster = fat32_fs_object_first_cluster(h.file),
                            !.left = clusters - 1,
                            !.entry = Word(fat32_fs_object_first_cluster(h.file))]
    /\ hint' = IF h'.reply = "abort" THEN FAT32_MIN_CLUSTER_NUMBER ELSE hint
    /\ UNCHANGED <<fat, size>>

(***************************************************************************)
(* The file needs no cluster any more: write the size, then free the chain *)
(* the entry goes on naming.  A write that failed may have been done.      *)
(***************************************************************************)
MakeEmpty ==
    /\ h.pc = "empty"
    /\ size' = [size EXCEPT ![h.file] = 0]
    /\ h' = [h EXCEPT !.pc = "freeing",
                      !.next = fat32_fs_object_first_cluster(h.file)]
    /\ mark_cluster_chain_free(fat32_fs_object_first_cluster(h.file))

MakeEmptyFails ==
    /\ h.pc = "empty" /\ TRUE \in WriteFaults
    /\ \/ Reply("errno") /\ UNCHANGED size
       \/ Reply("EINVAL") /\ size' \in {size, [size EXCEPT ![h.file] = 0]}
    /\ UNCHANGED <<fat, hint, call>>

(***************************************************************************)
(* The file keeps some clusters: walk to the last one it keeps, read which *)
(* one comes next, end the chain there and free the rest of it.            *)
(***************************************************************************)
WalkToLast ==
    /\ h.pc = "nth"
    /\ NthEnd \/ NthGet
    /\ UNCHANGED <<size, h>>

\* Mutant: a walk that failed is started again.
WalkFailsRetries ==
    /\ h.pc = "nth" /\ call.pc = "idle" /\ call.ret # FE_OK
    /\ h' = [h EXCEPT !.pc = "lookup"]
    /\ UNCHANGED <<fat, hint, call, size>>

WalkFails ==
    /\ h.pc = "nth" /\ call.pc = "idle" /\ call.ret # FE_OK
    /\ Reply(reply_of(call.ret))
    /\ UNCHANGED <<fat, hint, call, size>>

WalkDone ==
    /\ h.pc = "nth" /\ call.pc = "idle" /\ call.ret = FE_OK
    /\ h' = [h EXCEPT !.pc = "entry"]
    /\ UNCHANGED <<fat, hint, call, size>>

\* Mutant: the chain is not ended before its rest is freed.
ReadNextNoEnd ==
    /\ h.pc = "entry"
    /\ \E r \in get_entry(fat32_fat_entry_to_cluster(call.entry)) :
          IF r.ret # FE_OK
          THEN Reply(reply_of(r.ret)) /\ UNCHANGED fatvars
          ELSE /\ h' = [h EXCEPT !.pc = "freeing"]
               /\ mark_cluster_chain_free(fat32_fat_entry_to_cluster(r.entry))
    /\ UNCHANGED size

ReadNext ==
    /\ h.pc = "entry"
    /\ LET last == fat32_fat_entry_to_cluster(call.entry)
       IN  \E r \in get_entry(last) :
             \/ /\ r.ret # FE_OK
                /\ Reply(reply_of(r.ret))
                /\ UNCHANGED fatvars
             \/ /\ r.ret = FE_OK
                /\ h' = [h EXCEPT !.pc = "last",
                                  !.next = fat32_fat_entry_to_cluster(r.entry)]
                /\ mark_cluster_last(last)
    /\ UNCHANGED size

EndChain ==
    /\ h.pc = "last"
    /\ MarkLastSet
    /\ UNCHANGED <<size, h>>

EndChainFails ==
    /\ h.pc = "last" /\ call.pc = "idle" /\ call.ret # FE_OK
    /\ Reply(reply_of(call.ret))
    /\ UNCHANGED <<fat, hint, call, size>>

FreeRest ==
    /\ h.pc = "last" /\ call.pc = "idle" /\ call.ret = FE_OK
    /\ h' = [h EXCEPT !.pc = "freeing"]
    /\ mark_cluster_chain_free(h.next)
    /\ UNCHANGED size

FreeCluster ==
    /\ h.pc = "freeing"
    /\ FreeChainStep
    /\ UNCHANGED <<size, h>>

\* FE_FS_PARTIALLY_CONSISTENT is logged and answered with success.
truncate_reply(code) == IF code = FE_INVALID_DEV THEN "EINVAL" ELSE "0"

Truncated ==
    /\ h.pc = "freeing" /\ call.pc = "idle"
    /\ Reply(truncate_reply(call.ret))
    /\ UNCHANGED <<fat, hint, call, size>>

\* The driver dies and is mounted again.
Crash ==
    /\ TRUE \in Crashes
    /\ h' = NoHandler /\ call' = NoCall /\ hint' = FAT32_MIN_CLUSTER_NUMBER
    /\ UNCHANGED <<fat, size>>

Handler ==
    \/ LookUpFails
    \/ LookUp
    \/ MakeEmpty
    \/ MakeEmptyFails
    \/ WalkToLast
    \/ WalkFails
    \/ WalkDone
    \/ ReadNext
    \/ EndChain
    \/ EndChainFails
    \/ FreeRest
    \/ FreeCluster
    \/ Truncated

Next ==
    \/ \E f \in Files, length \in 0..MaxLength : truncate(f, length)
    \/ Handler
    \/ Crash

Spec == Init /\ [][Next]_vars

\* The thread that runs the handler keeps running.
FairSpec == Spec /\ WF_vars(Handler)

-----------------------------------------------------------------------------
\* Types of the volume's state.
TypeOK ==
    /\ fat \in [Cells -> Entry]
    /\ call \in CallType
    /\ size \in [Files -> 0..SizeSpace - 1]
    /\ h \in HandlerType

(***************************************************************************)
(* A file that has data leads, at every moment and whatever calls failed   *)
(* or were cut off, through clusters of its own to a proper end of chain.  *)
(***************************************************************************)
LiveChainsEnd ==
    \A f \in Files : size[f] > 0 =>
        \E k \in 1..Len(Chain[f]) :
            /\ \A j \in 1..k - 1 : fat[Chain[f][j]] = Word(Chain[f][j + 1])
            /\ fat[Chain[f][k]] = Word(FAT32_FAT_ENTRY_EOC)

(***************************************************************************)
(* No cluster leads to a free one, those cut off from their file included: *)
(* the end of the chain is written before the rest of it is freed.         *)
(***************************************************************************)
NoLinkToFree ==
    \A f \in Files : \A j \in 1..Len(Chain[f]) - 1 :
        fat[Chain[f][j]] = Word(Chain[f][j + 1])
            => ~fat32_fat_entry_is_free(fat[Chain[f][j + 1]])

\* The clusters that hold the first "length" bytes.
Needed(length) == (length + ClusterSize - 1) \div ClusterSize

(***************************************************************************)
(* A truncation keeps what it was asked to keep: the clusters of the first *)
(* "length" bytes that the file had are still in its chain, whatever the   *)
(* answer was.                                                             *)
(***************************************************************************)
KeepsNeededClusters ==
    h.pc = "idle" /\ h.reply \notin {"none", "abort"} =>
        \/ Reached(h.file) >= Needed(h.length)
        \/ Reached(h.file) >= h.had

(***************************************************************************)
(* A truncation ends: it is answered, or it ends the driver.               *)
(***************************************************************************)
TruncateAnswered == (h.pc # "idle") ~> (h.pc = "idle")

-----------------------------------------------------------------------------
(***************************************************************************)
(* "Truncate a file ... length: Desired new length of a file" (fs_object.h)*)
(***************************************************************************)
SizeIsLength ==
    h.pc = "idle" /\ h.reply = "0" => size[h.file] = h.length

(***************************************************************************)
(* "by construction FE_CLUSTER_CHAIN_ENDED can't be returned"              *)
(* (fs_object.c, fat32_fs_object_truncate).                                *)
(***************************************************************************)
ChainNeverTooShort ==
    h.pc = "nth" /\ call.pc = "idle" => call.ret # FE_CLUSTER_CHAIN_ENDED

(***************************************************************************)
(* What is given to fat32_fat_mark_cluster_chain_free is "The first        *)
(* cluster in a chain" (fat.h).                                            *)
(***************************************************************************)
FreesChains ==
    h.pc = "freeing" /\ call.pc = "get" => call.cluster \in Clusters

=============================================================================
