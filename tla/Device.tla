------------------------------- MODULE Device -------------------------------
(***************************************************************************)
(* What the driver does to the device itself: the boot sector and FSInfo   *)
(* are read when the volume is mounted, then entries of the table are read *)
(* and written and clusters are read, each by a seek and a transfer on the *)
(* one file offset.  Geometry says where, Transfer how.                    *)
(*                                                                         *)
(* One thread; FileRead shows two.  The other modules take get_entry and   *)
(* set_entry as one access to a word of the table: this one shows them     *)
(* down to the bytes.                                                      *)
(***************************************************************************)
EXTENDS Geometry, Transfer, Fat32Errors

CONSTANTS
    Volumes,     \* devices: the boot sector they hold, their size, and the
                 \* offset at which there is a correctly signed FSInfo
    BpbSize,     \* sizeof(struct fat32_bpb_t)
    FsInfoSize,  \* sizeof(struct fat32_fs_info_t)
    Clusters,    \* the cluster numbers that are asked for
    MaxOffset    \* bound: no cluster is read from a file offset past it

ASSUME DeviceAssumption ==
    /\ BpbSize \in Nat \ {0} /\ FsInfoSize \in Nat \ {0} /\ MaxOffset \in Nat
    /\ Clusters \subseteq 0..Space32 - 1
    \* 90 and 512 bytes, in sectors of 512 at least
    /\ \A size \in SectorSizes : BpbSize <= size /\ FsInfoSize <= size
    /\ \A v \in Volumes :
        /\ v.size \in Nat
        /\ v.info \in Nat \ {0}              \* the start is a jump
        /\ v.bpb \in [bps : Nat, spc : Nat, reserved : Nat, fats : Nat, fat_size : Nat,
                       total : Nat, root : Nat, fs_info : Nat, fixed : BOOLEAN]
        /\ v.bpb.reserved * 2 <= Space32      \* a field of 16 bits

VARIABLES
    volume,      \* the device that is plugged in
    bpb,         \* the boot sector as the driver has it, or NoBpb
    call,        \* the call under way
    reply,       \* between calls: the last one and what it returned
    before       \* the device when the last call was made, if that was to
                 \* write an entry; nothing reads it

devicevars == <<disk, offset, io, volume, bpb, call, reply, before>>

NoBpb == [bps |-> 0]

NoCall == [fn |-> "none", pc |-> "idle", cluster |-> 0, saved |-> 0]

NoReply == [fn |-> "none", cluster |-> 0, code |-> FE_OK]

Idle == call.pc = "idle"

DeviceInit ==
    /\ volume \in Volumes
    /\ disk = [o \in 0..volume.size - 1 |-> o]
    /\ offset = 0 /\ io = NoTransfer
    /\ bpb = NoBpb /\ call = NoCall
    /\ reply = NoReply
    /\ before = <<>>

Return(code) ==
    /\ call' = NoCall
    /\ reply' = [fn |-> call.fn, cluster |-> call.cluster, code |-> code]
    /\ UNCHANGED <<volume, before>>

Go(c) == call' = c /\ reply' = NoReply /\ UNCHANGED <<volume, before>>

\* What the length of a transfer is taken for.
transfer_code(wanted) ==
    IF io.ret < 0 THEN FE_ERRNO ELSE IF io.ret < wanted THEN FE_INVALID_DEV ELSE FE_OK

\* The bytes in the buffer are those at the place.
Holds(place) == io.buf = [i \in 1..io.count |-> place + i - 1]

-----------------------------------------------------------------------------
(***************************************************************************)
(* Mounting.  The driver has just opened the device.                       *)
(***************************************************************************)
fat32_bpb_read ==
    /\ Idle
    /\ call' = [NoCall EXCEPT !.fn = "mount", !.pc = "bpb"]
    /\ reply' = NoReply /\ before' = <<>>
    /\ offset' = 0 /\ io' = Transfer("xread", BpbSize)
    /\ bpb' = NoBpb
    /\ UNCHANGED <<disk, volume>>

\* Bytes that are not those of the boot sector say anything.
BpbRead ==
    /\ call.pc = "bpb" /\ Done
    /\ \E found \in IF Holds(0) THEN {volume.bpb} ELSE {v.bpb : v \in Volumes} :
        LET code == transfer_code(BpbSize)
        IN  IF code = FE_OK /\ fat32_bpb_check_validity(found)
            THEN bpb' = found /\ Go([call EXCEPT !.pc = "seek"])
            ELSE /\ UNCHANGED bpb
                 /\ Return(IF code = FE_OK THEN FE_INVALID_FS ELSE code)
    /\ UNCHANGED <<disk, offset, io>>

GivesUp(code) == bpb' = NoBpb /\ Return(code)

fat32_fs_info_read ==
    /\ call.pc = "seek"
    /\ \/ /\ lseek(fat32_sector_to_offset(bpb, bpb.fs_info))
          /\ io' = Transfer("xread", FsInfoSize)
          /\ Go([call EXCEPT !.pc = "info", !.saved = offset])
          /\ UNCHANGED bpb
       \/ "seek" \in IoFaults /\ GivesUp(FE_ERRNO) /\ UNCHANGED <<io, offset>>
    /\ UNCHANGED disk

InfoRead ==
    /\ call.pc = "info" /\ Done
    /\ LET code == transfer_code(FsInfoSize)
       IN  IF code # FE_OK \/ ~Holds(volume.info)
           THEN /\ GivesUp(IF code = FE_OK THEN FE_INVALID_FS ELSE code)
                /\ UNCHANGED offset
           ELSE \/ lseek(call.saved) /\ Return(FE_OK) /\ UNCHANGED bpb
                \/ "seek" \in IoFaults /\ GivesUp(FE_ERRNO) /\ UNCHANGED offset
    /\ UNCHANGED <<disk, io>>

-----------------------------------------------------------------------------
(***************************************************************************)
(* Accesses to a volume that is mounted.                                   *)
(***************************************************************************)
Mounted == Idle /\ bpb # NoBpb

Access(fn, cluster, place, transfer) ==
    /\ \/ /\ lseek(place)
          /\ io' = transfer
          /\ call' = [NoCall EXCEPT !.fn = fn, !.pc = "transfer", !.cluster = cluster]
          /\ reply' = NoReply
       \/ /\ "seek" \in IoFaults
          /\ reply' = [fn |-> fn, cluster |-> cluster, code |-> FE_ERRNO]
          /\ UNCHANGED <<offset, io, call>>
    /\ before' = IF fn = "set_entry" THEN disk ELSE <<>>
    /\ UNCHANGED <<disk, volume, bpb>>

fat32_fat_get_entry(cluster) ==
    /\ Mounted
    /\ Access("get_entry", cluster, fat32_fat_entry_offset(bpb, cluster),
              Transfer("xread", EntrySize))

\* Mutant: the entry is written where the last access ended.
set_entry_without_seek(cluster) ==
    /\ Mounted
    /\ Access("set_entry", cluster, offset, Transfer("xwrite", EntrySize))

fat32_fat_set_entry(cluster) ==
    /\ Mounted
    /\ Access("set_entry", cluster, fat32_fat_entry_offset(bpb, cluster),
              Transfer("xwrite", EntrySize))

\* The seek is relative to where the file offset is.  Nothing calls this yet.
fat32_fs_read_cluster(cluster) ==
    /\ Mounted /\ offset <= MaxOffset
    /\ IF fat32_bpb_is_valid_cluster(bpb, cluster)
       THEN Access("read_cluster", cluster,
                   offset + fat32_cluster_to_offset(bpb, cluster),
                   Transfer("xread", fat32_bpb_cluster_size(bpb)))
       ELSE /\ reply' = [fn |-> "read_cluster", cluster |-> cluster, code |-> FE_INVALID_CLUSTER]
            /\ before' = <<>>
            /\ UNCHANGED <<disk, offset, io, volume, bpb, call>>

\* A write is compared with -1 only.
AccessEnds ==
    /\ call.pc = "transfer" /\ Done
    /\ Return(IF call.fn = "set_entry"
              THEN IF io.ret = -1 THEN FE_ERRNO ELSE FE_OK
              ELSE transfer_code(io.count))
    /\ UNCHANGED <<disk, offset, io, bpb>>

InTransfer == TransferStep /\ UNCHANGED <<volume, bpb, call, reply, before>>

DeviceFails == Fails /\ UNCHANGED <<volume, bpb, call, reply, before>>

Begin ==
    \/ fat32_bpb_read
    \/ \E cluster \in Clusters :
        \/ fat32_fat_get_entry(cluster)
        \/ fat32_fat_set_entry(cluster)
        \/ fat32_fs_read_cluster(cluster)

DeviceStep == BpbRead \/ fat32_fs_info_read \/ InfoRead \/ AccessEnds \/ InTransfer

DeviceNext == Begin \/ DeviceStep \/ DeviceFails

DeviceSpec == DeviceInit /\ [][DeviceNext]_devicevars

\* The thread goes on with the call it is in; no failure has to come to its
\* help.
FairDeviceSpec == DeviceSpec /\ WF_devicevars(DeviceStep)

-----------------------------------------------------------------------------
\* The volume is one a formatter made, with its FSInfo where it says.
Sane ==
    /\ Formatted(volume.bpb, volume.size)
    /\ volume.info = volume.bpb.fs_info * volume.bpb.bps

Answered(fn) == Idle /\ reply.fn = fn

OfSaneCluster(cluster) == Sane /\ cluster \in ClustersOf(volume.bpb)

(***************************************************************************)
(* fat32_bpb_check_validity and the 32-bit arithmetic.  A volume as a      *)
(* formatter makes it is mounted unless the device fails; then the valid   *)
(* clusters are those between the tables and the end, and each is where    *)
(* the format puts it.  No volume is mounted whose sectors are empty,      *)
(* which the check of the boot sector alone would let through: the offset  *)
(* of an entry divides by that size.                                       *)
(***************************************************************************)
MountedIsUsable ==
    /\ Sane /\ Answered("mount") => reply.code \in {FE_OK, FE_ERRNO}
    /\ Mounted => bpb.bps # 0
    /\ Sane /\ Mounted =>
        \A c \in 0..Space32 - 1 :
            /\ fat32_bpb_is_valid_cluster(bpb, c) <=> c \in ClustersOf(volume.bpb)
            /\ c \in ClustersOf(volume.bpb) =>
                fat32_cluster_to_offset(bpb, c) = ClusterPlace(volume.bpb, c)

(***************************************************************************)
(* A read of an entry that succeeds returns the entry of that cluster in   *)
(* the first table, all of it, across interruptions.                       *)
(***************************************************************************)
ReadsTheEntry ==
    Answered("get_entry") /\ reply.code = FE_OK /\ OfSaneCluster(reply.cluster) =>
        io.buf = [i \in 1..EntrySize |-> disk[EntryPlace(volume.bpb, reply.cluster) + i - 1]]

Stored(cluster) ==
    LET place == EntryPlace(volume.bpb, cluster)
    IN  [o \in DOMAIN before |->
            IF o \in Bytes(place, EntrySize) THEN place - o - 1 ELSE before[o]]

(***************************************************************************)
(* A write of an entry changes that entry in the first table or nothing:   *)
(* at no moment is it half written, or anything beside it, and success     *)
(* means that it is there.                                                 *)
(***************************************************************************)
WritesOnlyTheEntry ==
    /\ call.fn = "set_entry" /\ OfSaneCluster(call.cluster) =>
        disk \in {before, Stored(call.cluster)}
    /\ Answered("set_entry") /\ OfSaneCluster(reply.cluster) =>
        disk \in {Stored(reply.cluster)} \cup IF reply.code = FE_OK THEN {} ELSE {before}

(***************************************************************************)
(* Every call returns, on a device that ends early as well, as long as the *)
(* signals do.                                                             *)
(***************************************************************************)
CallReturns == ~Idle ~> Idle

(***************************************************************************)
(* The clusters of a volume that was mounted are on it (bpb.c: "@todo more *)
(* elaborate check").                                                      *)
(***************************************************************************)
MountedFits ==
    Mounted =>
        \A c \in 0..Space32 - 1 : fat32_bpb_is_valid_cluster(bpb, c) =>
            fat32_cluster_to_offset(bpb, c) + fat32_bpb_cluster_size(bpb)
                <= bpb.total * bpb.bps

(***************************************************************************)
(* "fs_info sector can be any sector in reserved area" (bpb.c).            *)
(***************************************************************************)
InfoIsReserved == call.pc = "seek" => bpb.fs_info < bpb.reserved

(***************************************************************************)
(* "Number of bytes per sector can be only 512, 1024, 2048 or 4096"        *)
(* (bpb.c).                                                                *)
(***************************************************************************)
SectorSizeChecked == call.pc = "seek" => bpb.bps \in SectorSizes

(***************************************************************************)
(* fat32_fs_read_cluster reads that cluster (fs.h).                        *)
(***************************************************************************)
ReadsTheCluster ==
    Answered("read_cluster") /\ reply.code = FE_OK /\ OfSaneCluster(reply.cluster) =>
        io.buf = [i \in 1..ClusterBytes(volume.bpb) |->
                     disk[ClusterPlace(volume.bpb, reply.cluster) + i - 1]]

=============================================================================
