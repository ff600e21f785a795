------------------------------ MODULE Geometry ------------------------------
(***************************************************************************)
(* Where things are on a volume: the validity check of the boot sector     *)
(* (bpb.c) and the arithmetic that turns clusters into byte offsets        *)
(* (utils.h, fat.c).  uint32_t wraps around at Space32; file offsets have  *)
(* 64 bits and do not.                                                     *)
(*                                                                         *)
(* A boot sector is a record of the fields the check and the arithmetic    *)
(* look at; "fixed" stands for the fields that are compared with constants *)
(* (jump, media type, version, the 16-bit fields FAT32 leaves zero).       *)
(***************************************************************************)
EXTENDS Naturals

CONSTANTS
    Space32,         \* 2^32
    SectorSizes,     \* the powers of two whose bit the mask of the check leaves
    MaxClusterSize,  \* MAX_CLUSTER_SIZE
    MinClusters,     \* FAT32_MIN_CLUSTERS
    EntrySize        \* FAT32_FAT_ENTRY_SIZE

ASSUME GeometryAssumption ==
    /\ {Space32, MaxClusterSize, MinClusters, EntrySize} \subseteq Nat \ {0}
    /\ EntrySize <= 16                 \* 4; 28 bits times it are within 32
    /\ SectorSizes \subseteq Nat \ {0, 1}

U32(n) == n % Space32

MinClusterNumber == 2

FirstDataSector(bpb) == U32(bpb.reserved + U32(bpb.fats * bpb.fat_size))

\* total - reserved - fat, each subtraction in 32 bits.
fat32_bpb_clusters_count(bpb) ==
    U32(bpb.total + Space32 - bpb.reserved + Space32 - U32(bpb.fats * bpb.fat_size)) \div bpb.spc

\* Mutant: clusters are numbered from 0.
is_valid_cluster_from_zero(bpb, cluster) ==
    cluster >= MinClusterNumber /\ cluster < fat32_bpb_clusters_count(bpb)

fat32_bpb_is_valid_cluster(bpb, cluster) ==
    /\ cluster >= MinClusterNumber
    /\ cluster <= U32(fat32_bpb_clusters_count(bpb) + 1)

PowersOf2 == {1, 2, 4, 8, 16, 32, 64, 128}

(***************************************************************************)
(* "x & (x - 1)" is zero for the powers of two and for zero; for the       *)
(* sector size nothing excludes zero.                                      *)
(***************************************************************************)
fat32_bpb_check_validity(bpb) ==
    /\ bpb.bps \in SectorSizes \cup {0}
    /\ bpb.spc \in PowersOf2 /\ bpb.spc * bpb.bps <= MaxClusterSize
    /\ bpb.reserved # 0 /\ bpb.total # 0 /\ bpb.fat_size # 0 /\ bpb.fixed
    /\ fat32_bpb_clusters_count(bpb) >= MinClusters
    /\ fat32_bpb_is_valid_cluster(bpb, bpb.root)
    /\ bpb.fs_info >= 1 /\ bpb.fs_info <= bpb.reserved

fat32_bpb_cluster_size(bpb) == bpb.spc * bpb.bps

fat32_sector_to_offset(bpb, sector) == bpb.bps * sector

fat32_sector_offset_to_offset(bpb, sector, within) ==
    fat32_sector_to_offset(bpb, sector) + within

fat32_cluster_first_sector(bpb, cluster) ==
    U32(bpb.spc * U32(cluster + Space32 - 2) + FirstDataSector(bpb))

fat32_cluster_to_offset(bpb, cluster) ==
    fat32_sector_to_offset(bpb, fat32_cluster_first_sector(bpb, cluster))

\* Mutant: the offset in the sector is that in the table.
fat_entry_offset_unreduced(bpb, cluster) ==
    fat32_sector_offset_to_offset(bpb,
        bpb.reserved + U32(cluster * EntrySize) \div bpb.bps, U32(cluster * EntrySize))

\* A division by zero if the sectors are empty: asked of mounted volumes only.
fat32_fat_entry_offset(bpb, cluster) ==
    LET offset == U32(cluster * EntrySize)
    IN  fat32_sector_offset_to_offset(bpb,
            U32(bpb.reserved + offset \div bpb.bps), offset % bpb.bps)

-----------------------------------------------------------------------------
(***************************************************************************)
(* The format itself: where a volume has its table and its clusters, and   *)
(* which boot sectors describe a volume of "size" bytes consistently.      *)
(***************************************************************************)
TableStart(bpb) == bpb.reserved * bpb.bps

DataStart(bpb) == (bpb.reserved + bpb.fats * bpb.fat_size) * bpb.bps

ClusterBytes(bpb) == bpb.spc * bpb.bps

EntryPlace(bpb, cluster) == TableStart(bpb) + cluster * EntrySize

ClusterPlace(bpb, cluster) == DataStart(bpb) + (cluster - 2) * ClusterBytes(bpb)

Bytes(place, length) == place..place + length - 1

\* The clusters that fit between the tables and the end.
ClustersOf(bpb) ==
    {c \in MinClusterNumber..bpb.total + 1 :
        ClusterPlace(bpb, c + 1) <= bpb.total * bpb.bps}

(***************************************************************************)
(* A volume as a formatter makes it: the sectors fit the device, every     *)
(* cluster has an entry in the first table and a number of 28 bits, the    *)
(* root directory is a cluster and FSInfo is in the reserved sectors.      *)
(***************************************************************************)
Formatted(bpb, size) ==
    /\ bpb.fixed
    /\ bpb.bps \in SectorSizes /\ bpb.spc \in PowersOf2
    /\ ClusterBytes(bpb) <= MaxClusterSize
    /\ bpb.total < Space32 /\ bpb.total * bpb.bps <= size
    /\ bpb.fats > 0
    /\ \A c \in ClustersOf(bpb) :
            /\ c * 16 < Space32
            /\ (c + 1) * EntrySize <= bpb.fat_size * bpb.bps
    /\ \E c \in ClustersOf(bpb) : c = MinClusters + 1
    /\ bpb.root \in ClustersOf(bpb)
    /\ bpb.fs_info \in 1..bpb.reserved - 1

=============================================================================
