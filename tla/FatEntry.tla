------------------------------ MODULE FatEntry ------------------------------
(***************************************************************************)
(* The values of a FAT32 volume's file allocation table and the four       *)
(* predicates src/fat32/fat.c reads them with.                             *)
(*                                                                         *)
(* An entry is a 32-bit word.  Its low 28 bits are a cluster number or a   *)
(* mark; its top 4 bits are reserved and belong to whoever wrote the       *)
(* volume.  The word is modelled as the pair of the two fields, so that    *)
(* FAT32_FAT_ENTRY_MASK is the projection on the field "value" and the     *)
(* comparison of two words is the lexicographic one.                       *)
(***************************************************************************)
EXTENDS Naturals

CONSTANT
    ClusterSpace,     \* number of values of the low field: 2^28 in the code
    ReservedValues    \* values of the reserved field that volumes carry

ASSUME ClusterSpaceAssumption ==
    /\ ClusterSpace \in Nat
    /\ ClusterSpace >= 12          \* room for EOC and BAD above MIN_CLUSTER
    /\ ReservedValues \subseteq Nat
    /\ 0 \in ReservedValues

FAT32_MIN_CLUSTER_NUMBER == 2
FAT32_FAT_ENTRY_EOC == ClusterSpace - 8           \* 0x0ffffff8
FAT32_FAT_ENTRY_BAD == ClusterSpace - 9           \* 0x0ffffff7

Entry == [reserved : ReservedValues, value : 0..ClusterSpace - 1]

\* A word whose reserved bits are clear.
Word(v) == [reserved |-> 0, value |-> v]

FAT32_FAT_ENTRY_EMPTY == Word(0)

(***************************************************************************)
(* The whole word is compared with 0x0ffffff8, so any word with a reserved *)
(* bit set is "the last in its chain".                                     *)
(***************************************************************************)
fat32_fat_entry_is_null(e) ==
    e.reserved > 0 \/ e.value >= FAT32_FAT_ENTRY_EOC

fat32_fat_entry_is_bad(e) == e.value = FAT32_FAT_ENTRY_BAD

fat32_fat_entry_is_free(e) == e.value = 0

fat32_fat_entry_to_cluster(e) == e.value

=============================================================================
