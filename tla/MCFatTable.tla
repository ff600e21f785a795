----------------------------- MODULE MCFatTable -----------------------------
(***************************************************************************)
(* Instances of FatTableCalls: three clusters, cells 0 and 1 as mkfs       *)
(* writes them, every content of the clusters' cells made of the values    *)
(* the code distinguishes, and one word after the FAT.                     *)
(***************************************************************************)
EXTENDS FatTableCalls

MCClusterSpace == 16
MCCells == 0..5

CellValues == {0, 1, 2, 3, 4, 5, 6, FAT32_FAT_ENTRY_BAD, FAT32_FAT_ENTRY_EOC}

MCInitialFats ==
    {f \in [MCCells -> {Word(v) : v \in CellValues}] :
        /\ f[0] = Word(FAT32_FAT_ENTRY_EOC)
        /\ f[1] = Word(FAT32_FAT_ENTRY_EOC)
        /\ f[5] \in {Word(0), Word(3)}}

\* A volume whose entries carry reserved bits: one chain 2 -> 3 -> 4.
MCReservedFats ==
    {[c \in MCCells |->
        [reserved |-> IF c = 2 THEN 1 ELSE 0,
         value    |-> IF c \in 2..3 THEN c + 1 ELSE FAT32_FAT_ENTRY_EOC]]}

\* Cluster 4 is the only free one.
MCSparseFats ==
    {[c \in MCCells |-> IF c = 4 THEN Word(0) ELSE Word(FAT32_FAT_ENTRY_EOC)]}
\* Every combination of free and used clusters.
MCFreeOrUsed ==
    {[c \in MCCells |-> IF c \in free THEN Word(0) ELSE Word(FAT32_FAT_ENTRY_EOC)] :
        free \in SUBSET {2, 3, 4}}
=============================================================================
