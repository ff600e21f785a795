----------------------------- MODULE MCFileRead -----------------------------
(***************************************************************************)
(* A file of five bytes in three clusters of two, out of order on the      *)
(* device: 4, 2, 5; cluster 3 is free.                                     *)
(***************************************************************************)
EXTENDS FileRead

MCClusterSpace == 24

MCTable == [c \in 0..5 |->
    CASE c = 4 -> Word(2) [] c = 2 -> Word(5) [] c = 3 -> Word(0)
      [] c \in {0, 1, 5} -> Word(FAT32_FAT_ENTRY_EOC)]

=============================================================================
