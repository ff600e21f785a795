----------------------------- MODULE MCTruncate -----------------------------
(***************************************************************************)
(* Instances of Truncate: clusters of two bytes, a file "a" of five bytes  *)
(* in three clusters, a file "b" of one cluster and an empty file "c".     *)
(***************************************************************************)
EXTENDS Truncate

CONSTANT LargeFile     \* does "a" nearly reach the largest file size?

MCFiles == {"a", "b", "c"}

MCChain == [f \in MCFiles |->
    CASE f = "a" -> IF LargeFile THEN <<3, 5, 2, 7>> ELSE <<3, 5, 2>>
      [] f = "b" -> <<4>> [] f = "c" -> <<>>]

MCSize == [f \in MCFiles |->
    CASE f = "a" -> IF LargeFile THEN 15 ELSE 5
      [] f = "b" -> 2 [] f = "c" -> 0]

MCClusterSpace == 24

(***************************************************************************)
(* Cluster 6 is free.  The words after the FAT are data; one of them       *)
(* happens to hold 4.                                                      *)
(***************************************************************************)
MCFats ==
    {[c \in Cells |->
        CASE c = 3 -> Word(5)
          [] c = 5 -> Word(2)
          [] c = 2 /\ LargeFile -> Word(7)
          [] c = 6 \/ (c = 7 /\ ~LargeFile) -> Word(0)
          [] c > 8 -> Word(4)
          [] OTHER -> Word(FAT32_FAT_ENTRY_EOC)]}
=============================================================================
