---------------------------- MODULE MCFatVolume ----------------------------
(***************************************************************************)
(* A volume with a directory "d" in the root, a directory "s" in "d" and   *)
(* files: "f" in the root with a chain that runs backwards and forwards,   *)
(* "e" in "d" with one cluster, "z" in "s" without data.                   *)
(***************************************************************************)
EXTENDS FatVolume

MCNodes == {"/", "d", "s", "f", "e", "z"}

MCParent == [n \in MCNodes \ {"/"} |->
    CASE n \in {"d", "f"} -> "/" [] n \in {"s", "e"} -> "d" [] n = "z" -> "s"]

MCPath == [n \in MCNodes |->
    CASE n = "/" -> {} [] n \in {"d", "f"} -> {n} [] n \in {"s", "e"} -> {"d", n}
      [] n = "z" -> {"d", "s", "z"}]

MCDirectories == {"/", "d", "s"}

MCChain == [n \in MCNodes |->
    CASE n = "/" -> <<2>> [] n = "d" -> <<5, 3>> [] n = "s" -> <<8>>
      [] n = "f" -> <<6, 4, 7>> [] n = "e" -> <<9>> [] n = "z" -> <<>>]

MCClusterSpace == 24
MCCells == 0..10

\* The volume as it is mounted; cluster 10 is free.
MCFat ==
    [c \in MCCells |->
        CASE c \in {0, 1, 2, 3, 7, 8, 9} -> Word(FAT32_FAT_ENTRY_EOC)
          [] c = 5 -> Word(3) [] c = 6 -> Word(4) [] c = 4 -> Word(7)
          [] c = 10 -> Word(0)]

MCInitialFats == {MCFat}
=============================================================================
