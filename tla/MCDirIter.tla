----------------------------- MODULE MCDirIter -----------------------------
(***************************************************************************)
(* Names of two characters and one for the extension.  A root directory of *)
(* two clusters (2, then 6) with a volume label, a deleted one, the files  *)
(* "f.x" and "fx" behind the border of the clusters and a deleted namesake *)
(* before it; "d" (cluster 3) holds dots, a directory "e"                  *)
(* (cluster 5) with its dots only, and fills its cluster to the last slot, *)
(* so that only the table says where it ends; in one table it says bad.    *)
(***************************************************************************)
EXTENDS DirIter

MCClusterSpace == 24

N(first, second, ext) == [base |-> <<first, second>>, ext |-> <<ext>>]

Self == N(".", " ", " ")
Parent == N(".", ".", " ")

MCNames == {Self, Parent, N("f", " ", "x"), N("f", "x", " ")}
           \cup {N(c, " ", " ") : c \in {"d", "e", "x", "h"}}

E(kind, name, first) ==
    [mark |-> "used", kind |-> kind, name |-> name, dot |-> name \in {Self, Parent},
     first |-> first, size |-> IF kind = "dir" THEN 0 ELSE first]

Deleted(e) == [e EXCEPT !.mark = "free"]
Last(e) == [e EXCEPT !.mark = "last"]

MCChars == {".", " ", "f", "x", "d", "e", "h"}

MCContent == [c \in {2, 3, 5, 6} |->
    CASE c = 2 -> <<E("other", N("h", " ", " "), 7), E("dir", N("d", " ", " "), 3),
                     Deleted(E("file", N("f", " ", "x"), 7))>>
      [] c = 6 -> <<E("file", N("f", "x", " "), 8), E("file", N("f", " ", "x"), 4),
                     Last(E("file", N("x", " ", " "), 0))>>
      [] c = 3 -> <<E("dir", Self, 3), E("dir", Parent, 0), E("dir", N("e", " ", " "), 5)>>
      [] c = 5 -> <<E("dir", Self, 5), E("dir", Parent, 3), Last(E("file", N("x", " ", " "), 0))>>]

EOC == Word(FAT32_FAT_ENTRY_EOC)
\* The same with a hidden file for the label and another one in "e".
MCMarkedContent == [MCContent EXCEPT
    ![2] = [@ EXCEPT ![1] = E("marked", N("h", " ", " "), 7)],
    ![5] = [@ EXCEPT ![3] = E("marked", N("x", " ", " "), 8)]]

MCTable(last) == [c \in 0..8 |->
    CASE c = 2 -> Word(6) [] c = 3 -> last [] c = 8 -> Word(0) [] OTHER -> EOC]

MCTables == {MCTable(EOC), MCTable(Word(FAT32_FAT_ENTRY_BAD))}

MCRequests == {"getattr", "readdir", "rmdir"} \X
    {<<>>, << <<"d">> >>, << <<"f", ".", "x">> >>, << <<"f", "x">> >>, << <<"h">> >>,
     << <<"x">> >>, << <<"d">>, <<"e">> >>, << <<"d">>, <<"x">> >>,
     << <<"d">>, <<".">>, <<"e">> >>}
=============================================================================
