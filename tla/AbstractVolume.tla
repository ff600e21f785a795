--------------------------- MODULE AbstractVolume ---------------------------
(***************************************************************************)
(* What a volume promises to the users of unlink and rmdir: a tree of      *)
(* files and directories from which single objects disappear at once, a    *)
(* directory only when nothing is left in it, the root never.              *)
(***************************************************************************)
CONSTANTS
    Nodes,      \* files and directories of the volume
    Root,       \* the root directory
    Parent      \* Parent[n] is the directory that holds n

VARIABLE live     \* the objects that exist

Init == live = Nodes

ChildrenOf(d, objects) == {m \in objects \ {Root} : Parent[m] = d}

Remove(n) ==
    /\ n \in live \ {Root}
    /\ ChildrenOf(n, live) = {}
    /\ live' = live \ {n}

Next == \E n \in Nodes : Remove(n)

Spec == Init /\ [][Next]_live

(***************************************************************************)
(* Everything that exists is in a directory that exists.                   *)
(***************************************************************************)
NoOrphans == \A n \in live \ {Root} : Parent[n] \in live

=============================================================================
