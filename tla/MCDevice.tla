------------------------------ MODULE MCDevice ------------------------------
(***************************************************************************)
(* Sectors of 4 and 8 bytes, entries of 2 and clusters of at most 8, in    *)
(* arithmetic modulo 128.  Three volumes as a formatter makes them (two    *)
(* tables; clusters of two sectors and one left over; large sectors), and  *)
(* the first of them with one field, its size or its FSInfo changed.       *)
(***************************************************************************)
EXTENDS Device

Bpb(bps, spc, fats, fat_size, total) ==
    [bps |-> bps, spc |-> spc, reserved |-> 2, fats |-> fats, fat_size |-> fat_size,
     total |-> total, root |-> 2, fs_info |-> 1, fixed |-> TRUE]

VolumeOf(b) == [bpb |-> b, size |-> b.total * b.bps, info |-> b.fs_info * b.bps]

TwoTables == VolumeOf(Bpb(4, 1, 2, 3, 12))
TwoSectors == VolumeOf(Bpb(4, 2, 1, 3, 12))
LargeSectors == VolumeOf(Bpb(8, 1, 2, 2, 9))

With(field, values) ==
    {[TwoTables EXCEPT !.bpb[field] = x] : x \in values}

MCVolumes ==
    {TwoTables, TwoSectors, LargeSectors}
    \cup With("bps", {0, 6, 16}) \cup With("spc", {0, 2, 3})
    \cup With("reserved", {0, 1}) \cup With("fats", {0, 3})
    \cup With("fat_size", {0, 1}) \cup With("total", {0, 6, 13})
    \cup With("root", {1, 5, 6}) \cup With("fs_info", {0, 2, 3}) \cup With("fixed", {FALSE})
    \cup {[TwoTables EXCEPT !.size = n] : n \in {2, 6, 11, 47}}
    \cup {[TwoTables EXCEPT !.info = n] : n \in {5, 12}}

\* The first and the last cluster of the volumes, the number before them, and two
\* that wrap around in the arithmetic.
MCClusters == {1, 2, 4, 66, 127}

MCSectorSizes == {4, 8}
AllFaults == {"read", "write", "seek"}

=============================================================================
