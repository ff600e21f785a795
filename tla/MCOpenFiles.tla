---------------------------- MODULE MCOpenFiles ----------------------------
(***************************************************************************)
(* Instances of OpenFiles: two files and the root directory.               *)
(***************************************************************************)
EXTENDS OpenFiles, TLC

CONSTANTS t1, t2

ThreadSymmetry == Permutations(Threads)
=============================================================================
