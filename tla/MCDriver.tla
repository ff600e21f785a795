------------------------------ MODULE MCDriver ------------------------------
(* Every device, every fault, main and two threads of the FUSE loop. *)
EXTENDS Driver

CONSTANTS main, t1, t2

MCThreads == {main, t1, t2}
MCLogLevels == {LOG_DEBUG, LOG_WARNING}

=============================================================================
