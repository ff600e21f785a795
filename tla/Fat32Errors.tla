---------------------------- MODULE Fat32Errors ----------------------------
(***************************************************************************)
(* enum fat32_error_t of include/fat32/errors.h, as the numbers the        *)
(* compiler gives it.  The numbers matter: fat32_fat_find_free_cluster     *)
(* returns a cluster number where a code is expected, and fat32_read a     *)
(* code where an errno is.                                                 *)
(***************************************************************************)
EXTENDS Naturals

FE_OK == 0
FE_ERRNO == 1
FE_NONBLOCK_DEV == 2
FE_INVALID_DEV == 3
FE_INVALID_FS == 4
FE_INVALID_CLUSTER == 5
FE_CLUSTER_CHAIN_ENDED == 6
FE_FS_IS_FULL == 7
FE_FS_INCONSISTENT == 8
FE_FS_PARTIALLY_CONSISTENT == 9

=============================================================================
