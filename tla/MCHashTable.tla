---------------------------- MODULE MCHashTable ----------------------------
(***************************************************************************)
(* Three keys in a table of two lists: two of them share a list.  The      *)
(* number of keys bounds the nodes, of which there is one per key and one  *)
(* being inserted.                                                         *)
(***************************************************************************)
EXTENDS HashTable

CONSTANTS key1, key2, key3, val1, val2

MCKeys == {key1, key2, key3}
MCValues == {val1, val2}
MCHash == [k \in MCKeys |-> CASE k = key1 -> 3 [] k = key2 -> 5 [] k = key3 -> 2]
MCValueCloners == BOOLEAN
MCAllocFaults == {"table", "node", "key", "value"}

=============================================================================
