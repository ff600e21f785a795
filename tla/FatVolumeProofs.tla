-------------------------- MODULE FatVolumeProofs --------------------------
(***************************************************************************)
(* Proofs about FatVolume, for every tree, every layout of chains, every   *)
(* size of the table and every set of faults.                              *)
(***************************************************************************)
EXTENDS FatVolume, FatTableProofs

-----------------------------------------------------------------------------
(***************************************************************************)
(* Facts about entries and chains.                                         *)
(***************************************************************************)

\* A cluster of a chain has a word on the device, and its number is neither
\* zero nor a mark.
LEMMA ChainCells ==
  ASSUME NEW n \in Nodes, NEW j \in DOMAIN Chain[n]
  PROVE  /\ Chain[n][j] \in Cells
         /\ Chain[n][j] \in Nat
         /\ Chain[n][j] # 0
         /\ Chain[n][j] < FAT32_FAT_ENTRY_BAD
  <1>1. Chain[n][j] \in Clusters
    BY LayoutAssumption
  <1>2. QED
    BY <1>1, ClusterNumbers

\* The part of the type invariant that is about the table.
LEMMA TableTypeOK == TypeOK => FatTypeOK
  BY DEF TypeOK, FatTypeOK

\* An object is found only if every entry on its path is seen, and without
\* failing allocations a directory looks empty only if no entry in it is seen.
LEMMA GetObjectOutcome ==
  ASSUME NEW n, NEW r \in get_object(n), r.ret = FE_OK, r.obj
  PROVE  \A m \in Path[n] : suitable_direntry(m)
  <1> DEFINE seen == \A m \in Path[n] : suitable_direntry(m)
  <1> HIDE DEF seen
  <1>1. CASE r = [ret |-> FE_OK, obj |-> seen]
    BY <1>1 DEF seen
  <1>2. CASE r \in [ret : ReadFaults, obj : {FALSE}]
    BY <1>2
  <1>3. CASE r \in {[ret |-> FE_ERRNO, obj |-> FALSE], [ret |-> FE_OK, obj |-> FALSE]}
    BY <1>3
  <1>4. QED
    BY <1>1, <1>2, <1>3 DEF get_object, seen

LEMMA IsEmptyOutcome ==
  ASSUME TRUE \notin AllocFaults,
         NEW n, NEW r \in is_empty_directory(n), r.ret = FE_OK, r.empty
  PROVE  \A m \in Children(n) : ~suitable_direntry(m)
  <1> DEFINE none == \A m \in Children(n) : ~suitable_direntry(m)
  <1> HIDE DEF none
  <1>1. CASE r = [ret |-> FE_OK, empty |-> none]
    BY <1>1 DEF none
  <1>2. CASE r \in [ret : ReadFaults, empty : {FALSE}]
    BY <1>2
  <1>3. QED
    BY <1>1, <1>2 DEF is_empty_directory, none

\* Assignments to the locals keep their type.
LEMMA ReplyType ==
  ASSUME TypeOK, NEW r \in Replies, Reply(r)
  PROVE  h' \in HandlerType
  BY DEF TypeOK, HandlerType, Reply

-----------------------------------------------------------------------------
(***************************************************************************)
(* Type correctness.                                                       *)
(***************************************************************************)

LEMMA InitTypeOK == Init => TypeOK
  BY EmptyIsEntry, FatTableAssumption, NodesAssumption
  DEF Init, FatInit, TypeOK, NoHandler, HandlerType, Replies,
      FAT32_MIN_CLUSTER_NUMBER

LEMMA RepliesAreReplies ==
    /\ \A code : reply_of(code) \in Replies /\ delete_reply(code) \in Replies
    /\ \A op, n : Refusal(op, n) \in Replies
  BY DEF reply_of, delete_reply, Refusal, Replies

LEMMA NextTypeOK == TypeOK /\ [Next]_vars => TypeOK'
  <1> SUFFICES ASSUME TypeOK, [Next]_vars
               PROVE  TypeOK'
    OBVIOUS
  <1> USE DEF TypeOK
  <1>1. ASSUME NEW n \in Nodes, perform_unlink(n) \/ rmdir(n)
        PROVE  TypeOK'
    BY <1>1, EmptyIsEntry
    DEF perform_unlink, rmdir, Request, NoHandler, HandlerType, Replies
  <1>2. CASE LookUp
    <2>1. h' \in HandlerType
      <3>1. \A x \in Replies : Reply(x) => h' \in HandlerType
        BY ReplyType
      <3>2. "ENOENT" \in Replies
        BY DEF Replies
      <3>3. \A x \in Replies, p \in {"idle", "isempty", "delete"} :
              /\ [h EXCEPT !.obj = TRUE, !.pc = p, !.reply = x] \in HandlerType
              /\ [h EXCEPT !.obj = TRUE, !.pc = p] \in HandlerType
        BY DEF HandlerType
      <3>4. Refusal(h.op, h.node) \in Replies
        BY RepliesAreReplies
      <3>5. (IF h.op = "rmdir" THEN "isempty" ELSE "delete") \in {"idle", "isempty", "delete"}
        OBVIOUS
      <3>6. QED
        BY <1>2, <3>1, <3>2, <3>3, <3>4, <3>5, RepliesAreReplies DEF LookUp
    <2>2. QED
      BY <1>2, <2>1 DEF LookUp
  <1>3. CASE CheckEmpty
    <2>1. \A x \in Replies : Reply(x) => h' \in HandlerType
      BY ReplyType
    <2>2. "ENOTEMPTY" \in Replies
      BY DEF Replies
    <2>3. [h EXCEPT !.pc = "delete"] \in HandlerType
      BY DEF HandlerType
    <2>4. h' \in HandlerType
      BY <1>3, <2>1, <2>2, <2>3, RepliesAreReplies DEF CheckEmpty
    <2>5. QED
      BY <1>3, <2>4 DEF CheckEmpty
  <1>4. CASE MarkFree
    <2>1. FirstCluster(h.node) \in Nat
      BY ChainCells, LayoutAssumption DEF FirstCluster, HandlerType
    <2>2. h' \in HandlerType /\ dent' \in [Nodes -> {"used", "free"}]
      BY <1>4 DEF MarkFree, Reply, HandlerType, Replies
    <2>3. call' \in CallType /\ fat' = fat /\ hint' = hint
      BY <1>4, <2>1, EmptyIsEntry
      DEF MarkFree, mark_cluster_chain_free, fatvars, NoCall, CallType, FatFunctions
    <2>4. QED
      BY <2>2, <2>3
  <1>5. CASE MarkFreeFails
    BY <1>5 DEF MarkFreeFails, Reply, HandlerType, Replies
  <1>6. CASE FreeCluster
    BY <1>6, TableTypeOK, FreeChainType DEF FreeCluster, FatTypeOK
  <1>7. CASE Deleted
    BY <1>7, RepliesAreReplies DEF Deleted, Reply, HandlerType
  <1>8. CASE Crash
    BY <1>8, EmptyIsEntry, NodesAssumption
    DEF Crash, NoHandler, HandlerType, Replies, FAT32_MIN_CLUSTER_NUMBER
  <1>9. CASE UNCHANGED vars
    BY <1>9 DEF vars
  <1>10. QED
    BY <1>1, <1>2, <1>3, <1>4, <1>5, <1>6, <1>7, <1>8, <1>9 DEF Next, Handler

(***************************************************************************)
(* The state of fat32_perform_unlink, fat32_rmdir and the functions under  *)
(* them keeps its type, for every volume.                                  *)
(***************************************************************************)
THEOREM TypeCorrect == Spec => []TypeOK
  BY InitTypeOK, NextTypeOK, PTL DEF Spec

-----------------------------------------------------------------------------
(***************************************************************************)
(* The inductive invariant.                                                *)
(***************************************************************************)

\* A handler that is past its checks works on an object that is there, and
\* that is not the root.
Found ==
    /\ dent[Root] = "used"
    /\ h.pc # "idle" => h.op # "none"
    /\ h.pc \in {"isempty", "delete", "freeing"} => h.node # Root
    /\ h.pc \in {"isempty", "delete"} => dent[h.node] = "used"

\* Where the deletion under way stands in the chain it is freeing.
FreeingAt(n, i) ==
    /\ call.cluster = Chain[n][i]
    /\ ClearedUpTo(n, i - 1)
    /\ call.pc = "set" => call.entry = fat[call.cluster]

Freeing ==
    h.pc = "freeing" =>
        /\ dent[h.node] = "free"
        /\ call.pc # "idle" => \E i \in DOMAIN Chain[h.node] : FreeingAt(h.node, i)

ChainInv == LiveChainsIntact /\ LostChainsAreTails /\ Found /\ Freeing

-----------------------------------------------------------------------------
(***************************************************************************)
(* Steps that leave the device alone keep the parts of the invariant that  *)
(* speak of the device only.                                               *)
(***************************************************************************)
LEMMA SameDevice ==
  ASSUME ChainInv, fat' = fat, dent' = dent
  PROVE  LiveChainsIntact' /\ LostChainsAreTails'
  BY DEF ChainInv, LiveChainsIntact, LostChainsAreTails, ClearedUpTo, Linked

LEMMA InitChainInv == Init => ChainInv
  <1> SUFFICES ASSUME Init PROVE ChainInv
    OBVIOUS
  <1>1. \A n \in Nodes : dent[n] = "used"
    BY DEF Init
  <1>2. LiveChainsIntact
    BY LayoutAssumption DEF Init, FatInit, LiveChainsIntact
  <1>3. LostChainsAreTails
    BY <1>1 DEF LostChainsAreTails
  <1>4. Found /\ Freeing
    BY <1>1, NodesAssumption DEF Init, NoHandler, Found, Freeing
  <1>5. QED
    BY <1>2, <1>3, <1>4 DEF ChainInv

(***************************************************************************)
(* The directory entry is marked while the whole chain is still there.     *)
(***************************************************************************)
LEMMA MarkFreeChainInv ==
  ASSUME TypeOK, ChainInv, MarkFree
  PROVE  ChainInv'
  <1>0. PICK n \in Nodes : n = h.node
    BY DEF TypeOK, HandlerType
  <1>1. n \in Nodes /\ n # Root /\ dent \in [Nodes -> {"used", "free"}]
    BY <1>0 DEF TypeOK, HandlerType, ChainInv, Found, MarkFree
  <1>2. fat' = fat /\ dent' = [dent EXCEPT ![n] = "free"]
    BY <1>0 DEF MarkFree, mark_cluster_chain_free, fatvars
  <1>3. \A m \in Nodes : dent'[m] = IF m = n THEN "free" ELSE dent[m]
    BY <1>1, <1>2
  <1>4. \A j \in DOMAIN Chain[n] : Linked(fat, n, j)
    BY <1>0, <1>1 DEF ChainInv, LiveChainsIntact, Found, MarkFree
  <1>5. Chain[n] \in Seq(Clusters)
    BY <1>1, LayoutAssumption
  <1>6. LiveChainsIntact'
    BY <1>2, <1>3 DEF ChainInv, LiveChainsIntact, Linked
  <1>7. ClearedUpTo(n, 0)
    BY <1>4, <1>5 DEF ClearedUpTo
  <1>8. LostChainsAreTails'
    <2> SUFFICES ASSUME NEW m \in Nodes, dent'[m] = "free"
                 PROVE  \E k \in 0..Len(Chain[m]) : ClearedUpTo(m, k)'
      BY DEF LostChainsAreTails
    <2>1. \A k : ClearedUpTo(m, k)' = ClearedUpTo(m, k)
      BY <1>2 DEF ClearedUpTo, Linked
    <2>2. CASE m = n
      <3>1. 0 \in 0..Len(Chain[m])
        BY <1>5, <2>2
      <3>2. QED
        BY <1>7, <2>1, <2>2, <3>1
    <2>3. CASE m # n
      BY <1>3, <2>1, <2>3 DEF ChainInv, LostChainsAreTails
    <2>4. QED
      BY <2>2, <2>3
  <1>9. Found'
    <2>1. dent'[Root] = "used"
      BY <1>1, <1>3, NodesAssumption DEF ChainInv, Found
    <2>2. h'.node = n /\ h'.op = h.op /\ h'.pc \in {"idle", "freeing"}
      BY <1>0 DEF MarkFree, Reply, TypeOK, HandlerType
    <2>3. QED
      BY <1>1, <2>1, <2>2 DEF Found, ChainInv, MarkFree
  <1>10. Freeing'
    <2>1. CASE n \notin Directories /\ Chain[n] = <<>>
      BY <1>0, <2>1 DEF MarkFree, Reply, Freeing, TypeOK, HandlerType
    <2>2. CASE ~(n \notin Directories /\ Chain[n] = <<>>)
      <3>1. Chain[n] # <<>>
        BY <2>2, LayoutAssumption
      <3>2. 1 \in DOMAIN Chain[n]
        BY <1>5, <3>1
      <3>3. h'.node = n /\ call'.cluster = Chain[n][1] /\ call'.pc = "get"
        BY <1>0, <2>2, <3>1
        DEF MarkFree, mark_cluster_chain_free, FirstCluster, NoCall, TypeOK, HandlerType
      <3>4. ClearedUpTo(n, 1 - 1)'
        <4>1. ClearedUpTo(n, 0)'
          BY <1>2, <1>7 DEF ClearedUpTo, Linked
        <4>2. 1 - 1 = 0
          OBVIOUS
        <4>3. QED
          BY <4>1, <4>2
      <3>5. FreeingAt(n, 1)'
        BY <3>3, <3>4 DEF FreeingAt
      <3>6. QED
        BY <1>1, <1>3, <3>2, <3>3, <3>5 DEF Freeing
    <2>3. QED
      BY <2>1, <2>2
  <1>11. QED
    BY <1>6, <1>8, <1>9, <1>10 DEF ChainInv

(***************************************************************************)
(* Reading an entry of the chain.                                          *)
(***************************************************************************)
LEMMA GetChainInv ==
  ASSUME TypeOK, ChainInv, FreeCluster, FreeChainGet
  PROVE  ChainInv'
  <1>1. fat' = fat /\ dent' = dent /\ h' = h
    BY DEF FreeCluster, FreeChainGet
  <1>2. LiveChainsIntact' /\ LostChainsAreTails'
    BY <1>1, SameDevice
  <1>3. Found'
    BY <1>1 DEF ChainInv, Found
  <1>4. Freeing'
    <2>1. PICK i \in DOMAIN Chain[h.node] : FreeingAt(h.node, i)
      BY DEF FreeCluster, FreeChainGet, ChainInv, Freeing
    <2>2. PICK r \in get_entry(call.cluster) :
            \/ Return(r.ret) \/ Return(FE_INVALID_FS)
            \/ r.ret = FE_OK /\ call' = [call EXCEPT !.pc = "set", !.entry = r.entry]
      BY DEF FreeChainGet
    <2>3. r.ret = FE_OK => r.entry = fat[call.cluster]
      BY TableTypeOK, CallFields, GetEntryOutcome
    <2>4. call'.pc # "idle" => FreeingAt(h.node, i)'
      <3>1. ClearedUpTo(h.node, i - 1)' = ClearedUpTo(h.node, i - 1)
        BY <1>1 DEF ClearedUpTo, Linked
      <3>2. call'.pc # "idle" => call'.cluster = call.cluster /\ call'.entry = fat[call.cluster]
        BY <2>2, <2>3 DEF Return, TypeOK, CallType
      <3>3. QED
        BY <1>1, <2>1, <3>1, <3>2 DEF FreeingAt
    <2>5. QED
      BY <1>1, <2>4 DEF ChainInv, Freeing, FreeCluster
  <1>5. QED
    BY <1>2, <1>3, <1>4 DEF ChainInv

(***************************************************************************)
(* Clearing an entry of the chain, or failing to.                          *)
(***************************************************************************)
LEMMA SetChainInv ==
  ASSUME TypeOK, ChainInv, FreeCluster, FreeChainSet
  PROVE  ChainInv'
  <1>0. PICK n \in Nodes, c \in Nat : n = h.node /\ c = call.cluster
    BY TableTypeOK, CallFields DEF TypeOK, HandlerType
  <1> DEFINE cleared == [fat EXCEPT ![c] = FAT32_FAT_ENTRY_EMPTY]
  <1>1. dent' = dent /\ h' = h /\ h.pc = "freeing" /\ n \in Nodes /\ dent[n] = "free"
    BY <1>0 DEF FreeCluster, ChainInv, Freeing, TypeOK, HandlerType
  <1>2. PICK i \in DOMAIN Chain[n] : FreeingAt(n, i)
    BY <1>0 DEF FreeCluster, FreeChainSet, ChainInv, Freeing
  <1>3. /\ c = Chain[n][i] /\ ClearedUpTo(n, i - 1) /\ call.entry = fat[c]
    BY <1>0, <1>2 DEF FreeingAt, FreeChainSet
  <1>4. Chain[n] \in Seq(Clusters) /\ i \in Nat /\ i > 0 /\ i <= Len(Chain[n])
    BY <1>1, LayoutAssumption
  <1>5. PICK w \in set_entry(c, FAT32_FAT_ENTRY_EMPTY) :
          /\ fat' = w.fat
          /\ \/ w.ret = FE_ERRNO /\ Return(FE_FS_INCONSISTENT)
             \/ w.ret = FE_OK /\ Return(FE_OK)
             \/ w.ret = FE_OK /\ call'.pc = "idle"
             \/ /\ w.ret = FE_OK
                /\ ~fat32_fat_entry_is_null(call.entry)
                /\ call' = [call EXCEPT !.pc = "get",
                              !.cluster = fat32_fat_entry_to_cluster(call.entry)]
    BY <1>0 DEF FreeChainSet, TypeOK, CallType
  <1>6. fat' \in {fat, cleared} /\ (w.ret = FE_OK => fat' = cleared)
    <2>1. /\ w.fat \in {fat, [fat EXCEPT ![c] = FAT32_FAT_ENTRY_EMPTY]}
          /\ w.ret = FE_OK => w.fat = [fat EXCEPT ![c] = FAT32_FAT_ENTRY_EMPTY]
      BY SetEntryOutcome
    <2>2. QED
      BY <1>5, <2>1
  <1>7. fat \in [Cells -> Entry]
    BY DEF TypeOK
  <1>8. \A m \in Nodes : \A j \in DOMAIN Chain[m] :
           ~(m = n /\ j = i) => fat'[Chain[m][j]] = fat[Chain[m][j]]
    <2> SUFFICES ASSUME NEW m \in Nodes, NEW j \in DOMAIN Chain[m], ~(m = n /\ j = i)
                 PROVE  fat'[Chain[m][j]] = fat[Chain[m][j]]
      OBVIOUS
    <2>1. Chain[m][j] # c
      BY <1>1, <1>3, LayoutAssumption
    <2>2. Chain[m][j] \in Cells
      BY ChainCells
    <2>3. QED
      BY <1>6, <1>7, <2>1, <2>2
  <1>9. \A m \in Nodes : \A j \in DOMAIN Chain[m] :
           ~(m = n /\ j = i) => (Linked(fat', m, j) <=> Linked(fat, m, j))
    BY <1>8 DEF Linked
  <1>10. LiveChainsIntact'
    BY <1>1, <1>9 DEF ChainInv, LiveChainsIntact
  <1>11. ClearedUpTo(n, i)' \/ ClearedUpTo(n, i - 1)'
    <2>1. CASE fat' = fat
      BY <1>3, <2>1 DEF ClearedUpTo, Linked
    <2>2. CASE fat' = cleared
      <3>1. fat'[Chain[n][i]] = FAT32_FAT_ENTRY_EMPTY
        BY <1>1, <1>3, <1>7, <2>2, ChainCells
      <3> SUFFICES ASSUME NEW j \in DOMAIN Chain[n]
                   PROVE  IF j <= i THEN fat'[Chain[n][j]] = FAT32_FAT_ENTRY_EMPTY
                                    ELSE Linked(fat', n, j)
        BY DEF ClearedUpTo
      <3>2. j \in Nat
        BY <1>4
      <3>3. CASE j = i
        BY <1>4, <3>1, <3>3
      <3>4. CASE j # i
        <4>1. IF j <= i - 1 THEN fat[Chain[n][j]] = FAT32_FAT_ENTRY_EMPTY
                            ELSE Linked(fat, n, j)
          BY <1>3 DEF ClearedUpTo
        <4>2. (j <= i - 1) <=> (j <= i)
          BY <1>4, <3>2, <3>4
        <4>3. QED
          BY <1>1, <1>8, <1>9, <3>4, <4>1, <4>2
      <3>5. QED
        BY <3>3, <3>4
    <2>3. QED
      BY <1>6, <2>1, <2>2
  <1>12. LostChainsAreTails'
    <2> SUFFICES ASSUME NEW m \in Nodes, dent[m] = "free"
                 PROVE  \E k \in 0..Len(Chain[m]) : ClearedUpTo(m, k)'
      BY <1>1 DEF LostChainsAreTails
    <2>1. CASE m = n
      <3>1. i \in 0..Len(Chain[n]) /\ i - 1 \in 0..Len(Chain[n])
        BY <1>4
      <3>2. QED
        BY <1>11, <2>1, <3>1
    <2>2. CASE m # n
      <3>1. PICK k \in 0..Len(Chain[m]) : ClearedUpTo(m, k)
        BY DEF ChainInv, LostChainsAreTails
      <3>2. ClearedUpTo(m, k)'
        BY <1>8, <1>9, <2>2, <3>1 DEF ClearedUpTo
      <3>3. QED
        BY <3>2
    <2>3. QED
      BY <2>1, <2>2
  <1>13. Found'
    BY <1>1 DEF ChainInv, Found
  <1>14. Freeing'
    <2> SUFFICES ASSUME call'.pc # "idle"
                 PROVE  \E k \in DOMAIN Chain[n] : FreeingAt(n, k)'
      BY <1>0, <1>1 DEF Freeing
    <2>1. /\ w.ret = FE_OK
          /\ ~fat32_fat_entry_is_null(call.entry)
          /\ call'.pc = "get"
          /\ call'.cluster = fat32_fat_entry_to_cluster(call.entry)
      BY <1>5 DEF Return, TypeOK, CallType
    <2>2. Linked(fat, n, i)
      <3>1. ~(i <= i - 1)
        BY <1>4
      <3>2. QED
        BY <1>3, <3>1 DEF ClearedUpTo
    <2>3. i < Len(Chain[n]) /\ fat[c].value = Chain[n][i + 1]
      BY <1>3, <1>4, <2>1, <2>2 DEF Linked, fat32_fat_entry_is_null
    <2>4. i + 1 \in DOMAIN Chain[n]
      BY <1>4, <2>3
    <2>5. ClearedUpTo(n, (i + 1) - 1)'
      <3>1. fat'[Chain[n][i]] = FAT32_FAT_ENTRY_EMPTY
        BY <1>1, <1>3, <1>6, <1>7, <2>1, ChainCells
      <3>2. Linked(fat', n, i) \/ ClearedUpTo(n, i)'
        <4>1. ~(i <= i - 1)
          BY <1>4
        <4>2. QED
          BY <1>11, <4>1 DEF ClearedUpTo, Linked
      <3>3. ~Linked(fat', n, i)
        <4>1. fat'[Chain[n][i]].value = 0
          BY <3>1 DEF FAT32_FAT_ENTRY_EMPTY, Word
        <4>2. Chain[n][i + 1] # 0
          BY <1>1, <2>4, ChainCells
        <4>3. QED
          BY <2>3, <4>1, <4>2 DEF Linked
      <3>4. (i + 1) - 1 = i
        BY <1>4
      <3>5. QED
        BY <3>2, <3>3, <3>4
    <2>6. FreeingAt(n, i + 1)'
      BY <1>1, <1>3, <2>1, <2>3, <2>5 DEF FreeingAt, fat32_fat_entry_to_cluster
    <2>7. QED
      BY <2>4, <2>6
  <1>15. QED
    BY <1>10, <1>12, <1>13, <1>14 DEF ChainInv

LEMMA NextChainInv == TypeOK /\ ChainInv /\ [Next]_vars => ChainInv'
  <1> SUFFICES ASSUME TypeOK, ChainInv, [Next]_vars
               PROVE  ChainInv'
    OBVIOUS
  <1>1. ASSUME NEW n \in Nodes, perform_unlink(n) \/ rmdir(n)
        PROVE  ChainInv'
    <2>1. fat' = fat /\ dent' = dent /\ h'.pc = "lookup" /\ h'.op # "none"
      BY <1>1 DEF perform_unlink, rmdir, Request, NoHandler
    <2>2. QED
      BY <2>1, SameDevice DEF ChainInv, Found, Freeing
  <1>2. CASE LookUp
    <2>1. fat' = fat /\ dent' = dent /\ call' = call
      BY <1>2 DEF LookUp
    <2>2. h'.node = h.node /\ h'.op = h.op /\ h'.pc \in {"idle", "isempty", "delete"}
      BY <1>2 DEF LookUp, Reply, TypeOK, HandlerType
    <2>3. h'.pc # "idle" => h.node # Root /\ dent[h.node] = "used"
      <3> SUFFICES ASSUME h'.pc # "idle"
                   PROVE  h.node # Root /\ dent[h.node] = "used"
        OBVIOUS
      <3>1. PICK r \in get_object(h.node) :
              \/ h'.pc = "idle"
              \/ r.ret = FE_OK /\ r.obj /\ Refusal(h.op, h.node) = "0"
        BY <1>2 DEF LookUp, Reply, TypeOK, HandlerType
      <3>2. \A m \in Path[h.node] : suitable_direntry(m)
        BY <3>1, GetObjectOutcome
      <3>3. h.node # Root
        <4>1. h.op \in {"unlink", "rmdir"}
          BY <1>2 DEF LookUp, ChainInv, Found, TypeOK, HandlerType
        <4>2. QED
          BY <3>1, <4>1, NodesAssumption DEF Refusal
      <3>4. QED
        BY <3>2, <3>3, NodesAssumption DEF suitable_direntry, TypeOK, HandlerType
    <2>4. QED
      BY <1>2, <2>1, <2>2, <2>3, SameDevice DEF ChainInv, Found, Freeing, LookUp
  <1>3. CASE CheckEmpty
    <2>1. fat' = fat /\ dent' = dent /\ call' = call
      BY <1>3 DEF CheckEmpty
    <2>2. /\ h'.node = h.node /\ h'.op = h.op
          /\ h'.pc \in {"idle", "delete"} /\ h.pc = "isempty"
      BY <1>3 DEF CheckEmpty, Reply, TypeOK, HandlerType
    <2>3. QED
      BY <2>1, <2>2, SameDevice DEF ChainInv, Found, Freeing
  <1>4. CASE MarkFree
    BY <1>4, MarkFreeChainInv
  <1>5. CASE MarkFreeFails \/ Deleted
    <2>1. fat' = fat /\ dent' = dent /\ h'.pc = "idle"
      BY <1>5 DEF MarkFreeFails, Deleted, Reply, TypeOK, HandlerType
    <2>2. QED
      BY <2>1, SameDevice DEF ChainInv, Found, Freeing
  <1>6. CASE FreeCluster
    BY <1>6, GetChainInv, SetChainInv DEF FreeCluster, FreeChainStep
  <1>7. CASE Crash
    <2>1. fat' = fat /\ dent' = dent /\ h'.pc = "idle"
      BY <1>7 DEF Crash, NoHandler
    <2>2. QED
      BY <2>1, SameDevice DEF ChainInv, Found, Freeing
  <1>8. CASE UNCHANGED vars
    <2>1. fat' = fat /\ dent' = dent /\ h' = h /\ call' = call
      BY <1>8 DEF vars
    <2>2. Freeing'
      BY <2>1 DEF ChainInv, Freeing, FreeingAt, ClearedUpTo, Linked
    <2>3. QED
      BY <2>1, <2>2, SameDevice DEF ChainInv, Found
  <1>9. QED
    BY <1>1, <1>2, <1>3, <1>4, <1>5, <1>6, <1>7, <1>8 DEF Next, Handler

LEMMA ChainInvariant == Spec => [](TypeOK /\ ChainInv)
  <1>1. Init => TypeOK /\ ChainInv
    BY InitTypeOK, InitChainInv
  <1>2. (TypeOK /\ ChainInv) /\ [Next]_vars => (TypeOK /\ ChainInv)'
    BY NextTypeOK, NextChainInv
  <1>3. QED
    BY <1>1, <1>2, PTL DEF Spec

(***************************************************************************)
(* No deletion, no failed access and no death of the driver in the middle  *)
(* of one ever damages the chain of an object that is still in its         *)
(* directory: fat32_fs_object_delete writes in the right order.            *)
(***************************************************************************)
THEOREM LiveChainsStayIntact == Spec => []LiveChainsIntact
  <1>1. TypeOK /\ ChainInv => LiveChainsIntact
    BY DEF ChainInv
  <1>2. QED
    BY <1>1, ChainInvariant, PTL

(***************************************************************************)
(* All an interrupted deletion leaves behind is the tail of a chain.       *)
(***************************************************************************)
THEOREM LostChainsStayTails == Spec => []LostChainsAreTails
  <1>1. TypeOK /\ ChainInv => LostChainsAreTails
    BY DEF ChainInv
  <1>2. QED
    BY <1>1, ChainInvariant, PTL

-----------------------------------------------------------------------------
(***************************************************************************)
(* What the caller is told.                                                *)
(***************************************************************************)
FreeCodes == {FE_OK, FE_ERRNO, FE_INVALID_FS, FE_FS_INCONSISTENT}

ReplyInv ==
    /\ ReplyIsTruthful
    /\ h.pc = "lookup" => ~h.obj
    /\ h.pc = "freeing" => call.ret \in FreeCodes

\* Each of these results of freeing the chain is answered with success.
LEMMA FreeCodesSucceed ==
  \A code \in FreeCodes : delete_reply(delete_code(code)) = "0"
  BY DEF FreeCodes, delete_reply, delete_code

\* Entries of a chain are on the device, so reading one is not cut short.
LEMMA FreeingReply ==
  ASSUME FE_INVALID_DEV \notin ReadFaults,
         TypeOK, ChainInv, ReplyInv, FreeCluster
  PROVE  ReplyInv'
  <1>1. h' = h /\ dent' = dent /\ h.pc = "freeing"
    BY DEF FreeCluster
  <1>2. call.ret \in FreeCodes
    BY <1>1 DEF ReplyInv
  <1>3. CASE FreeChainGet
    <2>1. call.cluster \in Cells
      <3>1. h.node \in Nodes
        BY DEF TypeOK, HandlerType
      <3>2. PICK i \in DOMAIN Chain[h.node] : call.cluster = Chain[h.node][i]
        BY <1>1, <1>3 DEF FreeChainGet, ChainInv, Freeing, FreeingAt
      <3>3. QED
        BY <3>1, <3>2, ChainCells
    <2>2. PICK r \in get_entry(call.cluster) :
            \/ Return(r.ret) \/ Return(FE_INVALID_FS)
            \/ call' = [call EXCEPT !.pc = "set", !.entry = r.entry]
      BY <1>3 DEF FreeChainGet
    <2>3. r.ret \in FreeCodes
      <3>1. \/ r = [ret |-> FE_OK, entry |-> fat[call.cluster]]
            \/ r \in [ret : ReadFaults, entry : {call.entry}]
        BY <2>1 DEF get_entry
      <3>2. CASE r = [ret |-> FE_OK, entry |-> fat[call.cluster]]
        BY <3>2 DEF FreeCodes
      <3>3. CASE r \in [ret : ReadFaults, entry : {call.entry}]
        <4>1. r.ret \in ReadFaults
          BY <3>3
        <4>2. QED
          BY <4>1, FatTableAssumption DEF FreeCodes
      <3>4. QED
        BY <3>1, <3>2, <3>3
    <2>4. call'.ret \in FreeCodes
      <3>1. FE_INVALID_FS \in FreeCodes
        BY DEF FreeCodes
      <3>2. QED
        BY <1>2, <2>2, <2>3, <3>1 DEF Return, TypeOK, CallType
    <2>5. QED
      BY <1>1, <2>4 DEF ReplyInv, ReplyIsTruthful
  <1>4. CASE FreeChainSet
    <2>1. call'.ret \in FreeCodes
      <3>1. FE_OK \in FreeCodes /\ FE_FS_INCONSISTENT \in FreeCodes
        BY DEF FreeCodes
      <3>2. QED
        BY <1>2, <1>4, <3>1 DEF FreeChainSet, Return, TypeOK, CallType
    <2>2. QED
      BY <1>1, <2>1 DEF ReplyInv, ReplyIsTruthful
  <1>5. QED
    BY <1>3, <1>4 DEF FreeCluster, FreeChainStep

LEMMA NextReplyInv ==
  ASSUME FE_INVALID_DEV \notin ReadFaults,
         TypeOK, ChainInv, ReplyInv, [Next]_vars
  PROVE  ReplyInv'
  <1> USE DEF ReplyInv, ReplyIsTruthful
  <1>1. ASSUME NEW n \in Nodes, perform_unlink(n) \/ rmdir(n)
        PROVE  ReplyInv'
    BY <1>1 DEF perform_unlink, rmdir, Request, NoHandler
  <1>2. CASE LookUp
    <2>1. PICK r \in get_object(h.node) :
            \/ /\ h'.pc = "idle" /\ ~h'.obj
            \/ /\ r.ret = FE_OK /\ r.obj /\ h'.node = h.node
               /\ h'.pc = "idle" /\ h'.reply # "0"
            \/ h'.pc \in {"isempty", "delete"}
      BY <1>2 DEF LookUp, Reply, TypeOK, HandlerType
    <2>2. r.ret = FE_OK /\ r.obj => dent[h.node] = "used"
      <3>1. CASE h.node = Root
        BY <3>1 DEF ChainInv, Found
      <3>2. CASE h.node # Root
        BY <3>2, GetObjectOutcome, NodesAssumption
        DEF suitable_direntry, TypeOK, HandlerType
      <3>3. QED
        BY <3>1, <3>2
    <2>3. dent' = dent
      BY <1>2 DEF LookUp
    <2>4. QED
      BY <2>1, <2>2, <2>3
  <1>3. CASE CheckEmpty
    <2>1. /\ h'.node = h.node /\ dent' = dent /\ dent[h.node] = "used"
          /\ \/ h'.pc = "idle" /\ h'.reply # "0"
             \/ h'.pc = "delete"
      BY <1>3 DEF CheckEmpty, Reply, reply_of, TypeOK, HandlerType, ChainInv, Found
    <2>2. QED
      BY <2>1
  <1>4. CASE MarkFree
    <2>1. h'.node = h.node /\ dent'[h.node] = "free"
      BY <1>4 DEF MarkFree, Reply, TypeOK, HandlerType
    <2>2. \/ h'.pc = "idle" /\ h'.reply = "0"
          \/ h'.pc = "freeing" /\ call'.ret = FE_OK
      BY <1>4 DEF MarkFree, Reply, mark_cluster_chain_free, NoCall, TypeOK, HandlerType
    <2>3. QED
      BY <2>1, <2>2 DEF FreeCodes
  <1>5. CASE MarkFreeFails
    BY <1>5 DEF MarkFreeFails, Reply, TypeOK, HandlerType, ChainInv, Found
  <1>6. CASE FreeCluster
    BY <1>6, FreeingReply
  <1>7. CASE Deleted
    <2>1. dent' = dent /\ dent[h.node] = "free" /\ h'.node = h.node /\ h'.pc = "idle"
      BY <1>7 DEF Deleted, Reply, TypeOK, HandlerType, ChainInv, Freeing
    <2>2. h'.reply = "0"
      BY <1>7, FreeCodesSucceed DEF Deleted, Reply, TypeOK, HandlerType
    <2>3. QED
      BY <2>1, <2>2
  <1>8. CASE Crash
    BY <1>8 DEF Crash, NoHandler
  <1>9. CASE UNCHANGED vars
    BY <1>9 DEF vars
  <1>10. QED
    BY <1>1, <1>2, <1>3, <1>4, <1>5, <1>6, <1>7, <1>8, <1>9 DEF Next, Handler

(***************************************************************************)
(* The answer says whether the object is gone, as long as no read of the   *)
(* device is cut short: then fat32_fs_object_delete reports a failure      *)
(* after the directory entry has been removed (the deviations in README).  *)
(***************************************************************************)
THEOREM RepliesAreTruthful ==
  ASSUME FE_INVALID_DEV \notin ReadFaults
  PROVE  Spec => []ReplyIsTruthful
  <1>1. Init => ReplyInv
    BY DEF Init, NoHandler, ReplyInv, ReplyIsTruthful
  <1>2. TypeOK /\ ChainInv /\ ReplyInv /\ [Next]_vars => ReplyInv'
    BY NextReplyInv
  <1>3. ReplyInv => ReplyIsTruthful
    BY DEF ReplyInv
  <1>4. QED
    BY <1>1, <1>2, <1>3, ChainInvariant, PTL DEF Spec

-----------------------------------------------------------------------------
(***************************************************************************)
(* A clean success frees everything.                                       *)
(***************************************************************************)
AllFree(n) == \A j \in DOMAIN Chain[n] : fat[Chain[n][j]] = FAT32_FAT_ENTRY_EMPTY

CleanInv ==
    /\ CleanDeleteFreesAll
    /\ h.pc = "freeing" /\ call.pc = "idle" /\ call.ret = FE_OK => AllFree(h.node)

\* A write that succeeded was done.
LEMMA ClearingDone ==
  ASSUME NEW c, NEW w \in set_entry(c, FAT32_FAT_ENTRY_EMPTY), w.ret = FE_OK
  PROVE  w.fat = [fat EXCEPT ![c] = FAT32_FAT_ENTRY_EMPTY]
  BY SetEntryOutcome

\* The chain is left with success only at its last cluster.
LEMMA LastClusterCleared ==
  ASSUME ReservedValues = {0},
         TypeOK, ChainInv, FreeCluster, FreeChainSet,
         call'.pc = "idle", call'.ret = FE_OK
  PROVE  AllFree(h.node)'
  <1>0. PICK n \in Nodes, c \in Nat : n = h.node /\ c = call.cluster
    BY TableTypeOK, CallFields DEF TypeOK, HandlerType
  <1> DEFINE cleared == [fat EXCEPT ![c] = FAT32_FAT_ENTRY_EMPTY]
  <1>1. h' = h /\ h.pc = "freeing" /\ fat \in [Cells -> Entry] /\ call \in CallType
    BY DEF FreeCluster, TypeOK
  <1>2. PICK i \in DOMAIN Chain[n] : FreeingAt(n, i)
    BY <1>0, <1>1 DEF FreeChainSet, ChainInv, Freeing
  <1>3. c = Chain[n][i] /\ ClearedUpTo(n, i - 1) /\ call.entry = fat[c]
    BY <1>0, <1>2 DEF FreeingAt, FreeChainSet
  <1>4. /\ Chain[n] \in Seq(Clusters) /\ Len(Chain[n]) \in Nat
        /\ DOMAIN Chain[n] = 1..Len(Chain[n]) /\ i \in Nat /\ i > 0 /\ i <= Len(Chain[n])
    BY LayoutAssumption
  <1>5. PICK w \in set_entry(c, FAT32_FAT_ENTRY_EMPTY) :
          /\ fat' = w.fat
          /\ \/ w.ret = FE_ERRNO /\ Return(FE_FS_INCONSISTENT)
             \/ w.ret = FE_OK /\ fat32_fat_entry_is_null(call.entry)
             \/ call'.pc = "get"
    BY <1>0, <1>1 DEF FreeChainSet, CallType
  <1>6. w.ret = FE_OK /\ fat32_fat_entry_is_null(call.entry)
    <2>1. Return(FE_FS_INCONSISTENT) => call'.ret # FE_OK
      BY <1>1 DEF Return, CallType, FE_OK, FE_FS_INCONSISTENT
    <2>2. QED
      BY <1>5, <2>1
  <1>7. fat' = cleared
    <2>1. fat' = w.fat /\ w.ret = FE_OK
      BY <1>5, <1>6
    <2>2. QED
      BY <2>1, ClearingDone
  <1>8. i = Len(Chain[n])
    <2> SUFFICES ASSUME i < Len(Chain[n])
                 PROVE  FALSE
      BY <1>4
    <2>1. ~(i <= i - 1) /\ i + 1 \in DOMAIN Chain[n]
      BY <1>4
    <2>2. Linked(fat, n, i)
      BY <1>3, <2>1 DEF ClearedUpTo
    <2>3. fat[c].value = Chain[n][i + 1]
      BY <1>3, <2>2 DEF Linked
    <2>4. Chain[n][i + 1] \in Nat /\ Chain[n][i + 1] < FAT32_FAT_ENTRY_BAD
      BY <2>1, ChainCells
    <2>5. fat[c] \in Entry /\ fat[c].reserved = 0
      <3>1. c \in Cells
        BY <1>3, ChainCells
      <3>2. QED
        BY <1>1, <3>1 DEF Entry
    <2>6. fat[c].value >= FAT32_FAT_ENTRY_EOC
      BY <1>3, <1>6, <2>5 DEF fat32_fat_entry_is_null
    <2>7. QED
      BY <2>3, <2>4, <2>6, ClusterSpaceAssumption
      DEF FAT32_FAT_ENTRY_BAD, FAT32_FAT_ENTRY_EOC
  <1>9. ASSUME NEW j \in DOMAIN Chain[n]
        PROVE  fat'[Chain[n][j]] = FAT32_FAT_ENTRY_EMPTY
    <2>1. Chain[n][j] \in Cells
      BY ChainCells
    <2>2. CASE j = i
      BY <1>1, <1>3, <1>7, <2>1, <2>2
    <2>3. CASE j # i
      <3>1. j <= i - 1
        BY <1>4, <1>8, <2>3
      <3>2. fat[Chain[n][j]] = FAT32_FAT_ENTRY_EMPTY
        BY <1>3, <3>1 DEF ClearedUpTo
      <3>3. QED
        BY <1>1, <1>7, <2>1, <3>2
    <2>4. QED
      BY <2>2, <2>3
  <1>10. QED
    BY <1>0, <1>1, <1>9 DEF AllFree

\* A failed lookup or check is never answered with success.
LEMMA FailuresAreNoSuccess ==
    /\ \A code : reply_of(code) # "0"
    /\ "ENOENT" # "0" /\ "ENOTEMPTY" # "0"
  BY DEF reply_of

LEMMA NextCleanInv ==
  ASSUME ReservedValues = {0},
         TypeOK, ChainInv, CleanInv, [Next]_vars
  PROVE  CleanInv'
  <1> USE DEF CleanInv, CleanDeleteFreesAll
  <1>1. ASSUME NEW n \in Nodes, perform_unlink(n) \/ rmdir(n)
        PROVE  CleanInv'
    BY <1>1 DEF perform_unlink, rmdir, Request, NoHandler
  <1>2. CASE LookUp
    <2>1. h'.pc # "freeing" /\ (h'.pc = "idle" => h'.reply # "0")
      <3>1. \A x : Reply(x) => h'.pc = "idle" /\ h'.reply = x
        BY DEF Reply, TypeOK, HandlerType
      <3>2. \/ \E x : x # "0" /\ Reply(x)
            \/ h'.pc = "idle" /\ h'.reply # "0"
            \/ h'.pc \in {"isempty", "delete"}
        BY <1>2, FailuresAreNoSuccess DEF LookUp, TypeOK, HandlerType
      <3>3. QED
        BY <3>1, <3>2
    <2>2. QED
      BY <2>1
  <1>3. CASE CheckEmpty
    <2>1. h'.pc # "freeing" /\ (h'.pc = "idle" => h'.reply # "0")
      <3>1. \A x : Reply(x) => h'.pc = "idle" /\ h'.reply = x
        BY DEF Reply, TypeOK, HandlerType
      <3>2. (\E x : x # "0" /\ Reply(x)) \/ h'.pc = "delete"
        BY <1>3, FailuresAreNoSuccess DEF CheckEmpty, TypeOK, HandlerType
      <3>3. QED
        BY <3>1, <3>2
    <2>2. QED
      BY <2>1
  <1>4. CASE MarkFree
    <2>1. h.node \in Nodes /\ h'.node = h.node /\ dent'[h.node] = "free"
      BY <1>4 DEF MarkFree, Reply, TypeOK, HandlerType
    <2>2. CASE h.node \notin Directories /\ Chain[h.node] = <<>>
      <3>1. h'.pc = "idle"
        BY <1>4, <2>2 DEF MarkFree, Reply, TypeOK, HandlerType
      <3>2. DOMAIN Chain[h.node] = {}
        BY <2>2
      <3>3. QED
        BY <2>1, <3>1, <3>2
    <2>3. CASE ~(h.node \notin Directories /\ Chain[h.node] = <<>>)
      <3>1. h'.pc = "freeing" /\ call'.pc = "get"
        BY <1>4, <2>3 DEF MarkFree, mark_cluster_chain_free, NoCall, TypeOK, HandlerType
      <3>2. QED
        BY <3>1
    <2>4. QED
      BY <2>2, <2>3
  <1>5. CASE MarkFreeFails
    BY <1>5 DEF MarkFreeFails, Reply, TypeOK, HandlerType
  <1>6. CASE FreeCluster
    <2>1. h' = h /\ h.pc = "freeing"
      BY <1>6 DEF FreeCluster
    <2>2. CASE FreeChainGet
      <3>1. (\E code : code # FE_OK /\ Return(code)) \/ call'.pc = "set"
        <4>1. PICK r \in get_entry(call.cluster) :
                \/ r.ret # FE_OK /\ Return(r.ret)
                \/ Return(FE_INVALID_FS)
                \/ call' = [call EXCEPT !.pc = "set", !.entry = r.entry]
          BY <2>2 DEF FreeChainGet
        <4>2. FE_INVALID_FS # FE_OK
          BY DEF FE_OK, FE_INVALID_FS
        <4>3. [call EXCEPT !.pc = "set", !.entry = r.entry].pc = "set"
          BY DEF TypeOK, CallType
        <4>4. QED
          BY <4>1, <4>2, <4>3
      <3>2. \A code : Return(code) => call'.pc = "idle" /\ call'.ret = code
        BY DEF Return, TypeOK, CallType
      <3>3. QED
        BY <2>1, <3>1, <3>2
    <2>3. CASE FreeChainSet
      BY <1>6, <2>1, <2>3, LastClusterCleared
    <2>4. QED
      BY <1>6, <2>2, <2>3 DEF FreeCluster, FreeChainStep
  <1>7. CASE Deleted
    <2>1. /\ h'.node = h.node /\ h'.pc = "idle" /\ h.pc = "freeing" /\ call.pc = "idle"
          /\ fat' = fat /\ call' = call /\ dent' = dent
      BY <1>7 DEF Deleted, Reply, TypeOK, HandlerType
    <2>2. dent[h.node] = "free"
      BY <2>1 DEF ChainInv, Freeing
    <2>3. QED
      BY <2>1, <2>2 DEF AllFree
  <1>8. CASE Crash
    BY <1>8 DEF Crash, NoHandler
  <1>9. CASE UNCHANGED vars
    BY <1>9 DEF vars, AllFree
  <1>10. QED
    BY <1>1, <1>2, <1>3, <1>4, <1>5, <1>6, <1>7, <1>8, <1>9 DEF Next, Handler

(***************************************************************************)
(* A deletion answered with success has freed every cluster of the object, *)
(* unless the driver has logged that clusters were lost: the loop of       *)
(* fat32_fat_mark_cluster_chain_free ends with FE_OK nowhere but at the    *)
(* end of the chain.  An entry with reserved bits would look like that end *)
(* (FatReserved.cfg), so none has any here.                                *)
(***************************************************************************)
THEOREM SuccessFreesEverything ==
  ASSUME ReservedValues = {0}
  PROVE  Spec => []CleanDeleteFreesAll
  <1>1. Init => CleanInv
    BY DEF Init, NoHandler, CleanInv, CleanDeleteFreesAll
  <1>2. TypeOK /\ ChainInv /\ CleanInv /\ [Next]_vars => CleanInv'
    BY NextCleanInv
  <1>3. CleanInv => CleanDeleteFreesAll
    BY DEF CleanInv
  <1>4. QED
    BY <1>1, <1>2, <1>3, ChainInvariant, PTL DEF Spec

-----------------------------------------------------------------------------
(***************************************************************************)
(* The volume is the abstract one.                                         *)
(***************************************************************************)
DeleteInv ==
    h.pc = "delete" => \A m \in Children(h.node) : dent[m] = "free"

LEMMA NextDeleteInv ==
  ASSUME Marked = {}, TRUE \notin AllocFaults,
         TypeOK, ChainInv, DeleteInv, [Next]_vars
  PROVE  DeleteInv'
  <1> USE DEF DeleteInv
  <1>1. ASSUME NEW n \in Nodes, perform_unlink(n) \/ rmdir(n)
        PROVE  DeleteInv'
    BY <1>1 DEF perform_unlink, rmdir, Request, NoHandler
  <1>2. CASE LookUp
    <2> SUFFICES ASSUME h'.pc = "delete"
                 PROVE  Children(h'.node) = {}
      OBVIOUS
    <2>1. h'.node = h.node /\ h.op # "rmdir" /\ Refusal(h.op, h.node) = "0"
      <3>1. \/ h'.pc = "idle"
            \/ /\ Refusal(h.op, h.node) = "0"
               /\ h' = [h EXCEPT !.obj = TRUE,
                           !.pc = IF h.op = "rmdir" THEN "isempty" ELSE "delete"]
        BY <1>2 DEF LookUp, Reply, TypeOK, HandlerType
      <3>2. CASE h.op = "rmdir"
        BY <3>1, <3>2 DEF TypeOK, HandlerType
      <3>3. CASE h.op # "rmdir"
        BY <3>1, <3>3 DEF TypeOK, HandlerType
      <3>4. QED
        BY <3>2, <3>3
    <2>2. h.op = "unlink"
      BY <1>2, <2>1 DEF LookUp, ChainInv, Found, TypeOK, HandlerType
    <2>3. h.node \notin Directories
      BY <2>1, <2>2 DEF Refusal
    <2>4. QED
      BY <2>1, <2>3, NodesAssumption DEF Children
  <1>3. CASE CheckEmpty
    <2> SUFFICES ASSUME h'.pc = "delete", NEW m \in Children(h.node)
                 PROVE  dent[m] = "free"
      BY <1>3 DEF CheckEmpty, Reply, TypeOK, HandlerType
    <2>1. PICK r \in is_empty_directory(h.node) : r.ret = FE_OK /\ r.empty
      BY <1>3 DEF CheckEmpty, Reply, TypeOK, HandlerType
    <2>2. ~suitable_direntry(m)
      BY <2>1, IsEmptyOutcome
    <2>3. QED
      BY <2>2 DEF suitable_direntry, Children, TypeOK
  <1>4. CASE MarkFree
    BY <1>4 DEF MarkFree, Reply, TypeOK, HandlerType
  <1>5. CASE MarkFreeFails \/ Deleted
    BY <1>5 DEF MarkFreeFails, Deleted, Reply, TypeOK, HandlerType
  <1>6. CASE FreeCluster
    BY <1>6 DEF FreeCluster
  <1>7. CASE Crash
    BY <1>7 DEF Crash, NoHandler
  <1>8. CASE UNCHANGED vars
    BY <1>8 DEF vars
  <1>9. QED
    BY <1>1, <1>2, <1>3, <1>4, <1>5, <1>6, <1>7, <1>8 DEF Next, Handler

\* Marking the directory entry is the step in which the object disappears;
\* every other step leaves the tree as it is.
LEMMA MarkFreeRemoves ==
  ASSUME TypeOK, ChainInv, DeleteInv, MarkFree
  PROVE  A!Remove(h.node) /\ h.node \in Nodes
  <1>1. h.node \in Nodes /\ h.node # Root /\ dent[h.node] = "used"
    BY DEF TypeOK, HandlerType, ChainInv, Found, MarkFree
  <1>2. dent \in [Nodes -> {"used", "free"}] /\ dent' = [dent EXCEPT ![h.node] = "free"]
    BY DEF TypeOK, MarkFree
  <1>3. h.node \in Live \ {Root}
    BY <1>1 DEF Live
  <1>4. A!ChildrenOf(h.node, Live) = {}
    BY DEF DeleteInv, MarkFree, A!ChildrenOf, Children, Live
  <1>5. Live' = Live \ {h.node}
    BY <1>1, <1>2 DEF Live
  <1>6. QED
    BY <1>1, <1>3, <1>4, <1>5 DEF A!Remove

LEMMA OtherStepsKeepLive ==
  ASSUME [Next]_vars, ~MarkFree
  PROVE  Live' = Live
  <1>1. dent' = dent
    BY DEF Next, Handler, vars, perform_unlink, rmdir, Request, LookUp, CheckEmpty,
           MarkFreeFails, FreeCluster, Deleted, Crash
  <1>2. QED
    BY <1>1 DEF Live

LEMMA StepRemoves ==
  ASSUME TypeOK, ChainInv, DeleteInv, [Next]_vars
  PROVE  [A!Next]_Live
  BY MarkFreeRemoves, OtherStepsKeepLive DEF A!Next

LEMMA InitRemoves == Init => A!Init
  BY DEF Init, A!Init, Live

LEMMA InitDeleteInv == Init => DeleteInv
  BY DEF Init, NoHandler, DeleteInv

(***************************************************************************)
(* On a volume without hidden, system or read-only files, and while no     *)
(* allocation fails, unlink and rmdir implement AbstractVolume.            *)
(***************************************************************************)
THEOREM VolumeIsAbstractVolume ==
  ASSUME Marked = {}, TRUE \notin AllocFaults
  PROVE  Spec => Removes
  <1>1. TypeOK /\ ChainInv /\ DeleteInv /\ [Next]_vars => DeleteInv'
    BY NextDeleteInv
  <1>2. TypeOK /\ ChainInv /\ DeleteInv /\ [Next]_vars => [A!Next]_Live
    BY StepRemoves
  <1>3. QED
    BY <1>1, <1>2, InitRemoves, InitDeleteInv, ChainInvariant, PTL
    DEF Spec, Removes, A!Spec

(***************************************************************************)
(* Under the same assumptions nothing is ever left in a directory that was *)
(* removed: the emptiness check of fat32_rmdir is enough.                  *)
(***************************************************************************)
THEOREM NothingIsOrphaned ==
  ASSUME Marked = {}, TRUE \notin AllocFaults
  PROVE  Spec => []NoOrphans
  <1>1. Init => NoOrphans
    BY NodesAssumption DEF Init, NoOrphans, Live
  <1>2. TypeOK /\ ChainInv /\ DeleteInv /\ NoOrphans /\ [Next]_vars => NoOrphans'
    <2> SUFFICES ASSUME TypeOK, ChainInv, DeleteInv, NoOrphans, [Next]_vars
                 PROVE  NoOrphans'
      OBVIOUS
    <2>1. CASE MarkFree
      BY <2>1, MarkFreeRemoves DEF A!Remove, A!ChildrenOf, NoOrphans
    <2>2. CASE ~MarkFree
      BY <2>2, OtherStepsKeepLive DEF NoOrphans
    <2>3. QED
      BY <2>1, <2>2
  <1>3. TypeOK /\ ChainInv /\ DeleteInv /\ [Next]_vars => DeleteInv'
    BY NextDeleteInv
  <1>4. QED
    BY <1>1, <1>2, <1>3, InitDeleteInv, ChainInvariant, PTL DEF Spec

=============================================================================
