--------------------------- MODULE FatTableProofs ---------------------------
(***************************************************************************)
(* Facts about FatTable that the proofs about its users rest on: what an   *)
(* access to the device returns and leaves behind, and that each function  *)
(* of src/fat32/fat.c keeps the table and its locals of their types.       *)
(***************************************************************************)
EXTENDS FatTable, TLAPS

FatTypeOK == fat \in [Cells -> Entry] /\ call \in CallType

-----------------------------------------------------------------------------
(***************************************************************************)
(* Words and the accesses to them.                                         *)
(***************************************************************************)

\* The words that are written, and the empty call, are of their types.
LEMMA EmptyIsEntry ==
    /\ FAT32_FAT_ENTRY_EMPTY \in Entry
    /\ NoCall \in CallType
  BY ClusterSpaceAssumption
  DEF FAT32_FAT_ENTRY_EMPTY, Word, Entry, NoCall, CallType, FatFunctions, FE_OK

LEMMA WordsAreEntries ==
    /\ \A v \in 0..ClusterSpace - 1 : Word(v) \in Entry
    /\ Word(FAT32_FAT_ENTRY_EOC) \in Entry
  BY ClusterSpaceAssumption DEF Word, Entry, FAT32_FAT_ENTRY_EOC

\* The number a word holds.
LEMMA EntryFields ==
  ASSUME NEW e \in Entry
  PROVE  /\ e.reserved \in Nat /\ e.value \in 0..ClusterSpace - 1
         /\ fat32_fat_entry_to_cluster(e) \in Nat
  <1>1. e.reserved \in ReservedValues /\ e.value \in 0..ClusterSpace - 1
    BY DEF Entry
  <1>2. ReservedValues \subseteq Nat /\ 0..ClusterSpace - 1 \subseteq Nat
    BY ClusterSpaceAssumption
  <1>3. QED
    BY <1>1, <1>2 DEF fat32_fat_entry_to_cluster

\* The cells of the clusters are on the device; the number of a cluster is
\* neither zero nor a mark.
LEMMA ClusterNumbers ==
  ASSUME NEW c \in Clusters
  PROVE  /\ c \in Cells /\ c \in Nat /\ c # 0
         /\ c < FAT32_FAT_ENTRY_BAD
         /\ c \in 0..ClusterSpace - 1
  BY FatTableAssumption, ClusterSpaceAssumption
  DEF Clusters, Cells, FAT32_MIN_CLUSTER_NUMBER, FAT32_FAT_ENTRY_BAD

LEMMA CallFields ==
  ASSUME FatTypeOK
  PROVE  /\ call.cluster \in Nat /\ call.entry \in Entry /\ call.ret \in Nat
         /\ call.pc \in {"idle", "get", "set"} /\ call.left \in Nat
  BY DEF FatTypeOK, CallType

\* The outcomes of an access.
LEMMA GetEntryOutcome ==
  ASSUME FatTypeOK, NEW c \in Nat, NEW r \in get_entry(c)
  PROVE  /\ r.ret \in Nat
         /\ r.entry \in Entry
         /\ r.ret \in {FE_OK, FE_ERRNO, FE_INVALID_DEV}
         /\ r.ret = FE_OK => r.entry = fat[c] /\ c \in Cells
  <1> USE DEF FE_OK, FE_ERRNO, FE_INVALID_DEV
  <1>1. call.entry \in Entry /\ fat \in [Cells -> Entry]
    BY DEF FatTypeOK, CallType
  <1>2. CASE r \in [ret : ReadFaults, entry : {call.entry}]
    <2>1. r.ret \in ReadFaults /\ r.entry = call.entry
      BY <1>2
    <2>2. r.ret \in {FE_ERRNO, FE_INVALID_DEV}
      BY <2>1, FatTableAssumption
    <2>3. QED
      BY <1>1, <2>1, <2>2
  <1>3. CASE c \in Cells /\ r = [ret |-> FE_OK, entry |-> fat[c]]
    BY <1>1, <1>3
  <1>4. CASE r = [ret |-> FE_INVALID_DEV, entry |-> call.entry]
    BY <1>1, <1>4
  <1>5. QED
    BY <1>2, <1>3, <1>4 DEF get_entry

LEMMA SetEntryOutcome ==
  ASSUME NEW c, NEW e, NEW w \in set_entry(c, e)
  PROVE  /\ w.ret \in {FE_OK, FE_ERRNO}
         /\ w.fat \in {fat, [fat EXCEPT ![c] = e]}
         /\ w.ret = FE_OK => w.fat = [fat EXCEPT ![c] = e]
  <1> DEFINE new == [fat EXCEPT ![c] = e]
  <1> HIDE DEF new
  <1> USE DEF FE_OK, FE_ERRNO
  <1>1. CASE w = [ret |-> FE_OK, fat |-> new]
    BY <1>1 DEF new
  <1>2. CASE w \in [ret : {FE_ERRNO}, fat : {fat, new}]
    <2>1. w.ret = FE_ERRNO /\ w.fat \in {fat, new}
      BY <1>2
    <2>2. QED
      BY <2>1 DEF new
  <1>3. QED
    BY <1>1, <1>2 DEF set_entry, new

-----------------------------------------------------------------------------
(***************************************************************************)
(* Types.                                                                  *)
(***************************************************************************)

LEMMA FatInitType == FatInit => FatTypeOK
  BY EmptyIsEntry, FatTableAssumption DEF FatInit, FatTypeOK

LEMMA ReturnType ==
  ASSUME FatTypeOK, NEW code \in Nat, Return(code)
  PROVE  call' \in CallType
  BY DEF FatTypeOK, CallType, Return

\* The calls keep the device and start with locals of their types.
LEMMA FreshCallType ==
  ASSUME FatTypeOK, NEW c \in Nat, mark_cluster_chain_free(c) \/ mark_cluster_last(c)
  PROVE  FatTypeOK' /\ fat' = fat /\ hint' = hint
  BY EmptyIsEntry
  DEF FatTypeOK, mark_cluster_chain_free, mark_cluster_last, NoCall, CallType, FatFunctions

LEMMA FreeChainType ==
  ASSUME FatTypeOK, FreeChainStep
  PROVE  FatTypeOK' /\ hint' = hint
  <1>1. CASE FreeChainGet
    <2>1. PICK r \in get_entry(call.cluster) :
            \/ Return(r.ret) \/ Return(FE_INVALID_FS)
            \/ call' = [call EXCEPT !.pc = "set", !.entry = r.entry]
      BY <1>1 DEF FreeChainGet
    <2>2. r.ret \in Nat /\ r.entry \in Entry
      BY CallFields, GetEntryOutcome
    <2>3. call' \in CallType
      <3>1. FE_INVALID_FS \in Nat
        BY DEF FE_INVALID_FS
      <3>2. [call EXCEPT !.pc = "set", !.entry = r.entry] \in CallType
        BY <2>2 DEF CallType, FatTypeOK
      <3>3. QED
        BY <2>1, <2>2, <3>1, <3>2, ReturnType
    <2>4. QED
      BY <1>1, <2>3 DEF FreeChainGet, FatTypeOK
  <1>2. CASE FreeChainSet
    <2>1. PICK w \in set_entry(call.cluster, FAT32_FAT_ENTRY_EMPTY) :
            /\ fat' = w.fat
            /\ \/ Return(FE_FS_INCONSISTENT)
               \/ call' = [call EXCEPT !.pc = "idle", !.ret = FE_OK,
                             !.cluster = fat32_fat_entry_to_cluster(call.entry)]
               \/ call' = [call EXCEPT !.pc = "get",
                             !.cluster = fat32_fat_entry_to_cluster(call.entry)]
      BY <1>2 DEF FreeChainSet
    <2>2. fat' \in [Cells -> Entry]
      <3>1. w.fat \in {fat, [fat EXCEPT ![call.cluster] = FAT32_FAT_ENTRY_EMPTY]}
        BY SetEntryOutcome
      <3>2. QED
        BY <2>1, <3>1, EmptyIsEntry DEF FatTypeOK
    <2>3. fat32_fat_entry_to_cluster(call.entry) \in Nat
      BY CallFields, EntryFields
    <2>4. call' \in CallType
      <3>1. FE_OK \in Nat /\ FE_FS_INCONSISTENT \in Nat
        BY DEF FE_FS_INCONSISTENT, FE_OK
      <3>2. QED
        BY <2>1, <2>3, <3>1 DEF Return, CallType, FatTypeOK
    <2>5. QED
      BY <1>2, <2>2, <2>4 DEF FreeChainSet, FatTypeOK
  <1>3. QED
    BY <1>1, <1>2 DEF FreeChainStep

LEMMA NthType ==
  ASSUME FatTypeOK, NthEnd \/ NthGet
  PROVE  FatTypeOK' /\ fat' = fat /\ hint' = hint
  <1>1. CASE NthEnd
    BY <1>1, ReturnType DEF NthEnd, FE_OK, FatTypeOK
  <1>2. CASE NthGet
    <2>1. PICK r \in get_entry(call.cluster) :
            \/ Return(r.ret)
            \/ call' = [call EXCEPT !.pc = "idle", !.entry = r.entry,
                                    !.ret = NthCode(r.entry)]
            \/ call' = [call EXCEPT !.entry = r.entry, !.left = @ - 1,
                          !.cluster = fat32_fat_entry_to_cluster(r.entry)]
      BY <1>2 DEF NthGet
    <2>2. r.ret \in Nat /\ r.entry \in Entry
      BY CallFields, GetEntryOutcome
    <2>3. NthCode(r.entry) \in Nat /\ fat32_fat_entry_to_cluster(r.entry) \in Nat
      BY <2>2, EntryFields DEF NthCode, FE_OK, FE_INVALID_FS, FE_CLUSTER_CHAIN_ENDED
    <2>4. call.left \in Nat \ {0}
      <3>1. call.left \in Nat
        BY CallFields
      <3>2. call.left > 0
        BY <1>2 DEF NthGet
      <3>3. QED
        BY <3>1, <3>2
    <2>5. call' \in CallType
      <3>1. \A x \in Nat : [call EXCEPT !.pc = "idle", !.entry = r.entry, !.ret = x] \in CallType
        BY <2>2 DEF CallType, FatTypeOK
      <3>2. \A x, l \in Nat : [call EXCEPT !.entry = r.entry, !.left = l, !.cluster = x]
                                   \in CallType
        BY <2>2 DEF CallType, FatTypeOK
      <3>3. call.left - 1 \in Nat
        BY <2>4
      <3>4. QED
        BY <2>1, <2>2, <2>3, <3>1, <3>2, <3>3, ReturnType
    <2>6. QED
      BY <1>2, <2>5 DEF NthGet, FatTypeOK
  <1>3. QED
    BY <1>1, <1>2

LEMMA MarkLastType ==
  ASSUME FatTypeOK, MarkLastSet
  PROVE  FatTypeOK' /\ hint' = hint
  <1>1. PICK w \in set_entry(call.cluster, Word(FAT32_FAT_ENTRY_EOC)) : fat' = w.fat
    BY DEF MarkLastSet
  <1>2. fat' \in [Cells -> Entry]
    <2>1. w.fat \in {fat, [fat EXCEPT ![call.cluster] = Word(FAT32_FAT_ENTRY_EOC)]}
      BY SetEntryOutcome
    <2>2. QED
      BY <1>1, <2>1, WordsAreEntries DEF FatTypeOK
  <1>3. call' \in CallType
    BY ReturnType DEF MarkLastSet, FE_FS_INCONSISTENT, FE_OK
  <1>4. QED
    BY <1>2, <1>3 DEF MarkLastSet, FatTypeOK

=============================================================================
