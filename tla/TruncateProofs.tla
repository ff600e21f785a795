--------------------------- MODULE TruncateProofs ---------------------------
(***************************************************************************)
(* Proofs about Truncate, for any files, any valid layout of their chains  *)
(* and any set of faults.                                                  *)
(*                                                                         *)
(* On a device that is larger than the cell the end mark would number, a   *)
(* truncation to the length a file has in clusters frees that cell and     *)
(* follows what it holds: the theorems about chains are about devices that *)
(* end before it.                                                          *)
(***************************************************************************)
EXTENDS Truncate, FatTableProofs

SmallDevice == DeviceCells <= FAT32_FAT_ENTRY_EOC

-----------------------------------------------------------------------------
(***************************************************************************)
(* The inductive invariant.  First, what the table holds at the clusters   *)
(* of a file.                                                              *)
(***************************************************************************)

\* The j-th cluster of f names the next one.
Leads(f, j) == j < Len(Chain[f]) /\ fat[Chain[f][j]] = Word(Chain[f][j + 1])

\* The i-th cluster can be reached from the first.
OnPath(f, i) == i \in DOMAIN Chain[f] /\ \A j \in 1..i - 1 : Leads(f, j)

LiveEnd(f, k) == OnPath(f, k) /\ fat[Chain[f][k]] = Word(FAT32_FAT_ENTRY_EOC)

ChainWords ==
    \A f \in Files : \A j \in DOMAIN Chain[f] :
        \/ Leads(f, j)
        \/ fat[Chain[f][j]] \in {Word(FAT32_FAT_ENTRY_EOC), FAT32_FAT_ENTRY_EMPTY}

LiveEnds == \A f \in Files : size[f] > 0 => \E k \in DOMAIN Chain[f] : LiveEnd(f, k)

NoLeadToFree ==
    \A f \in Files : \A j \in DOMAIN Chain[f] :
        Leads(f, j) => ~fat32_fat_entry_is_free(fat[Chain[f][j + 1]])

TableInv == ChainWords /\ LiveEnds /\ NoLeadToFree

(***************************************************************************)
(* Where the truncation under way stands in the chain of its file.         *)
(***************************************************************************)
HasData == h.pc \in {"empty", "nth", "entry", "last"} => size[h.file] > 0

WalksChain ==
    /\ h.pc \in {"nth", "entry"} /\ (call.pc # "idle" \/ call.ret = FE_OK) =>
          \E i \in DOMAIN Chain[h.file] :
              /\ OnPath(h.file, i)
              /\ call.cluster = Chain[h.file][i] /\ call.entry = Word(Chain[h.file][i])
              /\ i + call.left = clusters
              /\ call.pc = "idle" => call.left = 0
    /\ h.pc = "entry" => call.pc = "idle" /\ call.ret = FE_OK

EndsChain ==
    h.pc = "last" =>
        \E i \in DOMAIN Chain[h.file] :
            /\ OnPath(h.file, i) /\ i = clusters
            /\ call.cluster = Chain[h.file][i]
            /\ \/ h.next = FAT32_FAT_ENTRY_EOC
               \/ i < Len(Chain[h.file]) /\ h.next = Chain[h.file][i + 1]
            /\ call.pc = "idle" /\ call.ret = FE_OK
                  => fat[Chain[h.file][i]] = Word(FAT32_FAT_ENTRY_EOC)

\* The m-th cluster of f is in no chain, and behind the end of what is left.
CutOff(f, m) ==
    /\ m > 1 => ~Leads(f, m - 1)
    /\ size[f] > 0 => \E k \in DOMAIN Chain[f] : k < m /\ LiveEnd(f, k)

FreesRest ==
    h.pc = "freeing" /\ call.pc # "idle" =>
        \/ call.pc = "get" /\ call.cluster = FAT32_FAT_ENTRY_EOC
        \/ \E m \in DOMAIN Chain[h.file] :
              /\ CutOff(h.file, m)
              /\ call.cluster = Chain[h.file][m]
              /\ call.pc = "set" => /\ call.entry = fat[Chain[h.file][m]]
                                    /\ ~fat32_fat_entry_is_free(call.entry)

TruncateInv == TypeOK /\ TableInv /\ HasData /\ WalksChain /\ EndsChain /\ FreesRest

(***************************************************************************)
(* What is kept, as long as the numbers of clusters do not wrap.           *)
(***************************************************************************)
NoWrap == MaxLength + ClusterSize <= SizeSpace

Kept ==
    \/ Reached(h.file) >= Needed(h.length)
    \/ Reached(h.file) >= h.had

KeepInv ==
    /\ h.length <= MaxLength
    /\ h.pc # "idle" \/ h.reply \notin {"none", "abort"} => Kept
    /\ h.pc = "empty" => clusters = 0

-----------------------------------------------------------------------------
(***************************************************************************)
(* Facts about the layout and about words.                                 *)
(***************************************************************************)

LEMMA ChainIndices ==
  ASSUME NEW f \in Files
  PROVE  /\ Chain[f] \in Seq(Clusters)
         /\ DOMAIN Chain[f] = 1..Len(Chain[f]) /\ Len(Chain[f]) \in Nat
         /\ \A j \in DOMAIN Chain[f] : j \in Nat /\ j >= 1 /\ j <= Len(Chain[f])
  BY LayoutAssumption

LEMMA ChainCells ==
  ASSUME NEW f \in Files, NEW j \in DOMAIN Chain[f]
  PROVE  /\ Chain[f][j] \in Cells /\ Chain[f][j] \in Nat
         /\ Chain[f][j] # 0 /\ Chain[f][j] < FAT32_FAT_ENTRY_BAD
  <1>1. Chain[f][j] \in Clusters
    BY LayoutAssumption
  <1>2. QED
    BY <1>1, ClusterNumbers

LEMMA Words ==
    /\ \A v, w : Word(v) = Word(w) => v = w
    /\ \A v : Word(v).value = v /\ Word(v).reserved = 0
    /\ FAT32_FAT_ENTRY_EMPTY = Word(0)
    /\ FAT32_FAT_ENTRY_EOC \in Nat /\ FAT32_FAT_ENTRY_BAD \in Nat
    /\ FAT32_FAT_ENTRY_BAD < FAT32_FAT_ENTRY_EOC /\ FAT32_FAT_ENTRY_EOC # 0
  <1>1. \A v : Word(v).value = v /\ Word(v).reserved = 0
    BY DEF Word
  <1>2. QED
    BY <1>1, ClusterSpaceAssumption
    DEF FAT32_FAT_ENTRY_EMPTY, FAT32_FAT_ENTRY_EOC, FAT32_FAT_ENTRY_BAD

\* A word that leads to a cluster is neither free nor a mark, an end mark is
\* the last in its chain and not free, and neither is the other.
LEMMA LinkWords ==
    /\ \A f \in Files : \A j \in DOMAIN Chain[f] :
          LET e == Word(Chain[f][j]) IN
          /\ ~fat32_fat_entry_is_null(e) /\ ~fat32_fat_entry_is_bad(e)
          /\ ~fat32_fat_entry_is_free(e)
          /\ fat32_fat_entry_to_cluster(e) = Chain[f][j]
          /\ e # Word(FAT32_FAT_ENTRY_EOC) /\ e # FAT32_FAT_ENTRY_EMPTY
    /\ fat32_fat_entry_is_null(Word(FAT32_FAT_ENTRY_EOC))
    /\ ~fat32_fat_entry_is_free(Word(FAT32_FAT_ENTRY_EOC))
    /\ ~fat32_fat_entry_is_bad(Word(FAT32_FAT_ENTRY_EOC))
    /\ fat32_fat_entry_to_cluster(Word(FAT32_FAT_ENTRY_EOC)) = FAT32_FAT_ENTRY_EOC
    /\ fat32_fat_entry_is_free(FAT32_FAT_ENTRY_EMPTY)
    /\ FAT32_FAT_ENTRY_EMPTY # Word(FAT32_FAT_ENTRY_EOC)
  <1> USE Words DEF fat32_fat_entry_is_null, fat32_fat_entry_is_bad, fat32_fat_entry_is_free,
                    fat32_fat_entry_to_cluster
  <1>1. ASSUME NEW f \in Files, NEW j \in DOMAIN Chain[f]
        PROVE  /\ Chain[f][j] \in Nat /\ Chain[f][j] # 0
               /\ Chain[f][j] < FAT32_FAT_ENTRY_BAD
    BY ChainCells
  <1>2. QED
    BY <1>1

\* No cluster is in two places.
LEMMA OnePlace ==
  ASSUME NEW f \in Files, NEW m \in DOMAIN Chain[f], NEW g \in Files, NEW j \in DOMAIN Chain[g]
  PROVE  Chain[g][j] \in Cells /\ (Chain[g][j] = Chain[f][m] <=> g = f /\ j = m)
  BY LayoutAssumption, ChainCells

\* A file that has data has a cluster.
LEMMA DataHasCluster ==
  ASSUME NEW f \in Files, InitialSize[f] > 0
  PROVE  Chain[f] # <<>>
  <1>1. PICK s \in Nat, c \in Nat \ {0} : s = InitialSize[f] /\ c = ClusterSize
    BY TruncateAssumption
  <1>2. s + c - 1 >= c
    BY <1>1
  <1>3. (s + c - 1) \div c >= 1
    BY <1>1, <1>2
  <1>4. Len(Chain[f]) >= 1
    BY <1>1, <1>3, LayoutAssumption
  <1>5. QED
    BY <1>4

LEMMA TableTypeOK == TypeOK => FatTypeOK
  BY DEF TypeOK, FatTypeOK

-----------------------------------------------------------------------------
(***************************************************************************)
(* Facts about the chains of files that have data.                         *)
(***************************************************************************)

LEMMA PathBeforeEnd ==
  ASSUME NEW f \in Files, NEW i, NEW k, OnPath(f, i), LiveEnd(f, k)
  PROVE  i <= k
  <1> SUFFICES ASSUME i > k PROVE FALSE
    BY ChainIndices DEF OnPath, LiveEnd
  <1>1. i \in Nat /\ k \in Nat /\ k >= 1
    BY ChainIndices DEF OnPath, LiveEnd
  <1>2. Leads(f, k)
    BY <1>1 DEF OnPath
  <1>3. k + 1 \in DOMAIN Chain[f]
    BY <1>1, <1>2, ChainIndices DEF Leads
  <1>4. QED
    BY <1>2, <1>3, LinkWords DEF Leads, LiveEnd

\* The next cluster on the path, or its end.
LEMMA PathGoesOn ==
  ASSUME TableInv, NEW f \in Files, size[f] > 0, NEW i, OnPath(f, i)
  PROVE  \/ LiveEnd(f, i)
         \/ /\ Leads(f, i) /\ i + 1 \in DOMAIN Chain[f] /\ OnPath(f, i + 1)
            /\ fat[Chain[f][i]] = Word(Chain[f][i + 1])
  <1>1. PICK k \in DOMAIN Chain[f] : LiveEnd(f, k)
    BY DEF TableInv, LiveEnds
  <1>2. i \in Nat /\ k \in Nat /\ i >= 1 /\ i <= k /\ k <= Len(Chain[f])
    BY <1>1, PathBeforeEnd, ChainIndices DEF OnPath
  <1>3. CASE i = k
    BY <1>1, <1>3
  <1>4. CASE i < k
    <2>1. Leads(f, i)
      BY <1>1, <1>2, <1>4 DEF LiveEnd, OnPath
    <2>2. i + 1 \in DOMAIN Chain[f]
      BY <1>2, <1>4, ChainIndices
    <2>3. OnPath(f, i + 1)
      <3> SUFFICES ASSUME NEW j \in 1..(i + 1) - 1
                   PROVE  Leads(f, j)
        BY <2>2 DEF OnPath
      <3>1. j = i \/ j \in 1..i - 1
        BY <1>2
      <3>2. QED
        BY <2>1, <3>1 DEF OnPath
    <2>4. QED
      BY <2>1, <2>2, <2>3 DEF Leads
  <1>5. QED
    BY <1>2, <1>3, <1>4

-----------------------------------------------------------------------------
(***************************************************************************)
(* The table: what the two kinds of writes do to it.                       *)
(***************************************************************************)

LEMMA InitTableInv == Init => TableInv
  <1> SUFFICES ASSUME Init PROVE TableInv
    OBVIOUS
  <1>1. \A f \in Files : \A j \in DOMAIN Chain[f] : Linked(fat, f, j)
    BY LayoutAssumption DEF Init, FatInit
  <1>2. ChainWords
    BY <1>1 DEF ChainWords, Leads, Linked
  <1>3. LiveEnds
    <2> SUFFICES ASSUME NEW f \in Files, size[f] > 0
                 PROVE  \E k \in DOMAIN Chain[f] : LiveEnd(f, k)
      BY DEF LiveEnds
    <2>1. Chain[f] # <<>>
      BY DataHasCluster DEF Init
    <2>2. Len(Chain[f]) \in DOMAIN Chain[f]
      BY <2>1, ChainIndices
    <2>3. \A j \in 1..Len(Chain[f]) - 1 : Leads(f, j)
      BY <1>1, ChainIndices DEF Leads, Linked
    <2>4. fat[Chain[f][Len(Chain[f])]] = Word(FAT32_FAT_ENTRY_EOC)
      BY <1>1, <2>2, ChainIndices DEF Linked
    <2>5. QED
      BY <2>2, <2>3, <2>4 DEF LiveEnd, OnPath
  <1>4. NoLeadToFree
    <2> SUFFICES ASSUME NEW f \in Files, NEW j \in DOMAIN Chain[f], Leads(f, j)
                 PROVE  ~fat32_fat_entry_is_free(fat[Chain[f][j + 1]])
      BY DEF NoLeadToFree
    <2>1. j + 1 \in DOMAIN Chain[f]
      BY ChainIndices DEF Leads
    <2>2. CASE j + 1 < Len(Chain[f])
      <3>1. (j + 1) + 1 \in DOMAIN Chain[f]
        BY <2>1, <2>2, ChainIndices
      <3>2. QED
        BY <1>1, <2>1, <2>2, <3>1, LinkWords DEF Linked
    <2>3. CASE ~(j + 1 < Len(Chain[f]))
      BY <1>1, <2>1, <2>3, LinkWords DEF Linked
    <2>4. QED
      BY <2>2, <2>3
  <1>5. QED
    BY <1>2, <1>3, <1>4 DEF TableInv

\* A step that leaves the table alone, and at most makes files empty.
LEMMA SameTable ==
  ASSUME TypeOK, TableInv, fat' = fat,
         \A f \in Files : size'[f] \in {size[f], 0}
  PROVE  TableInv'
  <1>1. \A f, j : Leads(f, j)' = Leads(f, j)
    BY DEF Leads
  <1>2. \A f, k : LiveEnd(f, k)' = LiveEnd(f, k)
    BY <1>1 DEF LiveEnd, OnPath
  <1>3. QED
    BY <1>1, <1>2 DEF TableInv, ChainWords, LiveEnds, NoLeadToFree

\* The rest of a chain loses its first cluster.
LEMMA ClearCutOff ==
  ASSUME TypeOK, TableInv, NEW f \in Files, NEW m \in DOMAIN Chain[f], CutOff(f, m),
         fat' = [fat EXCEPT ![Chain[f][m]] = FAT32_FAT_ENTRY_EMPTY], size' = size
  PROVE  /\ TableInv'
         /\ ~Leads(f, m)'
         /\ \A k \in DOMAIN Chain[f] : k < m /\ LiveEnd(f, k) => LiveEnd(f, k)'
  <1>0. fat \in [Cells -> Entry]
    BY DEF TypeOK
  <1>1. \A g \in Files : \A j \in DOMAIN Chain[g] :
          fat'[Chain[g][j]] = IF g = f /\ j = m THEN FAT32_FAT_ENTRY_EMPTY
                                                ELSE fat[Chain[g][j]]
    BY <1>0, OnePlace
  <1>2. \A g \in Files : \A j \in DOMAIN Chain[g] :
          Leads(g, j) => j + 1 \in DOMAIN Chain[g]
    BY ChainIndices DEF Leads
  <1>3. ~Leads(f, m)'
    <2>1. m < Len(Chain[f]) => m + 1 \in DOMAIN Chain[f]
      BY ChainIndices
    <2>2. QED
      BY <1>1, <2>1, LinkWords DEF Leads
  <1>4. \A g \in Files : \A j \in DOMAIN Chain[g] :
          ~(g = f /\ j = m) => Leads(g, j)' = Leads(g, j)
    BY <1>1 DEF Leads
  <1>5. ChainWords'
    BY <1>1, <1>4 DEF TableInv, ChainWords
  <1>6. \A g \in Files : \A k : LiveEnd(g, k) /\ (g # f \/ k < m) => LiveEnd(g, k)'
    <2> SUFFICES ASSUME NEW g \in Files, NEW k, LiveEnd(g, k), g # f \/ k < m
                 PROVE  LiveEnd(g, k)'
      OBVIOUS
    <2>1. k \in DOMAIN Chain[g] /\ k \in Nat /\ m \in Nat /\ k <= Len(Chain[g])
      BY ChainIndices DEF LiveEnd, OnPath
    <2>2. \A j \in 1..k - 1 : j \in DOMAIN Chain[g] /\ ~(g = f /\ j = m)
      BY <2>1, ChainIndices
    <2>3. \A j \in 1..k - 1 : Leads(g, j)'
      BY <1>4, <2>2 DEF LiveEnd, OnPath
    <2>4. fat'[Chain[g][k]] = fat[Chain[g][k]]
      BY <1>1, <2>1
    <2>5. QED
      BY <2>1, <2>3, <2>4 DEF LiveEnd, OnPath
  <1>7. LiveEnds'
    BY <1>6 DEF TableInv, LiveEnds, CutOff
  <1>8. NoLeadToFree'
    <2> SUFFICES ASSUME NEW g \in Files, NEW j \in DOMAIN Chain[g], Leads(g, j)'
                 PROVE  ~fat32_fat_entry_is_free(fat'[Chain[g][j + 1]])
      BY DEF NoLeadToFree
    <2>1. Leads(g, j) /\ j + 1 \in DOMAIN Chain[g]
      BY <1>2, <1>3, <1>4
    <2>2. ~(g = f /\ j + 1 = m)
      <3> SUFFICES ASSUME g = f, j + 1 = m PROVE FALSE
        OBVIOUS
      <3>1. m > 1 /\ m - 1 = j
        BY ChainIndices
      <3>2. QED
        BY <2>1, <3>1 DEF CutOff
    <2>3. QED
      BY <1>1, <2>1, <2>2 DEF TableInv, NoLeadToFree
  <1>9. QED
    BY <1>3, <1>5, <1>6, <1>7, <1>8 DEF TableInv

\* The end mark is written to a cluster on the path.
LEMMA EndOnPath ==
  ASSUME TypeOK, TableInv, NEW f \in Files, NEW i, OnPath(f, i),
         fat' = [fat EXCEPT ![Chain[f][i]] = Word(FAT32_FAT_ENTRY_EOC)], size' = size
  PROVE  TableInv' /\ LiveEnd(f, i)'
  <1>0. fat \in [Cells -> Entry] /\ i \in DOMAIN Chain[f]
    BY DEF TypeOK, OnPath
  <1>1. \A g \in Files : \A j \in DOMAIN Chain[g] :
          fat'[Chain[g][j]] = IF g = f /\ j = i THEN Word(FAT32_FAT_ENTRY_EOC)
                                                ELSE fat[Chain[g][j]]
    BY <1>0, OnePlace
  <1>2. ~Leads(f, i)'
    <2>1. i < Len(Chain[f]) => i + 1 \in DOMAIN Chain[f]
      BY <1>0, ChainIndices
    <2>2. QED
      BY <1>0, <1>1, <2>1, LinkWords DEF Leads
  <1>3. \A g \in Files : \A j \in DOMAIN Chain[g] :
          ~(g = f /\ j = i) => Leads(g, j)' = Leads(g, j)
    BY <1>1 DEF Leads
  <1>4. ChainWords'
    BY <1>1, <1>3 DEF TableInv, ChainWords
  <1>5. LiveEnd(f, i)'
    <2>1. \A j \in 1..i - 1 : j \in DOMAIN Chain[f] /\ j # i
      BY <1>0, ChainIndices
    <2>2. QED
      BY <1>0, <1>1, <1>3, <2>1 DEF LiveEnd, OnPath
  <1>6. \A g \in Files : \A k : g # f /\ LiveEnd(g, k) => LiveEnd(g, k)'
    <2> SUFFICES ASSUME NEW g \in Files, NEW k, g # f, LiveEnd(g, k)
                 PROVE  LiveEnd(g, k)'
      OBVIOUS
    <2>1. k \in DOMAIN Chain[g] /\ \A j \in 1..k - 1 : j \in DOMAIN Chain[g]
      BY ChainIndices DEF LiveEnd, OnPath
    <2>2. QED
      BY <1>1, <1>3, <2>1 DEF LiveEnd, OnPath
  <1>7. LiveEnds'
    BY <1>0, <1>5, <1>6 DEF TableInv, LiveEnds
  <1>8. NoLeadToFree'
    <2> SUFFICES ASSUME NEW g \in Files, NEW j \in DOMAIN Chain[g], Leads(g, j)'
                 PROVE  ~fat32_fat_entry_is_free(fat'[Chain[g][j + 1]])
      BY DEF NoLeadToFree
    <2>1. Leads(g, j)
      BY <1>2, <1>3
    <2>2. j + 1 \in DOMAIN Chain[g]
      BY <2>1, ChainIndices DEF Leads
    <2>3. QED
      BY <1>1, <2>1, <2>2, LinkWords DEF TableInv, NoLeadToFree
  <1>9. QED
    BY <1>4, <1>5, <1>7, <1>8 DEF TableInv

-----------------------------------------------------------------------------
(***************************************************************************)
(* How much of a chain can be reached.                                     *)
(***************************************************************************)

LEMMA ReachedLive ==
  ASSUME NEW f \in Files, size[f] > 0, NEW k, LiveEnd(f, k)
  PROVE  Reached(f) = k
  <1> DEFINE Ends(x) ==
        /\ \A j \in 1..x - 1 : fat[Chain[f][j]] = Word(Chain[f][j + 1])
        /\ x = Len(Chain[f]) \/ fat[Chain[f][x]] # Word(Chain[f][x + 1])
  <1>1. k \in 1..Len(Chain[f]) /\ k \in Nat /\ Chain[f] # <<>> /\ size[f] # 0
    BY ChainIndices DEF LiveEnd, OnPath
  <1>2. Ends(k)
    <2>1. \A j \in 1..k - 1 : fat[Chain[f][j]] = Word(Chain[f][j + 1])
      BY DEF LiveEnd, OnPath, Leads
    <2>2. k # Len(Chain[f]) => k + 1 \in DOMAIN Chain[f]
      BY <1>1, ChainIndices
    <2>3. k # Len(Chain[f]) => fat[Chain[f][k]] # Word(Chain[f][k + 1])
      BY <2>2, LinkWords DEF LiveEnd
    <2>4. QED
      BY <2>1, <2>3
  <1>3. ASSUME NEW x \in 1..Len(Chain[f]), Ends(x)
        PROVE  x = k
    <2>1. CASE x < k
      BY <1>1, <1>3, <2>1, ChainIndices DEF LiveEnd, OnPath, Leads
    <2>2. CASE x > k
      <3>1. k \in 1..x - 1 /\ k + 1 \in DOMAIN Chain[f]
        BY <1>1, <2>2, ChainIndices
      <3>2. fat[Chain[f][k]] = Word(Chain[f][k + 1])
        BY <1>3, <3>1
      <3>3. QED
        BY <3>1, <3>2, LinkWords DEF LiveEnd
    <2>3. QED
      BY <1>1, <2>1, <2>2
  <1>4. Reached(f) = CHOOSE x \in 1..Len(Chain[f]) : Ends(x)
    BY <1>1 DEF Reached
  <1> HIDE DEF Ends
  <1>5. QED
    BY <1>1, <1>2, <1>3, <1>4

LEMMA ReachedType ==
  ASSUME TableInv, NEW f \in Files, size[f] \in Nat
  PROVE  Reached(f) \in Nat
  <1>1. CASE size[f] = 0
    BY <1>1 DEF Reached
  <1>2. CASE size[f] > 0
    <2>1. PICK k \in DOMAIN Chain[f] : LiveEnd(f, k)
      BY <1>2 DEF TableInv, LiveEnds
    <2>2. QED
      BY <1>2, <2>1, ReachedLive, ChainIndices
  <1>3. QED
    BY <1>1, <1>2

-----------------------------------------------------------------------------
(***************************************************************************)
(* Type correctness.                                                       *)
(***************************************************************************)

LEMMA SizeType ==
  ASSUME TypeOK
  PROVE  /\ \A f \in Files : size[f] \in Nat /\ size[f] \in 0..SizeSpace - 1
         /\ h.file \in Files /\ h.length \in Nat /\ h.next \in Nat
         /\ SizeSpace \in Nat \ {0} /\ 0 \in 0..SizeSpace - 1
  BY TruncateAssumption DEF TypeOK, HandlerType

LEMMA NoHandlerType ==
  ASSUME SizeSpace \in Nat \ {0}
  PROVE  NoHandler \in HandlerType
  <1>1. (CHOOSE f \in Files : TRUE) \in Files
    BY TruncateAssumption
  <1>2. QED
    BY <1>1 DEF NoHandler, HandlerType, Replies

LEMMA LengthType ==
  ASSUME TypeOK
  PROVE  length32 \in Nat /\ clusters \in Nat
  <1>1. PICK l \in Nat, s \in Nat \ {0}, c \in Nat \ {0} :
          l = h.length /\ s = SizeSpace /\ c = ClusterSize
    BY SizeType, TruncateAssumption
  <1>2. \A x \in Nat : x % s \in Nat /\ x \div c \in Nat
    BY <1>1
  <1>3. length32 \in Nat
    BY <1>1, <1>2 DEF length32
  <1>4. (length32 + ClusterSize - 1) \in Nat
    BY <1>1, <1>3
  <1>5. QED
    BY <1>1, <1>2, <1>3, <1>4 DEF clusters

LEMMA FirstClusterType ==
  ASSUME NEW f \in Files
  PROVE  fat32_fs_object_first_cluster(f) \in 0..ClusterSpace - 1
  <1>1. CASE Chain[f] = <<>>
    BY <1>1, ClusterSpaceAssumption DEF fat32_fs_object_first_cluster
  <1>2. CASE Chain[f] # <<>>
    <2>1. 1 \in DOMAIN Chain[f]
      BY <1>2, ChainIndices
    <2>2. Chain[f][1] \in Clusters
      BY <2>1, LayoutAssumption
    <2>3. QED
      BY <1>2, <2>2, ClusterNumbers DEF fat32_fs_object_first_cluster
  <1>3. QED
    BY <1>1, <1>2

\* Answers keep the type of the handler, and so do its moves.
LEMMA HandlerMoves ==
  ASSUME TypeOK
  PROVE  /\ \A r \in Replies : Reply(r) => h' \in HandlerType
         /\ \A code : reply_of(code) \in Replies /\ truncate_reply(code) \in Replies
         /\ \A p \in {"idle", "lookup", "empty", "nth", "entry", "last", "freeing"} :
               /\ [h EXCEPT !.pc = p] \in HandlerType
               /\ \A n \in Nat : [h EXCEPT !.pc = p, !.next = n] \in HandlerType
  BY DEF TypeOK, HandlerType, Reply, Replies, reply_of, truncate_reply

LEMMA InitTypeOK == Init => TypeOK
  <1> SUFFICES ASSUME Init PROVE TypeOK
    OBVIOUS
  <1>1. SizeSpace \in Nat \ {0}
    BY TruncateAssumption
  <1>2. QED
    BY <1>1, NoHandlerType, FatInitType, TruncateAssumption DEF Init, TypeOK, FatTypeOK

LEMMA NextTypeOK == TypeOK /\ TableInv /\ [Next]_vars => TypeOK'
  <1> SUFFICES ASSUME TypeOK, TableInv, [Next]_vars
               PROVE  TypeOK'
    OBVIOUS
  <1>0. FatTypeOK
    BY TableTypeOK
  <1>1. ASSUME NEW f \in Files, NEW length \in 0..MaxLength, truncate(f, length)
        PROVE  TypeOK'
    <2>1. Reached(f) \in Nat
      BY SizeType, ReachedType
    <2>2. length \in Nat
      BY TruncateAssumption
    <2>3. \A n, m \in Nat :
            [NoHandler EXCEPT !.file = f, !.length = n, !.pc = "lookup", !.had = m]
               \in HandlerType
      BY SizeType, NoHandlerType DEF HandlerType
    <2>4. h' \in HandlerType
      BY <1>1, <2>1, <2>2, <2>3 DEF truncate
    <2>5. QED
      BY <1>1, <2>4, EmptyIsEntry DEF truncate, TypeOK
  <1>2. CASE LookUpFails
    <2>1. h' \in HandlerType
      BY <1>2, HandlerMoves DEF LookUpFails
    <2>2. QED
      BY <1>2, <2>1 DEF LookUpFails, TypeOK
  <1>3. CASE LookUp
    <2> DEFINE found == [h EXCEPT !.fsize = size[h.file]]
    <2>1. /\ [found EXCEPT !.pc = "idle", !.reply = "0"] \in HandlerType
          /\ \A p \in {"empty", "nth"} : [found EXCEPT !.pc = p] \in HandlerType
      BY SizeType DEF TypeOK, HandlerType, Replies
    <2>2. [NoHandler EXCEPT !.reply = "abort"] \in HandlerType
      BY SizeType, NoHandlerType DEF HandlerType, Replies
    <2>3. h' \in HandlerType
      BY <1>3, <2>1, <2>2 DEF LookUp
    <2>4. call' \in CallType
      <3>1. CASE clusters > 0 /\ call' = [NoCall EXCEPT !.fn = "get_nth_entry", !.pc = "get",
                            !.cluster = fat32_fs_object_first_cluster(h.file),
                            !.left = clusters - 1,
                            !.entry = Word(fat32_fs_object_first_cluster(h.file))]
        <4>1. clusters - 1 \in Nat
          BY <3>1, LengthType
        <4>2. fat32_fs_object_first_cluster(h.file) \in 0..ClusterSpace - 1
          BY SizeType, FirstClusterType
        <4>3. fat32_fs_object_first_cluster(h.file) \in Nat
          BY <4>2, ClusterSpaceAssumption
        <4>4. Word(fat32_fs_object_first_cluster(h.file)) \in Entry
          BY <4>2, WordsAreEntries
        <4>5. QED
          BY <3>1, <4>1, <4>3, <4>4, EmptyIsEntry DEF CallType, FatFunctions
      <3>2. CASE call' = NoCall \/ UNCHANGED call
        BY <3>2, EmptyIsEntry DEF TypeOK
      <3>3. QED
        BY <1>3, <3>1, <3>2 DEF LookUp
    <2>5. QED
      BY <1>3, <2>3, <2>4 DEF LookUp, TypeOK
  <1>4. CASE MakeEmpty
    <2>1. fat32_fs_object_first_cluster(h.file) \in Nat
      BY SizeType, FirstClusterType, ClusterSpaceAssumption
    <2>2. h' \in HandlerType
      BY <1>4, <2>1, HandlerMoves DEF MakeEmpty
    <2>3. FatTypeOK'
      BY <1>0, <1>4, <2>1, FreshCallType DEF MakeEmpty
    <2>4. size' \in [Files -> 0..SizeSpace - 1]
      BY <1>4, SizeType DEF MakeEmpty, TypeOK
    <2>5. QED
      BY <2>2, <2>3, <2>4 DEF TypeOK, FatTypeOK
  <1>5. CASE MakeEmptyFails
    <2>1. h' \in HandlerType
      BY <1>5, HandlerMoves DEF MakeEmptyFails, Replies
    <2>2. size' \in [Files -> 0..SizeSpace - 1]
      BY <1>5, SizeType DEF MakeEmptyFails, TypeOK
    <2>3. QED
      BY <1>5, <2>1, <2>2 DEF MakeEmptyFails, TypeOK
  <1>6. CASE WalkToLast
    <2>1. FatTypeOK'
      BY <1>0, <1>6, NthType DEF WalkToLast
    <2>2. QED
      BY <1>6, <2>1 DEF WalkToLast, TypeOK, FatTypeOK
  <1>7. CASE WalkFails \/ WalkDone
    <2>1. h' \in HandlerType
      BY <1>7, HandlerMoves DEF WalkFails, WalkDone
    <2>2. QED
      BY <1>7, <2>1 DEF WalkFails, WalkDone, TypeOK
  <1>8. CASE ReadNext
    <2>1. fat32_fat_entry_to_cluster(call.entry) \in Nat
      BY <1>0, CallFields, EntryFields
    <2>2. PICK r \in get_entry(fat32_fat_entry_to_cluster(call.entry)) :
            \/ Reply(reply_of(r.ret)) /\ UNCHANGED fatvars
            \/ /\ h' = [h EXCEPT !.pc = "last", !.next = fat32_fat_entry_to_cluster(r.entry)]
               /\ mark_cluster_last(fat32_fat_entry_to_cluster(call.entry))
      BY <1>8 DEF ReadNext
    <2>3. fat32_fat_entry_to_cluster(r.entry) \in Nat
      BY <1>0, <2>1, GetEntryOutcome, EntryFields
    <2>4. h' \in HandlerType
      BY <2>2, <2>3, HandlerMoves
    <2>5. FatTypeOK'
      BY <1>0, <2>1, <2>2, FreshCallType DEF fatvars, FatTypeOK
    <2>6. QED
      BY <1>8, <2>4, <2>5 DEF ReadNext, TypeOK, FatTypeOK
  <1>9. CASE EndChain
    <2>1. FatTypeOK'
      BY <1>0, <1>9, MarkLastType DEF EndChain
    <2>2. QED
      BY <1>9, <2>1 DEF EndChain, TypeOK, FatTypeOK
  <1>10. CASE EndChainFails \/ Truncated
    <2>1. h' \in HandlerType
      BY <1>10, HandlerMoves DEF EndChainFails, Truncated
    <2>2. QED
      BY <1>10, <2>1 DEF EndChainFails, Truncated, TypeOK
  <1>11. CASE FreeRest
    <2>1. h' \in HandlerType
      BY <1>11, HandlerMoves DEF FreeRest
    <2>2. FatTypeOK'
      BY <1>0, <1>11, SizeType, FreshCallType DEF FreeRest
    <2>3. QED
      BY <1>11, <2>1, <2>2 DEF FreeRest, TypeOK, FatTypeOK
  <1>12. CASE FreeCluster
    <2>1. FatTypeOK'
      BY <1>0, <1>12, FreeChainType DEF FreeCluster
    <2>2. QED
      BY <1>12, <2>1 DEF FreeCluster, TypeOK, FatTypeOK
  <1>13. CASE Crash
    BY <1>13, SizeType, NoHandlerType, EmptyIsEntry DEF Crash, TypeOK
  <1>14. CASE UNCHANGED vars
    BY <1>14 DEF vars, TypeOK
  <1>15. QED
    BY <1>1, <1>2, <1>3, <1>4, <1>5, <1>6, <1>7, <1>8, <1>9, <1>10, <1>11, <1>12, <1>13,
       <1>14 DEF Next, Handler

-----------------------------------------------------------------------------
(***************************************************************************)
(* The position in the chain, action by action.                            *)
(***************************************************************************)

Position == HasData /\ WalksChain /\ EndsChain /\ FreesRest

LEMMA AtRest ==
  ASSUME h'.pc \in {"idle", "lookup"}
  PROVE  Position'
  BY DEF Position, HasData, WalksChain, EndsChain, FreesRest

\* What a step of the handler leaves of what was asked for.
LEMMA Asked ==
  ASSUME TypeOK, h'.length = h.length
  PROVE  clusters' = clusters
  BY DEF clusters, length32

LEMMA DataBeginsPath ==
  ASSUME TableInv, NEW f \in Files, size[f] > 0
  PROVE  /\ 1 \in DOMAIN Chain[f] /\ OnPath(f, 1)
         /\ fat32_fs_object_first_cluster(f) = Chain[f][1]
  <1>1. PICK k \in DOMAIN Chain[f] : LiveEnd(f, k)
    BY DEF TableInv, LiveEnds
  <1>2. 1 \in DOMAIN Chain[f] /\ Chain[f] # <<>>
    BY <1>1, ChainIndices
  <1>3. QED
    BY <1>2 DEF OnPath, fat32_fs_object_first_cluster

LEMMA LookUpInv ==
  ASSUME TruncateInv, LookUp
  PROVE  TableInv' /\ Position'
  <1>0. PICK f \in Files : f = h.file
    BY SizeType DEF TruncateInv
  <1>1. f = h.file /\ h.pc = "lookup" /\ h \in HandlerType
    BY <1>0 DEF TruncateInv, TypeOK, LookUp
  <1>2. TableInv'
    <2>1. fat' = fat /\ size' = size
      BY DEF LookUp
    <2>2. QED
      BY <2>1, SameTable DEF TruncateInv
  <1>3. CASE h'.pc = "idle"
    BY <1>2, <1>3, AtRest
  <1>4. CASE /\ length32 < size[f]
             /\ h' = [h EXCEPT !.fsize = size[f], !.pc = "empty"]
    <2>1. h'.pc = "empty" /\ h'.file = f
      BY <1>1, <1>4 DEF HandlerType
    <2>2. size[f] > 0
      BY <1>1, <1>4, SizeType, LengthType DEF TruncateInv
    <2>3. size' = size
      BY DEF LookUp
    <2>4. QED
      BY <1>2, <2>1, <2>2, <2>3 DEF Position, HasData, WalksChain, EndsChain, FreesRest
  <1>5. CASE /\ length32 < size[f] /\ clusters > 0
             /\ h' = [h EXCEPT !.fsize = size[f], !.pc = "nth"]
             /\ call' = [NoCall EXCEPT !.fn = "get_nth_entry", !.pc = "get",
                            !.cluster = fat32_fs_object_first_cluster(f),
                            !.left = clusters - 1,
                            !.entry = Word(fat32_fs_object_first_cluster(f))]
    <2>1. h'.pc = "nth" /\ h'.file = f /\ h'.length = h.length
      BY <1>1, <1>5 DEF HandlerType
    <2>2. size[f] > 0
      BY <1>1, <1>5, SizeType, LengthType DEF TruncateInv
    <2>3. size' = size /\ clusters' = clusters
      BY <2>1, Asked DEF LookUp, TruncateInv
    <2>4. /\ 1 \in DOMAIN Chain[f] /\ OnPath(f, 1)'
          /\ fat32_fs_object_first_cluster(f) = Chain[f][1]
      BY <1>1, <2>2, DataBeginsPath DEF TruncateInv, OnPath
    <2>5. /\ call'.cluster = Chain[f][1] /\ call'.entry = Word(Chain[f][1])
          /\ call'.left = clusters - 1 /\ call'.pc = "get"
      BY <1>5, <2>4 DEF NoCall
    <2>6. 1 + call'.left = clusters
      BY <2>5, LengthType DEF TruncateInv
    <2>7. HasData'
      BY <2>1, <2>2, <2>3 DEF HasData
    <2>8. WalksChain'
      BY <2>1, <2>3, <2>4, <2>5, <2>6 DEF WalksChain
    <2>9. QED
      BY <1>2, <2>1, <2>7, <2>8 DEF Position, EndsChain, FreesRest
  <1>6. QED
    <2>1. h' = [NoHandler EXCEPT !.reply = "abort"] => h'.pc = "idle"
      BY DEF NoHandler
    <2>2. h' = [h EXCEPT !.fsize = size[f], !.pc = "idle", !.reply = "0"] => h'.pc = "idle"
      BY <1>1 DEF HandlerType
    <2>3. QED
      BY <1>1, <1>3, <1>4, <1>5, <2>1, <2>2 DEF LookUp

LEMMA MakeEmptyInv ==
  ASSUME TruncateInv, MakeEmpty
  PROVE  TableInv' /\ Position'
  <1>0. PICK f \in Files : f = h.file
    BY SizeType DEF TruncateInv
  <1>1. f = h.file /\ h.pc = "empty" /\ h \in HandlerType /\ size \in [Files -> 0..SizeSpace - 1]
    BY <1>0 DEF TruncateInv, TypeOK, MakeEmpty
  <1>2. TableInv'
    <2>1. fat' = fat /\ \A g \in Files : size'[g] \in {size[g], 0}
      BY <1>1 DEF MakeEmpty, mark_cluster_chain_free
    <2>2. QED
      BY <2>1, SameTable DEF TruncateInv
  <1>3. size[f] > 0
    BY <1>1 DEF TruncateInv, HasData
  <1>4. 1 \in DOMAIN Chain[f] /\ fat32_fs_object_first_cluster(f) = Chain[f][1]
    BY <1>1, <1>3, DataBeginsPath DEF TruncateInv
  <1>5. h'.pc = "freeing" /\ h'.file = f
    BY <1>1 DEF MakeEmpty, HandlerType
  <1>6. call'.cluster = Chain[f][1] /\ call'.pc = "get"
    BY <1>1, <1>4 DEF MakeEmpty, mark_cluster_chain_free, NoCall
  <1>7. ~(size'[f] > 0)
    BY <1>1 DEF MakeEmpty
  <1>8. CutOff(f, 1)'
    BY <1>7 DEF CutOff
  <1>9. FreesRest'
    BY <1>4, <1>5, <1>6, <1>8 DEF FreesRest
  <1>10. QED
    BY <1>2, <1>5, <1>9 DEF Position, HasData, WalksChain, EndsChain

\* Steps that answer, or change nothing a position is about.
LEMMA QuietInv ==
  ASSUME TruncateInv,
         \/ \E f \in Files, length \in 0..MaxLength : truncate(f, length)
         \/ LookUpFails \/ MakeEmptyFails \/ WalkFails \/ EndChainFails \/ Truncated \/ Crash
  PROVE  TableInv' /\ Position'
  <1>1. fat' = fat
    BY DEF truncate, LookUpFails, MakeEmptyFails, WalkFails, EndChainFails, Truncated,
           Crash
  <1>2. size' = size \/ size' = [size EXCEPT ![h.file] = 0]
    BY DEF truncate, LookUpFails, MakeEmptyFails, WalkFails, EndChainFails, Truncated,
           Crash
  <1>3. \A f \in Files : size'[f] \in {size[f], 0}
    BY <1>2, SizeType DEF TruncateInv, TypeOK
  <1>4. TableInv'
    BY <1>1, <1>3, SameTable DEF TruncateInv
  <1>5. h'.pc \in {"idle", "lookup"}
    <2>1. \A r : Reply(r) => h'.pc = "idle"
      BY DEF TruncateInv, TypeOK, HandlerType, Reply
    <2>2. \A f, length : truncate(f, length) => h'.pc = "lookup"
      BY DEF truncate, NoHandler
    <2>3. Crash => h'.pc = "idle"
      BY DEF Crash, NoHandler
    <2>4. QED
      BY <2>1, <2>2, <2>3
      DEF LookUpFails, MakeEmptyFails, WalkFails, EndChainFails, Truncated
  <1>6. QED
    BY <1>4, <1>5, AtRest

\* The table and the file of a step that touches neither.
LEMMA Untouched ==
  ASSUME TruncateInv, fat' = fat, size' = size
  PROVE  /\ TableInv'
         /\ \A f, i : OnPath(f, i)' = OnPath(f, i) /\ LiveEnd(f, i)' = LiveEnd(f, i)
                      /\ Leads(f, i)' = Leads(f, i) /\ CutOff(f, i)' = CutOff(f, i)
  <1>1. TableInv'
    BY SameTable DEF TruncateInv
  <1>2. \A f, i : Leads(f, i)' = Leads(f, i)
    BY DEF Leads
  <1>3. \A f, i : OnPath(f, i)' = OnPath(f, i)
    BY <1>2 DEF OnPath
  <1>4. \A f, i : LiveEnd(f, i)' = LiveEnd(f, i)
    BY <1>3 DEF LiveEnd
  <1>5. \A f, i : CutOff(f, i)' = CutOff(f, i)
    BY <1>2, <1>4 DEF CutOff
  <1>6. QED
    BY <1>1, <1>2, <1>3, <1>4, <1>5

LEMMA WalkInv ==
  ASSUME TruncateInv, WalkToLast
  PROVE  TableInv' /\ Position'
  <1>0. PICK f \in Files : f = h.file
    BY SizeType DEF TruncateInv
  <1>1. /\ h.pc = "nth" /\ h' = h /\ fat' = fat /\ size' = size /\ call.pc = "get"
        /\ call \in CallType
    BY DEF WalkToLast, NthEnd, NthGet, TruncateInv, TypeOK
  <1>2. size[f] > 0
    BY <1>0, <1>1 DEF TruncateInv, HasData
  <1>3. TableInv'
    BY <1>1, Untouched
  <1>4. clusters' = clusters
    BY <1>1, Asked DEF TruncateInv
  <1>5. PICK i \in DOMAIN Chain[f] :
              /\ OnPath(f, i)
              /\ call.cluster = Chain[f][i] /\ call.entry = Word(Chain[f][i])
              /\ i + call.left = clusters
    BY <1>0, <1>1 DEF TruncateInv, WalksChain
  <1>6. OnPath(f, i)'
    BY <1>1, <1>5, Untouched
  <1>7. WalksChain'
    <2>1. CASE call'.pc = "idle" /\ call'.ret # FE_OK
      BY <1>1, <2>1 DEF WalksChain
    <2>2. CASE NthEnd
      <3>1. /\ call'.cluster = Chain[f][i] /\ call'.entry = Word(Chain[f][i])
            /\ call'.left = call.left /\ call.left = 0
        BY <1>1, <1>5, <2>2 DEF NthEnd, Return, CallType
      <3>2. QED
        BY <1>0, <1>1, <1>4, <1>5, <1>6, <3>1 DEF WalksChain
    <2>3. CASE NthGet
      <3>1. PICK r \in get_entry(call.cluster) :
            \/ r.ret # FE_OK /\ Return(r.ret)
            \/ /\ NthCode(r.entry) # FE_OK
               /\ call' = [call EXCEPT !.pc = "idle", !.entry = r.entry,
                                       !.ret = NthCode(r.entry)]
            \/ /\ r.ret = FE_OK /\ NthCode(r.entry) = FE_OK
               /\ call' = [call EXCEPT !.entry = r.entry, !.left = @ - 1,
                             !.cluster = fat32_fat_entry_to_cluster(r.entry)]
        BY <2>3 DEF NthGet
      <3>2. CASE \/ r.ret # FE_OK /\ Return(r.ret)
                 \/ /\ NthCode(r.entry) # FE_OK
                    /\ call' = [call EXCEPT !.pc = "idle", !.entry = r.entry,
                                       !.ret = NthCode(r.entry)]
        <4>1. call'.pc = "idle" /\ call'.ret # FE_OK
          BY <1>1, <3>2 DEF Return, CallType
        <4>2. QED
          BY <2>1, <4>1
      <3>3. CASE /\ r.ret = FE_OK /\ NthCode(r.entry) = FE_OK
                 /\ call' = [call EXCEPT !.entry = r.entry, !.left = @ - 1,
                               !.cluster = fat32_fat_entry_to_cluster(r.entry)]
        <4>1. r.entry = fat[Chain[f][i]]
          BY <1>5, <3>3, CallFields, GetEntryOutcome, TableTypeOK DEF TruncateInv
        <4>2. ~fat32_fat_entry_is_null(r.entry)
          BY <3>3 DEF NthCode, FE_OK, FE_CLUSTER_CHAIN_ENDED
        <4>3. /\ i + 1 \in DOMAIN Chain[f] /\ OnPath(f, i + 1)
              /\ r.entry = Word(Chain[f][i + 1])
          BY <1>2, <1>5, <4>1, <4>2, PathGoesOn, LinkWords DEF LiveEnd, TruncateInv
        <4>4. OnPath(f, i + 1)'
          BY <1>1, <4>3, Untouched
        <4>5. fat32_fat_entry_to_cluster(r.entry) = Chain[f][i + 1]
          BY <4>3, LinkWords
        <4>6. /\ call'.cluster = Chain[f][i + 1] /\ call'.entry = Word(Chain[f][i + 1])
              /\ call'.left = call.left - 1 /\ call'.pc = "get"
          BY <1>1, <3>3, <4>3, <4>5 DEF CallType
        <4>7. (i + 1) + call'.left = clusters
          <5>1. i \in Nat /\ call.left \in Nat
            BY ChainIndices, CallFields, TableTypeOK DEF TruncateInv
          <5>2. QED
            BY <1>5, <4>6, <5>1
        <4>8. QED
          BY <1>0, <1>1, <1>4, <4>3, <4>4, <4>6, <4>7 DEF WalksChain
      <3>4. QED
        BY <3>1, <3>2, <3>3
    <2>4. QED
      BY <2>2, <2>3 DEF WalkToLast
  <1>8. HasData'
    BY <1>0, <1>1, <1>2 DEF HasData
  <1>9. QED
    BY <1>1, <1>3, <1>7, <1>8 DEF Position, EndsChain, FreesRest

LEMMA WalkDoneInv ==
  ASSUME TruncateInv, WalkDone
  PROVE  TableInv' /\ Position'
  <1>1. /\ h.pc = "nth" /\ h'.pc = "entry" /\ h'.file = h.file /\ h'.length = h.length
        /\ fat' = fat /\ size' = size /\ call' = call /\ call.pc = "idle" /\ call.ret = FE_OK
    BY DEF WalkDone, TruncateInv, TypeOK, HandlerType
  <1>2. PICK i \in DOMAIN Chain[h.file] :
              /\ OnPath(h.file, i)
              /\ call.cluster = Chain[h.file][i] /\ call.entry = Word(Chain[h.file][i])
              /\ i + call.left = clusters
              /\ call.pc = "idle" => call.left = 0
    BY <1>1 DEF TruncateInv, WalksChain
  <1>3. clusters' = clusters
    BY <1>1, Asked DEF TruncateInv
  <1>4. PICK f : f = h.file
    OBVIOUS
  <1>5. OnPath(f, i)'
    BY <1>1, <1>2, <1>4, Untouched
  <1>6. WalksChain'
    BY <1>1, <1>2, <1>3, <1>4, <1>5 DEF WalksChain
  <1>7. HasData'
    BY <1>1 DEF TruncateInv, HasData
  <1>8. QED
    BY <1>1, <1>6, <1>7, Untouched DEF Position, EndsChain, FreesRest

LEMMA ReadNextInv ==
  ASSUME TruncateInv, ReadNext
  PROVE  TableInv' /\ Position'
  <1>0. PICK f \in Files : f = h.file
    BY SizeType DEF TruncateInv
  <1>1. h.pc = "entry" /\ size' = size /\ h \in HandlerType /\ call.pc = "idle" /\ call.ret = FE_OK
    BY DEF ReadNext, TruncateInv, TypeOK, WalksChain
  <1>2. size[f] > 0
    BY <1>0, <1>1 DEF TruncateInv, HasData
  <1>3. PICK i \in DOMAIN Chain[f] :
              /\ OnPath(f, i)
              /\ call.cluster = Chain[f][i] /\ call.entry = Word(Chain[f][i])
              /\ i + call.left = clusters
              /\ call.left = 0
    BY <1>0, <1>1 DEF TruncateInv, WalksChain
  <1>4. i = clusters
    BY <1>3, ChainIndices
  <1>5. fat32_fat_entry_to_cluster(call.entry) = Chain[f][i]
    BY <1>3, LinkWords
  <1>6. PICK r \in get_entry(Chain[f][i]) :
             \/ /\ r.ret # FE_OK
                /\ Reply(reply_of(r.ret))
                /\ UNCHANGED fatvars
             \/ /\ r.ret = FE_OK
                /\ h' = [h EXCEPT !.pc = "last",
                                  !.next = fat32_fat_entry_to_cluster(r.entry)]
                /\ mark_cluster_last(Chain[f][i])
    BY <1>5 DEF ReadNext
  <1>7. CASE /\ Reply(reply_of(r.ret))
             /\ UNCHANGED fatvars
    <2>1. fat' = fat /\ h'.pc = "idle"
      BY <1>1, <1>7 DEF Reply, HandlerType, fatvars
    <2>2. QED
      BY <1>1, <2>1, Untouched, AtRest
  <1>8. CASE /\ r.ret = FE_OK
             /\ h' = [h EXCEPT !.pc = "last",
                               !.next = fat32_fat_entry_to_cluster(r.entry)]
             /\ mark_cluster_last(Chain[f][i])
    <2>1. r.entry = fat[Chain[f][i]]
      BY <1>8, ChainCells, GetEntryOutcome, TableTypeOK DEF TruncateInv
    <2>2. \/ r.entry = Word(FAT32_FAT_ENTRY_EOC)
          \/ i + 1 \in DOMAIN Chain[f] /\ r.entry = Word(Chain[f][i + 1])
      BY <1>2, <1>3, <2>1, PathGoesOn DEF TruncateInv, LiveEnd
    <2>3. \/ fat32_fat_entry_to_cluster(r.entry) = FAT32_FAT_ENTRY_EOC
          \/ /\ i < Len(Chain[f])
             /\ fat32_fat_entry_to_cluster(r.entry) = Chain[f][i + 1]
      <3>1. CASE r.entry = Word(FAT32_FAT_ENTRY_EOC)
        BY <3>1, LinkWords
      <3>2. CASE i + 1 \in DOMAIN Chain[f] /\ r.entry = Word(Chain[f][i + 1])
        <4>1. i + 1 <= Len(Chain[f]) /\ i \in Nat /\ Len(Chain[f]) \in Nat
          BY <3>2, ChainIndices
        <4>2. i < Len(Chain[f])
          BY <4>1
        <4>3. QED
          BY <3>2, <4>2, LinkWords
      <3>3. QED
        BY <2>2, <3>1, <3>2
    <2>4. /\ h'.pc = "last" /\ h'.file = f /\ h'.length = h.length
          /\ h'.next = fat32_fat_entry_to_cluster(r.entry)
      BY <1>0, <1>1, <1>8 DEF HandlerType
    <2>5. fat' = fat /\ call'.pc = "set" /\ call'.cluster = Chain[f][i]
      BY <1>8 DEF mark_cluster_last, NoCall
    <2>6. clusters' = clusters
      BY <2>4, Asked DEF TruncateInv
    <2>7. OnPath(f, i)'
      BY <1>1, <1>3, <2>5, Untouched
    <2>8. EndsChain'
      BY <1>4, <2>3, <2>4, <2>5, <2>6, <2>7 DEF EndsChain
    <2>9. HasData'
      BY <1>1, <1>2, <2>4 DEF HasData
    <2>10. TableInv'
      BY <1>1, <2>5, Untouched
    <2>11. QED
      BY <2>4, <2>8, <2>9, <2>10 DEF Position, WalksChain, FreesRest
  <1>9. QED
    BY <1>6, <1>7, <1>8

LEMMA EndChainInv ==
  ASSUME TruncateInv, EndChain
  PROVE  TableInv' /\ Position'
  <1>0. PICK f \in Files : f = h.file
    BY SizeType DEF TruncateInv
  <1>1. h.pc = "last" /\ h' = h /\ size' = size /\ call \in CallType
    BY DEF EndChain, TruncateInv, TypeOK
  <1>2. PICK i \in DOMAIN Chain[f] :
            /\ OnPath(f, i) /\ i = clusters
            /\ call.cluster = Chain[f][i]
            /\ \/ h.next = FAT32_FAT_ENTRY_EOC
               \/ i < Len(Chain[f]) /\ h.next = Chain[f][i + 1]
    BY <1>0, <1>1 DEF TruncateInv, EndsChain
  <1>3. PICK w \in set_entry(call.cluster, Word(FAT32_FAT_ENTRY_EOC)) :
          fat' = w.fat /\ Return(IF w.ret = FE_ERRNO THEN FE_FS_INCONSISTENT ELSE FE_OK)
    BY DEF EndChain, MarkLastSet
  <1> DEFINE ended == [fat EXCEPT ![Chain[f][i]] = Word(FAT32_FAT_ENTRY_EOC)]
  <1>4. w.ret \in {FE_OK, FE_ERRNO} /\ w.fat \in {fat, ended} /\ (w.ret = FE_OK => w.fat = ended)
    <2>1. ended = [fat EXCEPT ![call.cluster] = Word(FAT32_FAT_ENTRY_EOC)]
      BY <1>2
    <2>2. QED
      BY <2>1, SetEntryOutcome
  <1>5. /\ call'.pc = "idle" /\ call'.cluster = Chain[f][i]
        /\ call'.ret = IF w.ret = FE_ERRNO THEN FE_FS_INCONSISTENT ELSE FE_OK
    BY <1>1, <1>2, <1>3 DEF Return, CallType
  <1>6. call'.ret = FE_OK => fat' = ended
    BY <1>3, <1>4, <1>5 DEF FE_OK, FE_FS_INCONSISTENT, FE_ERRNO
  <1>7. fat' = fat => TableInv' /\ OnPath(f, i)'
    BY <1>1, <1>2, Untouched
  <1>8. fat' = ended => TableInv' /\ LiveEnd(f, i)'
    BY <1>1, <1>2, EndOnPath DEF TruncateInv
  <1>9. TableInv' /\ OnPath(f, i)'
    BY <1>3, <1>4, <1>7, <1>8 DEF LiveEnd
  <1>10. call'.ret = FE_OK => fat'[Chain[f][i]] = Word(FAT32_FAT_ENTRY_EOC)
    BY <1>6, <1>8 DEF LiveEnd
  <1>11. clusters' = clusters
    BY <1>1, Asked DEF TruncateInv
  <1>12. EndsChain'
    BY <1>0, <1>1, <1>2, <1>5, <1>9, <1>10, <1>11 DEF EndsChain
  <1>13. HasData'
    BY <1>1 DEF TruncateInv, HasData
  <1>14. QED
    BY <1>1, <1>9, <1>12, <1>13 DEF Position, WalksChain, FreesRest

LEMMA FreeRestInv ==
  ASSUME TruncateInv, FreeRest
  PROVE  TableInv' /\ Position'
  <1>0. PICK f \in Files : f = h.file
    BY SizeType DEF TruncateInv
  <1>1. /\ h.pc = "last" /\ call.pc = "idle" /\ call.ret = FE_OK /\ size' = size /\ fat' = fat
        /\ call'.pc = "get" /\ call'.cluster = h.next
    BY DEF FreeRest, mark_cluster_chain_free, NoCall
  <1>2. h'.pc = "freeing" /\ h'.file = f
    BY <1>0 DEF FreeRest, TruncateInv, TypeOK, HandlerType
  <1>3. PICK i \in DOMAIN Chain[f] :
            /\ OnPath(f, i)
            /\ \/ h.next = FAT32_FAT_ENTRY_EOC
               \/ i < Len(Chain[f]) /\ h.next = Chain[f][i + 1]
            /\ fat[Chain[f][i]] = Word(FAT32_FAT_ENTRY_EOC)
    BY <1>0, <1>1 DEF TruncateInv, EndsChain
  <1>4. CASE i < Len(Chain[f]) /\ h.next = Chain[f][i + 1]
    <2>1. i \in Nat /\ i + 1 \in DOMAIN Chain[f] /\ (i + 1) - 1 = i /\ i < i + 1
      BY <1>4, ChainIndices
    <2>2. ~Leads(f, i)
      BY <1>3, <2>1, LinkWords DEF Leads
    <2>3. CutOff(f, i + 1)
      BY <1>3, <2>1, <2>2 DEF CutOff, LiveEnd
    <2>4. CutOff(f, i + 1)'
      BY <1>1, <2>3, Untouched
    <2>5. FreesRest'
      BY <1>1, <1>2, <1>4, <2>1, <2>4 DEF FreesRest
    <2>6. QED
      BY <1>1, <1>2, <2>5, Untouched DEF Position, HasData, WalksChain, EndsChain
  <1>5. CASE h.next = FAT32_FAT_ENTRY_EOC
    BY <1>1, <1>2, <1>5, Untouched
    DEF Position, HasData, WalksChain, EndsChain, FreesRest
  <1>6. QED
    BY <1>3, <1>4, <1>5

LEMMA FreeClusterInv ==
  ASSUME SmallDevice, TruncateInv, FreeCluster
  PROVE  TableInv' /\ Position'
  <1>0. PICK f \in Files : f = h.file
    BY SizeType DEF TruncateInv
  <1>1. h.pc = "freeing" /\ h' = h /\ size' = size /\ call \in CallType
    BY DEF FreeCluster, TruncateInv, TypeOK
  <1>2. TableInv' /\ FreesRest' => TableInv' /\ Position'
    BY <1>1 DEF Position, HasData, WalksChain, EndsChain
  <1>3. CASE FreeChainGet
    <2>1. call.pc = "get" /\ fat' = fat
      BY <1>3 DEF FreeChainGet
    <2>2. PICK r \in get_entry(call.cluster) :
            \/ r.ret # FE_OK /\ Return(r.ret)
            \/ Return(FE_INVALID_FS)
            \/ /\ r.ret = FE_OK /\ ~fat32_fat_entry_is_free(r.entry)
               /\ call' = [call EXCEPT !.pc = "set", !.entry = r.entry]
      BY <1>3 DEF FreeChainGet
    <2>3. (\E code : Return(code)) => call'.pc = "idle"
      BY <1>1 DEF Return, CallType
    <2>4. CASE call'.pc = "idle"
      BY <1>1, <1>2, <2>1, <2>4, Untouched DEF FreesRest
    <2>5. CASE /\ r.ret = FE_OK /\ ~fat32_fat_entry_is_free(r.entry)
               /\ call' = [call EXCEPT !.pc = "set", !.entry = r.entry]
      <3>1. r.entry = fat[call.cluster] /\ call.cluster \in Cells
        BY <2>5, CallFields, GetEntryOutcome, TableTypeOK DEF TruncateInv
      <3>2. call.cluster # FAT32_FAT_ENTRY_EOC
        BY <3>1, Words, FatTableAssumption DEF SmallDevice, Cells
      <3>3. PICK m \in DOMAIN Chain[f] : CutOff(f, m) /\ call.cluster = Chain[f][m]
        BY <1>0, <1>1, <2>1, <3>2 DEF TruncateInv, FreesRest
      <3>4. CutOff(f, m)'
        BY <1>1, <2>1, <3>3, Untouched
      <3>5. call'.cluster = Chain[f][m] /\ call'.entry = r.entry /\ call'.pc = "set"
        BY <1>1, <2>5, <3>3 DEF CallType
      <3>6. fat'[Chain[f][m]] = r.entry
        BY <2>1, <3>1, <3>3
      <3>7. FreesRest'
        BY <1>0, <1>1, <2>5, <3>4, <3>5, <3>6 DEF FreesRest
      <3>8. QED
        BY <1>1, <1>2, <2>1, <3>7, Untouched
    <2>6. QED
      BY <2>2, <2>3, <2>4, <2>5
  <1>4. CASE FreeChainSet
    <2>1. call.pc = "set"
      BY <1>4 DEF FreeChainSet
    <2>2. PICK w \in set_entry(call.cluster, FAT32_FAT_ENTRY_EMPTY) :
            /\ fat' = w.fat
            /\ \/ Return(FE_FS_INCONSISTENT)
               \/ call' = [call EXCEPT !.pc = "idle", !.ret = FE_OK,
                             !.cluster = fat32_fat_entry_to_cluster(call.entry)]
               \/ /\ w.ret = FE_OK /\ ~fat32_fat_entry_is_null(call.entry)
                  /\ call' = [call EXCEPT !.pc = "get",
                                !.cluster = fat32_fat_entry_to_cluster(call.entry)]
      BY <1>4 DEF FreeChainSet
    <2>3. PICK m \in DOMAIN Chain[f] :
              /\ CutOff(f, m) /\ call.cluster = Chain[f][m]
              /\ call.entry = fat[Chain[f][m]] /\ ~fat32_fat_entry_is_free(call.entry)
      BY <1>0, <1>1, <2>1 DEF TruncateInv, FreesRest
    <2> DEFINE cleared == [fat EXCEPT ![Chain[f][m]] = FAT32_FAT_ENTRY_EMPTY]
    <2>4. w.fat \in {fat, cleared} /\ (w.ret = FE_OK => w.fat = cleared)
      <3>1. cleared = [fat EXCEPT ![call.cluster] = FAT32_FAT_ENTRY_EMPTY]
        BY <2>3
      <3>2. QED
        BY <3>1, SetEntryOutcome
    <2>5. fat' = cleared => /\ TableInv' /\ ~Leads(f, m)'
                            /\ \A k \in DOMAIN Chain[f] :
                                  k < m /\ LiveEnd(f, k) => LiveEnd(f, k)'
      BY <1>1, <2>3, ClearCutOff DEF TruncateInv
    <2>6. TableInv'
      BY <1>1, <2>2, <2>4, <2>5, Untouched
    <2>7. CASE call'.pc = "idle"
      BY <1>1, <1>2, <2>6, <2>7 DEF FreesRest
    <2>8. CASE /\ w.ret = FE_OK /\ ~fat32_fat_entry_is_null(call.entry)
               /\ call' = [call EXCEPT !.pc = "get",
                                !.cluster = fat32_fat_entry_to_cluster(call.entry)]
      <3>1. Leads(f, m)
        BY <2>3, <2>8, LinkWords DEF TruncateInv, TableInv, ChainWords
      <3>2. /\ m + 1 \in DOMAIN Chain[f] /\ m \in Nat /\ (m + 1) - 1 = m /\ m < m + 1
        BY <3>1, ChainIndices DEF Leads
      <3>3. call'.cluster = Chain[f][m + 1] /\ call'.pc = "get"
        <4>1. fat32_fat_entry_to_cluster(call.entry) = Chain[f][m + 1]
          BY <2>3, <3>1, <3>2, LinkWords DEF Leads
        <4>2. QED
          BY <1>1, <2>8, <4>1 DEF CallType
      <3>4. fat' = cleared
        BY <2>2, <2>4, <2>8
      <3>5. CutOff(f, m + 1)'
        <4>1. size'[f] > 0 => \E k \in DOMAIN Chain[f] : k < m + 1 /\ LiveEnd(f, k)'
          <5> SUFFICES ASSUME size[f] > 0
                       PROVE  \E k \in DOMAIN Chain[f] : k < m + 1 /\ LiveEnd(f, k)'
            BY <1>1
          <5>1. PICK k \in DOMAIN Chain[f] : k < m /\ LiveEnd(f, k)
            BY <2>3 DEF CutOff
          <5>2. k < m + 1
            BY <3>2, <5>1, ChainIndices
          <5>3. QED
            BY <2>5, <3>4, <5>1, <5>2
        <4>2. ~Leads(f, (m + 1) - 1)'
          BY <2>5, <3>2, <3>4
        <4>3. QED
          BY <4>1, <4>2 DEF CutOff
      <3>6. FreesRest'
        BY <1>0, <1>1, <3>2, <3>3, <3>5 DEF FreesRest
      <3>7. QED
        BY <1>2, <2>6, <3>6
    <2>9. QED
      <3>1. Return(FE_FS_INCONSISTENT) => call'.pc = "idle"
        BY <1>1 DEF Return, CallType
      <3>2. call' = [call EXCEPT !.pc = "idle", !.ret = FE_OK,
                             !.cluster = fat32_fat_entry_to_cluster(call.entry)]
               => call'.pc = "idle"
        BY <1>1 DEF CallType
      <3>3. QED
        BY <2>2, <2>7, <2>8, <3>1, <3>2
  <1>5. QED
    BY <1>3, <1>4 DEF FreeCluster, FreeChainStep

-----------------------------------------------------------------------------
(***************************************************************************)
(* The theorems.                                                           *)
(***************************************************************************)

(***************************************************************************)
(* Every truncation, failed or cut off by a crash or not, stands where its *)
(* position in the chain says, in a table whose chains end.                *)
(***************************************************************************)
THEOREM TruncateInvariant ==
  ASSUME SmallDevice
  PROVE  Spec => []TruncateInv
  <1>1. Init => TruncateInv
    <2> SUFFICES ASSUME Init PROVE TruncateInv
      OBVIOUS
    <2>1. h.pc = "idle"
      BY DEF Init, NoHandler
    <2>2. QED
      BY <2>1, InitTypeOK, InitTableInv
      DEF TruncateInv, HasData, WalksChain, EndsChain, FreesRest
  <1>2. TruncateInv /\ [Next]_vars => TruncateInv'
    <2> SUFFICES ASSUME TruncateInv, [Next]_vars PROVE TruncateInv'
      OBVIOUS
    <2>1. TypeOK'
      BY NextTypeOK DEF TruncateInv
    <2>2. TableInv' /\ Position'
      <3>1. CASE UNCHANGED vars
        <4>1. h' = h /\ fat' = fat /\ size' = size /\ call' = call
          BY <3>1 DEF vars
        <4>2. clusters' = clusters
          BY <4>1, Asked DEF TruncateInv
        <4>3. /\ TableInv'
              /\ \A f, i : OnPath(f, i)' = OnPath(f, i) /\ CutOff(f, i)' = CutOff(f, i)
          BY <4>1, Untouched
        <4>4. HasData' /\ FreesRest'
          BY <4>1, <4>3 DEF TruncateInv, HasData, FreesRest
        <4>5. WalksChain' /\ EndsChain'
          BY <4>1, <4>2, <4>3 DEF TruncateInv, WalksChain, EndsChain
        <4>6. QED
          BY <4>3, <4>4, <4>5 DEF Position
      <3>2. QED
        BY <3>1, QuietInv, LookUpInv, MakeEmptyInv, WalkInv, WalkDoneInv, ReadNextInv,
           EndChainInv, FreeRestInv, FreeClusterInv
        DEF Next, Handler
    <2>3. QED
      BY <2>1, <2>2 DEF TruncateInv, Position
  <1>3. QED
    BY <1>1, <1>2, PTL DEF Spec

(***************************************************************************)
(* The variables keep their types.                                         *)
(***************************************************************************)
THEOREM TypesCorrect ==
  ASSUME SmallDevice
  PROVE  Spec => []TypeOK
  <1>1. TruncateInv => TypeOK
    BY DEF TruncateInv
  <1>2. QED
    BY <1>1, TruncateInvariant, PTL

(***************************************************************************)
(* A file that has data leads through clusters of its own to a proper end, *)
(* whatever calls failed or were cut off.                                  *)
(***************************************************************************)
THEOREM ChainsOfDataEnd ==
  ASSUME SmallDevice
  PROVE  Spec => []LiveChainsEnd
  <1>1. TruncateInv => LiveChainsEnd
    <2> SUFFICES ASSUME TruncateInv, NEW f \in Files, size[f] > 0
                 PROVE  \E k \in 1..Len(Chain[f]) :
                          /\ \A j \in 1..k - 1 : fat[Chain[f][j]] = Word(Chain[f][j + 1])
                          /\ fat[Chain[f][k]] = Word(FAT32_FAT_ENTRY_EOC)
      BY DEF LiveChainsEnd
    <2>1. PICK k \in DOMAIN Chain[f] : LiveEnd(f, k)
      BY DEF TruncateInv, TableInv, LiveEnds
    <2>2. QED
      BY <2>1, ChainIndices DEF LiveEnd, OnPath, Leads
  <1>2. QED
    BY <1>1, TruncateInvariant, PTL

(***************************************************************************)
(* The end of a chain is written before the rest of it is freed: no        *)
(* cluster leads to a free one, cut off from its file or not.              *)
(***************************************************************************)
THEOREM NothingLeadsToFree ==
  ASSUME SmallDevice
  PROVE  Spec => []NoLinkToFree
  <1>1. TruncateInv => NoLinkToFree
    <2> SUFFICES ASSUME TruncateInv, NEW f \in Files, NEW j \in 1..Len(Chain[f]) - 1,
                        fat[Chain[f][j]] = Word(Chain[f][j + 1])
                 PROVE  ~fat32_fat_entry_is_free(fat[Chain[f][j + 1]])
      BY DEF NoLinkToFree
    <2>1. j \in DOMAIN Chain[f] /\ j < Len(Chain[f])
      BY ChainIndices
    <2>2. QED
      BY <2>1 DEF Leads, TruncateInv, TableInv, NoLeadToFree
  <1>2. QED
    BY <1>1, TruncateInvariant, PTL

-----------------------------------------------------------------------------
(***************************************************************************)
(* What is kept.                                                           *)
(***************************************************************************)

\* Numbers that do not wrap.
LEMMA ModSmall == \A x, s \in Nat : x < s => x % s = x
  OBVIOUS

LEMMA ClustersNeeded ==
  ASSUME NoWrap, TypeOK, h.length <= MaxLength
  PROVE  clusters = Needed(h.length)
  <1>1. /\ h.length \in Nat /\ MaxLength \in Nat
        /\ SizeSpace \in Nat /\ ClusterSize \in Nat /\ ClusterSize > 0
    BY SizeType, TruncateAssumption
  <1>2. /\ h.length < SizeSpace
        /\ h.length + ClusterSize - 1 \in Nat /\ h.length + ClusterSize - 1 < SizeSpace
    BY <1>1 DEF NoWrap
  <1>3. length32 = h.length
    BY <1>1, <1>2, ModSmall DEF length32
  <1>4. (length32 + ClusterSize - 1) % SizeSpace = h.length + ClusterSize - 1
    BY <1>1, <1>2, <1>3, ModSmall
  <1>5. QED
    BY <1>4 DEF clusters, Needed

LEMMA ReachedSame ==
  ASSUME fat' = fat, size' = size
  PROVE  \A f : Reached(f)' = Reached(f)
  BY DEF Reached

\* A step that leaves the table and what was asked for alone.
LEMMA KeepSame ==
  ASSUME TypeOK, KeepInv, fat' = fat, size' = size,
         h'.file = h.file, h'.length = h.length, h'.had = h.had, h.pc # "idle",
         h'.pc = "empty" => clusters = 0
  PROVE  KeepInv'
  <1>1. Reached(h.file)' = Reached(h.file)
    BY ReachedSame DEF Reached
  <1>2. Kept'
    BY <1>1 DEF KeepInv, Kept, Needed
  <1>3. clusters' = clusters
    BY Asked
  <1>4. QED
    BY <1>2, <1>3 DEF KeepInv

\* A step after which as much can be reached as was needed, or as before.
LEMMA KeepReached ==
  ASSUME KeepInv, NEW f \in Files, f = h.file,
         h'.file = h.file, h'.length = h.length, h'.had = h.had, h.pc # "idle",
         h'.pc # "empty",
         \/ Reached(f)' = Reached(f)
         \/ Reached(f)' = Needed(h.length)
         \/ Needed(h.length) = 0 /\ Reached(f)' \in Nat,
         Needed(h.length) \in Nat
  PROVE  KeepInv'
  <1>1. Reached(h.file)' = Reached(f)'
    OBVIOUS
  <1>2. Needed(h.length)' = Needed(h.length)
    BY DEF Needed
  <1>3. Kept'
    BY <1>1, <1>2 DEF KeepInv, Kept
  <1>4. QED
    BY <1>3 DEF KeepInv

\* The same of the state after a step.
ReachesEnd == \A f \in Files : \A k : size[f] > 0 /\ LiveEnd(f, k) => Reached(f) = k

LEMMA ReachedLiveNext == ReachesEnd'
  <1>1. ReachesEnd
    BY ReachedLive DEF ReachesEnd
  <1>2. QED
    BY <1>1, PTL

\* Freeing the rest of a chain leaves what its file reaches.
LEMMA FreeKeepsReached ==
  ASSUME SmallDevice, TruncateInv, FreeCluster, NEW f \in Files, f = h.file
  PROVE  Reached(f)' = Reached(f)
  <1>1. h.pc = "freeing" /\ size' = size
    BY DEF FreeCluster
  <1>2. CASE fat' = fat
    BY <1>1, <1>2, ReachedSame
  <1>3. CASE fat' # fat
    <2>1. FreeChainSet
      BY <1>3 DEF FreeCluster, FreeChainStep, FreeChainGet
    <2>2. call.pc = "set"
      BY <2>1 DEF FreeChainSet
    <2>3. PICK m \in DOMAIN Chain[f] : CutOff(f, m) /\ call.cluster = Chain[f][m]
      BY <1>1, <2>2 DEF TruncateInv, FreesRest
    <2>4. PICK w \in set_entry(call.cluster, FAT32_FAT_ENTRY_EMPTY) : fat' = w.fat
      BY <2>1 DEF FreeChainSet
    <2>5. fat' = [fat EXCEPT ![Chain[f][m]] = FAT32_FAT_ENTRY_EMPTY]
      <3>1. w.fat \in {fat, [fat EXCEPT ![call.cluster] = FAT32_FAT_ENTRY_EMPTY]}
        BY SetEntryOutcome
      <3>2. QED
        BY <1>3, <2>3, <2>4, <3>1
    <2>6. CASE size[f] = 0
      BY <1>1, <2>6 DEF Reached
    <2>7. CASE size[f] > 0
      <3>1. PICK k \in DOMAIN Chain[f] : k < m /\ LiveEnd(f, k)
        BY <2>3, <2>7 DEF CutOff
      <3>2. LiveEnd(f, k)'
        BY <1>1, <2>3, <2>5, <3>1, ClearCutOff DEF TruncateInv
      <3>3. Reached(f) = k
        BY <2>7, <3>1, ReachedLive
      <3>4. Reached(f)' = k
        BY <1>1, <2>7, <3>2, ReachedLiveNext DEF ReachesEnd
      <3>5. QED
        BY <3>3, <3>4
    <2>8. size[f] \in Nat
      BY SizeType DEF TruncateInv
    <2>9. QED
      BY <2>6, <2>7, <2>8
  <1>4. QED
    BY <1>2, <1>3

\* Ending the chain leaves what it reached, or what is needed.
LEMMA EndKeepsNeeded ==
  ASSUME NoWrap, TruncateInv, KeepInv, EndChain, NEW f \in Files, f = h.file
  PROVE  Reached(f)' = Reached(f) \/ Reached(f)' = Needed(h.length)
  <1>1. h.pc = "last" /\ size' = size /\ size[f] > 0
    BY DEF EndChain, TruncateInv, HasData
  <1>2. PICK i \in DOMAIN Chain[f] :
            OnPath(f, i) /\ i = clusters /\ call.cluster = Chain[f][i]
    BY <1>1 DEF TruncateInv, EndsChain
  <1>3. PICK w \in set_entry(call.cluster, Word(FAT32_FAT_ENTRY_EOC)) : fat' = w.fat
    BY DEF EndChain, MarkLastSet
  <1>4. \/ fat' = fat
        \/ fat' = [fat EXCEPT ![Chain[f][i]] = Word(FAT32_FAT_ENTRY_EOC)]
    <2>1. w.fat \in {fat, [fat EXCEPT ![call.cluster] = Word(FAT32_FAT_ENTRY_EOC)]}
      BY SetEntryOutcome
    <2>2. QED
      BY <1>2, <1>3, <2>1
  <1>5. CASE fat' = fat
    BY <1>1, <1>5, ReachedSame
  <1>6. CASE fat' = [fat EXCEPT ![Chain[f][i]] = Word(FAT32_FAT_ENTRY_EOC)]
    <2>1. LiveEnd(f, i)'
      BY <1>1, <1>2, <1>6, EndOnPath DEF TruncateInv
    <2>2. Reached(f)' = i
      BY <1>1, <2>1, ReachedLiveNext DEF ReachesEnd
    <2>3. clusters = Needed(h.length)
      BY ClustersNeeded DEF TruncateInv, KeepInv
    <2>4. QED
      BY <1>2, <2>2, <2>3
  <1>7. QED
    BY <1>4, <1>5, <1>6

LEMMA KeepNext ==
  ASSUME SmallDevice, NoWrap, TruncateInv, KeepInv, [Next]_vars
  PROVE  KeepInv'
  <1>0. PICK f \in Files : f = h.file
    BY SizeType DEF TruncateInv
  <1>1. h \in HandlerType /\ TypeOK /\ clusters = Needed(h.length) /\ clusters \in Nat
    BY ClustersNeeded, LengthType DEF TruncateInv, TypeOK, KeepInv
  <1>2. ASSUME NEW r, Reply(r)
        PROVE  /\ h'.file = h.file /\ h'.length = h.length /\ h'.had = h.had
               /\ h'.pc = "idle"
    BY <1>1, <1>2 DEF Reply, HandlerType
  <1>3. ASSUME NEW p, h' = [h EXCEPT !.pc = p] \/ \E n : h' = [h EXCEPT !.pc = p, !.next = n]
        PROVE  /\ h'.file = h.file /\ h'.length = h.length /\ h'.had = h.had
               /\ h'.pc = p
    BY <1>1, <1>3 DEF HandlerType
  <1>4. ASSUME NEW g \in Files, NEW length \in 0..MaxLength, truncate(g, length)
        PROVE  KeepInv'
    <2>1. /\ h'.file = g /\ h'.length = length /\ h'.had = Reached(g) /\ h'.pc = "lookup"
          /\ fat' = fat /\ size' = size
      BY <1>4 DEF truncate, NoHandler
    <2>2. Reached(g)' = Reached(g) /\ Reached(g) \in Nat
      BY <2>1, ReachedSame, ReachedType, SizeType DEF TruncateInv
    <2>3. Reached(h.file)' = Reached(g)'
      BY <2>1 DEF Reached
    <2>4. Kept'
      BY <2>1, <2>2, <2>3 DEF Kept
    <2>5. length <= MaxLength
      BY TruncateAssumption
    <2>6. QED
      BY <2>1, <2>4, <2>5 DEF KeepInv
  <1>5. CASE LookUpFails \/ WalkFails \/ EndChainFails \/ Truncated
    <2>1. (\E r : Reply(r)) /\ fat' = fat /\ size' = size /\ h.pc # "idle"
      BY <1>5 DEF LookUpFails, WalkFails, EndChainFails, Truncated
    <2>2. QED
      BY <1>1, <1>2, <2>1, KeepSame
  <1>6. CASE WalkToLast \/ UNCHANGED vars
    <2>1. h' = h /\ fat' = fat /\ size' = size
      BY <1>6 DEF WalkToLast, NthEnd, NthGet, vars
    <2>2. clusters' = clusters /\ Reached(h.file)' = Reached(h.file)
      BY <1>1, <2>1, Asked, ReachedSame DEF Reached
    <2>3. QED
      BY <2>1, <2>2 DEF KeepInv, Kept, Needed
  <1>7. CASE WalkDone \/ FreeRest
    <2>1. /\ h' = [h EXCEPT !.pc = "entry"] \/ h' = [h EXCEPT !.pc = "freeing"]
          /\ fat' = fat /\ size' = size /\ h.pc # "idle"
      BY <1>7 DEF WalkDone, FreeRest, mark_cluster_chain_free
    <2>2. QED
      BY <1>1, <1>3, <2>1, KeepSame
  <1>8. CASE ReadNext
    <2>1. /\ \/ \E r : Reply(r)
             \/ \E n : h' = [h EXCEPT !.pc = "last", !.next = n]
          /\ fat' = fat /\ size' = size /\ h.pc # "idle"
      BY <1>8 DEF ReadNext, mark_cluster_last, fatvars
    <2>2. /\ h'.file = h.file /\ h'.length = h.length /\ h'.had = h.had /\ h'.pc # "empty"
      BY <1>2, <1>3, <2>1
    <2>3. QED
      BY <1>1, <2>1, <2>2, KeepSame
  <1>9. CASE LookUp
    <2>1. h.pc = "lookup" /\ fat' = fat /\ size' = size
      BY <1>9 DEF LookUp
    <2>2. CASE h' = [NoHandler EXCEPT !.reply = "abort"]
      <3>1. h'.pc = "idle" /\ h'.reply = "abort" /\ h'.length = 0
        BY <2>2 DEF NoHandler
      <3>2. QED
        BY <3>1, TruncateAssumption DEF KeepInv
    <2>3. CASE \E p \in {"idle", "empty", "nth"} :
                 /\ p = "empty" => clusters = 0
                 /\ \/ h' = [h EXCEPT !.fsize = size[f], !.pc = p]
                    \/ h' = [h EXCEPT !.fsize = size[f], !.pc = p, !.reply = "0"]
      <3>1. /\ h'.file = h.file /\ h'.length = h.length /\ h'.had = h.had
            /\ h'.pc = "empty" => clusters = 0
        BY <1>1, <2>3 DEF HandlerType
      <3>2. QED
        BY <1>1, <2>1, <3>1, KeepSame
    <2>4. \/ h' = [NoHandler EXCEPT !.reply = "abort"]
          \/ h' = [h EXCEPT !.fsize = size[f], !.pc = "idle", !.reply = "0"]
          \/ h' = [h EXCEPT !.fsize = size[f], !.pc = "empty"] /\ clusters = 0
          \/ h' = [h EXCEPT !.fsize = size[f], !.pc = "nth"]
      BY <1>0, <1>1, <1>9 DEF LookUp
    <2>5. QED
      BY <2>2, <2>3, <2>4
  <1>10. CASE MakeEmpty
    <2>1. \E n : h' = [h EXCEPT !.pc = "freeing", !.next = n]
      BY <1>10 DEF MakeEmpty
    <2>2. h.pc = "empty" /\ size'[f] = 0
      BY <1>0, <1>1, <1>10 DEF MakeEmpty, TypeOK
    <2>3. Reached(f)' = 0 /\ Needed(h.length) = 0
      BY <1>1, <2>2 DEF Reached, KeepInv
    <2>4. QED
      BY ZenonT(40), <1>0, <1>1, <1>3, <2>1, <2>2, <2>3, KeepReached
  <1>11. CASE MakeEmptyFails
    <2>1. (\E r : Reply(r)) /\ fat' = fat /\ h.pc = "empty"
      BY <1>11 DEF MakeEmptyFails
    <2>2. size' = size \/ size'[f] = 0
      BY <1>0, <1>1, <1>11 DEF MakeEmptyFails, TypeOK
    <2>3. Reached(f)' = Reached(f) \/ (Reached(f)' = 0 /\ Needed(h.length) = 0)
      <3>1. size' = size => Reached(f)' = Reached(f)
        BY <2>1, ReachedSame
      <3>2. size'[f] = 0 => Reached(f)' = 0
        BY DEF Reached
      <3>3. Needed(h.length) = 0
        BY <1>1, <2>1 DEF KeepInv
      <3>4. QED
        BY <2>2, <3>1, <3>2, <3>3
    <2>4. QED
      BY <1>0, <1>1, <1>2, <2>1, <2>3, KeepReached
  <1>12. CASE EndChain
    <2>1. h' = h /\ h.pc = "last"
      BY <1>12 DEF EndChain
    <2>2. Reached(f)' = Reached(f) \/ Reached(f)' = Needed(h.length)
      BY <1>0, <1>12, EndKeepsNeeded
    <2>3. QED
      BY <1>0, <1>1, <2>1, <2>2, KeepReached
  <1>13. CASE FreeCluster
    <2>1. h' = h /\ h.pc = "freeing"
      BY <1>13 DEF FreeCluster
    <2>2. Reached(f)' = Reached(f)
      BY <1>0, <1>13, FreeKeepsReached
    <2>3. QED
      BY <1>0, <1>1, <2>1, <2>2, KeepReached
  <1>14. CASE Crash
    <2>1. h'.pc = "idle" /\ h'.reply = "none" /\ h'.length = 0
      BY <1>14 DEF Crash, NoHandler
    <2>2. QED
      BY <2>1, TruncateAssumption DEF KeepInv
  <1>15. QED
    BY <1>4, <1>5, <1>6, <1>7, <1>8, <1>9, <1>10, <1>11, <1>12, <1>13, <1>14
    DEF Next, Handler

(***************************************************************************)
(* A truncation keeps what it was asked to keep, whatever its answer was,  *)
(* for the lengths whose number of clusters the code computes without a    *)
(* wrap of 32 bits.                                                        *)
(***************************************************************************)
THEOREM TruncationKeepsClusters ==
  ASSUME SmallDevice, NoWrap
  PROVE  Spec => []KeepsNeededClusters
  <1>1. Init => KeepInv
    <2> SUFFICES ASSUME Init PROVE KeepInv
      OBVIOUS
    <2>1. h.pc = "idle" /\ h.reply = "none" /\ h.length = 0
      BY DEF Init, NoHandler
    <2>2. QED
      BY <2>1, TruncateAssumption DEF KeepInv
  <1>2. TruncateInv /\ KeepInv /\ [Next]_vars => KeepInv'
    BY KeepNext
  <1>3. KeepInv => KeepsNeededClusters
    BY DEF KeepInv, Kept, KeepsNeededClusters
  <1>4. Spec => []TruncateInv
    BY TruncateInvariant
  <1>5. QED
    BY <1>1, <1>2, <1>3, <1>4, PTL DEF Spec

=============================================================================
