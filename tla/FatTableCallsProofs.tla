------------------------ MODULE FatTableCallsProofs ------------------------
(***************************************************************************)
(* Proofs about FatTableCalls, for a table of any size with any contents:  *)
(* what freeing a chain may change, and that the results of freeing a      *)
(* chain, of following one and of looking for a free cluster are true.     *)
(*                                                                         *)
(* The chain is a recursive function of the table, on which the provers    *)
(* have no induction theorem to use; the least element of a set of natural *)
(* numbers takes its place: the first index at which a claim would fail.   *)
(***************************************************************************)
EXTENDS FatTableCalls, FatTableProofs, FiniteSetTheorems, WellFoundedInduction

-----------------------------------------------------------------------------
(***************************************************************************)
(* The chain of a cluster.                                                 *)
(***************************************************************************)

LEMMA LeastNumber ==
  ASSUME NEW S \in SUBSET Nat, S # {}
  PROVE  \E n \in S : \A m \in S : n <= m
  <1>1. IsWellFoundedOn(OpToRel(<, Nat), Nat)
    BY NatLessThanWellFounded
  <1>2. PICK n \in S : \A m \in S : ~ (<<m, n>> \in OpToRel(<, Nat))
    BY <1>1, WFMin
  <1>3. \A m \in S : ~ (m < n)
    BY <1>2 DEF OpToRel
  <1>4. QED
    BY <1>3

\* w is the chain of s on the table f, as far as its n-th cluster.
IsWalk(f, s, w, n) == w = [k \in 0..n |-> IF k = 0 THEN s ELSE NextOf(f, w[k - 1])]

LEMMA WalkExists ==
  ASSUME NEW f, NEW s, NEW n \in Nat
  PROVE  \E w : IsWalk(f, s, w, n)
  <1> DEFINE Without == {m \in Nat : ~ \E w : IsWalk(f, s, w, m)}
  <1>1. SUFFICES ASSUME Without # {} PROVE FALSE
    OBVIOUS
  <1>2. PICK m \in Without : \A l \in Without : m <= l
    BY <1>1, LeastNumber
  <1>3. CASE m = 0
    <2>1. IsWalk(f, s, [k \in 0..0 |-> s], 0)
      BY DEF IsWalk
    <2>2. QED
      BY <1>2, <1>3, <2>1
  <1>4. CASE m # 0
    <2>1. m - 1 \in Nat /\ m - 1 \notin Without
      BY <1>2, <1>4
    <2>2. PICK w : IsWalk(f, s, w, m - 1)
      BY <2>1
    <2> DEFINE v == [k \in 0..m |-> IF k = m THEN NextOf(f, w[m - 1]) ELSE w[k]]
    <2>3. \A k \in 0..m : v[k] = IF k = 0 THEN s ELSE NextOf(f, v[k - 1])
      <3>1. \A k \in 0..m - 1 : w[k] = IF k = 0 THEN s ELSE NextOf(f, w[k - 1])
        BY <2>2 DEF IsWalk
      <3> TAKE k \in 0..m
      <3>2. CASE k = m
        BY <1>4, <3>2, <2>1
      <3>3. CASE k # m
        <4>1. k \in 0..m - 1 /\ v[k] = w[k] /\ (k # 0 => k - 1 \in 0..m /\ v[k - 1] = w[k - 1])
          BY <3>3, <2>1
        <4>2. QED
          BY <3>1, <4>1
      <3>4. QED
        BY <3>2, <3>3
    <2>4. IsWalk(f, s, v, m)
      <3>1. v = [k \in 0..m |-> v[k]]
        OBVIOUS
      <3> HIDE DEF v
      <3>2. QED
        BY <2>3, <3>1 DEF IsWalk
    <2>5. QED
      BY <1>2, <2>4
  <1>5. QED
    BY <1>3, <1>4

LEMMA WalkSteps ==
  ASSUME NEW f, NEW s
  PROVE  /\ Walk(f, s)[0] = s
         /\ \A k \in 0..DeviceCells - 1 : Walk(f, s)[k + 1] = NextOf(f, Walk(f, s)[k])
  <1>1. DeviceCells \in Nat
    BY FatTableAssumption
  <1>2. PICK w : IsWalk(f, s, w, DeviceCells)
    BY <1>1, WalkExists
  <1> DEFINE v == Walk(f, s)
  <1>3. v = [k \in 0..DeviceCells |-> IF k = 0 THEN s ELSE NextOf(f, v[k - 1])]
    BY <1>2 DEF IsWalk, Walk
  <1> HIDE DEF v
  <1>4. \A k \in 0..DeviceCells : v[k] = IF k = 0 THEN s ELSE NextOf(f, v[k - 1])
    BY <1>3
  <1>5. v[0] = s
    BY <1>1, <1>4
  <1>6. ASSUME NEW k \in 0..DeviceCells - 1 PROVE v[k + 1] = NextOf(f, v[k])
    <2>1. k + 1 \in 0..DeviceCells /\ k + 1 # 0 /\ (k + 1) - 1 = k
      BY <1>1
    <2>2. QED
      BY <1>4, <2>1
  <1>7. QED
    BY <1>5, <1>6 DEF v

\* Stop is no cell, and nothing follows it.
LEMMA NothingFollowsStop ==
  /\ Stop \notin Cells
  /\ \A c \in 0..DeviceCells : c # Stop
  /\ \A v \in 0..ClusterSpace - 1 : v # Stop
  /\ \A f : NextOf(f, Stop) = Stop
  BY FatTableAssumption, ClusterSpaceAssumption DEF Stop, Cells, NextOf

\* What comes after a cluster that is off the device or leads nowhere.
LEMMA AfterTheLast ==
  ASSUME NEW f, NEW s, NEW j \in 0..DeviceCells,
         Walk(f, s)[j] \notin Cells \/ ~Follows(f[Walk(f, s)[j]])
  PROVE  \A k \in j + 1..DeviceCells : Walk(f, s)[k] = Stop
  <1> DEFINE w == Walk(f, s)
             Going == {k \in j + 1..DeviceCells : w[k] # Stop}
  <1>0. DeviceCells \in Nat
    BY FatTableAssumption
  <1>1. SUFFICES ASSUME Going # {} PROVE FALSE
    OBVIOUS
  <1>2. Going \subseteq Nat
    BY <1>0
  <1>3. PICK k \in Going : \A l \in Going : k <= l
    BY <1>1, <1>2, LeastNumber
  <1>4. k - 1 \in 0..DeviceCells - 1 /\ k - 1 \in j..DeviceCells /\ (k - 1) + 1 = k
    BY <1>0
  <1>5. w[k] = NextOf(f, w[k - 1])
    BY <1>4, WalkSteps
  <1>6. CASE k - 1 = j
    BY <1>5, <1>6 DEF NextOf
  <1>7. CASE k - 1 # j
    <2>1. k - 1 \in j + 1..DeviceCells /\ ~ (k <= k - 1)
      BY <1>0, <1>4, <1>7
    <2>2. w[k - 1] = Stop
      BY <1>3, <2>1
    <2>3. QED
      BY <1>3, <1>5, <2>2, NothingFollowsStop
  <1>8. QED
    BY <1>6, <1>7

\* A chain that comes back to a cluster stays among the clusters before it.
LEMMA ACircleStays ==
  ASSUME NEW f, NEW s, NEW k \in 0..DeviceCells, NEW j \in 0..k - 1,
         Walk(f, s)[k] = Walk(f, s)[j]
  PROVE  \A m \in 0..DeviceCells : \E i \in 0..k - 1 : Walk(f, s)[m] = Walk(f, s)[i]
  <1> DEFINE w == Walk(f, s)
             Away == {m \in 0..DeviceCells : ~ \E i \in 0..k - 1 : w[m] = w[i]}
  <1>0. DeviceCells \in Nat
    BY FatTableAssumption
  <1>1. SUFFICES ASSUME Away # {} PROVE FALSE
    OBVIOUS
  <1>a. Away \subseteq Nat
    BY <1>0
  <1>2. PICK m \in Away : \A l \in Away : m <= l
    BY <1>1, <1>a, LeastNumber
  <1>3. m > k
    <2>1. m \notin 0..k - 1 /\ m # k
      BY <1>2
    <2>2. QED
      BY <1>0, <2>1
  <1>4. m - 1 \in 0..DeviceCells - 1 /\ (m - 1) + 1 = m /\ m - 1 \in 0..DeviceCells
        /\ ~ (m <= m - 1)
    BY <1>0, <1>3
  <1>5. PICK i \in 0..k - 1 : w[m - 1] = w[i]
    BY <1>2, <1>4
  <1>6. i \in 0..DeviceCells - 1
    BY <1>0
  <1>7. w[m] = w[i + 1]
    <2>1. w[(m - 1) + 1] = NextOf(f, w[m - 1]) /\ w[i + 1] = NextOf(f, w[i])
      BY <1>4, <1>6, WalkSteps
    <2>2. QED
      BY <1>4, <1>5, <2>1
  <1>8. i + 1 \in 0..k - 1 \/ i + 1 = k
    OBVIOUS
  <1>9. QED
    BY <1>2, <1>7, <1>8

-----------------------------------------------------------------------------
(***************************************************************************)
(* The invariant.                                                          *)
(***************************************************************************)

\* The chain of the last call's cluster, as it was when the call was made.
TheWalk == Walk(before, start.cluster)

\* The first k clusters of the chain are on the device and each leads to
\* the next one.
Leads(k) == \A i \in 0..k - 1 : TheWalk[i] \in Cells /\ Follows(before[TheWalk[i]])

Visited(k) == {TheWalk[i] : i \in 0..k - 1}

\* Those clusters are different ones and are the ones that were emptied.
Emptied(k) ==
    /\ \A i \in 0..k - 1 : TheWalk[i] \in Cells
    /\ \A i, j \in 0..k - 1 : TheWalk[i] = TheWalk[j] => i = j
    /\ \A c \in Visited(k) : fat[c] = FAT32_FAT_ENTRY_EMPTY
    /\ \A c \in Cells \ Visited(k) : fat[c] = before[c]

Damaged(e) == fat32_fat_entry_is_free(e) \/ fat32_fat_entry_is_bad(e)

\* What the result of freeing says of the k clusters it has emptied.
FreeAnswer(k) ==
    /\ call.ret = FE_OK =>
         k > 0 /\ Leads(k - 1) /\ fat32_fat_entry_is_null(before[TheWalk[k - 1]])
    /\ call.ret = FE_INVALID_FS =>
         /\ Leads(k) /\ TheWalk[k] \in Cells
         /\ TheWalk[k] \in Visited(k) \/ Damaged(before[TheWalk[k]])
    /\ call.ret = FE_INVALID_DEV /\ FE_INVALID_DEV \notin ReadFaults =>
         Leads(k) /\ TheWalk[k] \notin Cells

FreeInv ==
    call.fn = "mark_cluster_chain_free" =>
        \E k \in 0..DeviceCells :
            /\ Emptied(k)
            /\ call.pc = "get" => Leads(k) /\ call.cluster = TheWalk[k]
            /\ call.pc = "set" =>
                 /\ Leads(k) /\ call.cluster = TheWalk[k]
                 /\ TheWalk[k] \in Cells \ Visited(k)
                 /\ call.entry = before[TheWalk[k]] /\ ~Damaged(call.entry)
            /\ call.pc = "idle" => FreeAnswer(k)

\* What the result of following links says of the i links it has followed.
NthAnswer(i) ==
    /\ call.ret = FE_OK => fat32_fat_entry_to_cluster(call.entry) = TheWalk[start.left]
    /\ call.ret \in {FE_CLUSTER_CHAIN_ENDED, FE_INVALID_FS} =>
         Leads(i) /\ i < start.left /\ TheWalk[i] \in Cells
    /\ call.ret = FE_CLUSTER_CHAIN_ENDED => fat32_fat_entry_is_null(before[TheWalk[i]])
    /\ call.ret = FE_INVALID_FS =>
         Damaged(before[TheWalk[i]]) /\ ~fat32_fat_entry_is_null(before[TheWalk[i]])

NthInv ==
    call.fn = "get_nth_entry" =>
        /\ fat = before
        /\ start.left \in 0..MaxLinks
        /\ \E i \in 0..start.left :
            /\ call.pc = "get" =>
                 /\ Leads(i) /\ call.left = start.left - i
                 /\ call.cluster = TheWalk[i]
                 /\ fat32_fat_entry_to_cluster(call.entry) = TheWalk[i]
            /\ call.pc # "get" => call.pc = "idle" /\ NthAnswer(i)

\* What a search that is over has done: the hint is the first free cluster from
\* where the search began, or it has not moved.
FreeFrom(c) == {d \in FreeClusters : c <= d}

FindAnswer ==
    \/ /\ hint \in FreeFrom(start.cluster)
       /\ \A c \in FreeFrom(start.cluster) : hint <= c
    \/ /\ FreeFrom(start.cluster) = {}
       /\ hint = start.cluster
       /\ call.ret = FE_FS_IS_FULL
    \/ /\ hint = start.cluster
       /\ call.ret \in ReadFaults

\* A search has found none of the clusters behind it free, and the hint is
\* where it began until it finds one.
FindInv ==
    /\ hint >= FAT32_MIN_CLUSTER_NUMBER
    /\ call.fn = "find_free_cluster" =>
         /\ call.pc = "get" =>
              /\ hint = start.cluster /\ hint <= call.cluster
              /\ \A c \in FreeFrom(start.cluster) : call.cluster <= c
         /\ call.pc # "get" => call.pc = "idle" /\ FindAnswer

\* The part of the invariant that only says what the variables hold.
CallsTypeOK ==
    /\ FatTypeOK
    /\ hint \in 0..DeviceCells
    /\ before \in [Cells -> Entry]
    /\ start.cluster \in 0..DeviceCells

CallsInv == CallsTypeOK /\ FreeInv /\ NthInv /\ FindInv

-----------------------------------------------------------------------------
(***************************************************************************)
(* Facts about the invariant's parts.                                      *)
(***************************************************************************)

\* What is neither damaged nor null leads to another cluster.
LEMMA WhatLeadsOn ==
  ASSUME NEW e, ~Damaged(e), ~fat32_fat_entry_is_null(e)
  PROVE  Follows(e)
  BY DEF Damaged, Follows, Ends, fat32_fat_entry_is_null

LEMMA LeadsOn ==
  ASSUME NEW k \in 0..DeviceCells, k + 1 <= DeviceCells, Leads(k),
         TheWalk[k] \in Cells, Follows(before[TheWalk[k]])
  PROVE  Leads(k + 1) /\ TheWalk[k + 1] = before[TheWalk[k]].value
  <1>1. DeviceCells \in Nat
    BY FatTableAssumption
  <1>2. \A i \in 0..(k + 1) - 1 : i \in 0..k - 1 \/ i = k
    OBVIOUS
  <1>3. Leads(k + 1)
    BY <1>2 DEF Leads
  <1>4. TheWalk[k + 1] = NextOf(before, TheWalk[k])
    <2>1. k \in 0..DeviceCells - 1
      BY <1>1
    <2>2. QED
      BY <2>1, WalkSteps DEF TheWalk
  <1>5. QED
    BY <1>3, <1>4 DEF NextOf

\* The cluster a chain has led to is one the code may see.
LEMMA LeadsSomewhere ==
  ASSUME CallsTypeOK, NEW k \in 0..DeviceCells, Leads(k)
  PROVE  TheWalk[k] # Stop
  <1>1. DeviceCells \in Nat
    BY FatTableAssumption
  <1>2. CASE k = 0
    BY <1>2, WalkSteps, NothingFollowsStop DEF TheWalk, CallsTypeOK
  <1>3. CASE k # 0
    <2>1. k - 1 \in 0..k - 1 /\ k - 1 \in 0..DeviceCells - 1 /\ (k - 1) + 1 = k
      BY <1>1, <1>3
    <2>2. TheWalk[k - 1] \in Cells /\ Follows(before[TheWalk[k - 1]])
      BY <2>1 DEF Leads
    <2>3. TheWalk[(k - 1) + 1] = NextOf(before, TheWalk[k - 1])
      BY <2>1, WalkSteps DEF TheWalk
    <2>4. TheWalk[k] = before[TheWalk[k - 1]].value
      BY <2>1, <2>2, <2>3 DEF NextOf
    <2>5. before[TheWalk[k - 1]] \in Entry
      BY <2>2 DEF CallsTypeOK
    <2>6. before[TheWalk[k - 1]].value \in 0..ClusterSpace - 1
      BY <2>5, EntryFields
    <2>7. QED
      BY <2>4, <2>6, NothingFollowsStop
  <1>4. QED
    BY <1>2, <1>3

\* There are no more different clusters than the device has cells.
LEMMA CellsAreFew ==
  ASSUME NEW k \in 0..DeviceCells, Emptied(k), TheWalk[k] \in Cells \ Visited(k)
  PROVE  k + 1 <= DeviceCells
  <1>1. DeviceCells \in Nat
    BY FatTableAssumption
  <1>2. SUFFICES ASSUME k = DeviceCells PROVE FALSE
    BY <1>1
  <1> DEFINE g == [i \in 0..k |-> TheWalk[i]]
  <1>3. IsFiniteSet(0..k) /\ Cardinality(0..k) = k + 1
    BY <1>1, FS_Interval
  <1>4. IsFiniteSet(Cells) /\ Cardinality(Cells) = DeviceCells
    <2>1. DeviceCells # 0
      BY FatTableAssumption
    <2>2. QED
      BY <1>1, <2>1, FS_Interval DEF Cells
  <1>5. \A i \in 0..k : i \in 0..k - 1 \/ i = k
    OBVIOUS
  <1>6. g \in [0..k -> Cells]
    BY <1>5 DEF Emptied
  <1>7. \A i, j \in 0..k : g[i] = g[j] => i = j
    <2>1. \A i \in 0..k - 1 : TheWalk[i] # TheWalk[k]
      BY DEF Visited
    <2>2. QED
      BY <1>5, <2>1 DEF Emptied
  <1> HIDE DEF g
  <1>8. Cardinality(Cells) < Cardinality(0..k)
    BY <1>1, <1>2, <1>3, <1>4
  <1>9. \E i, j \in 0..k : i # j /\ g[i] = g[j]
    BY <1>3, <1>4, <1>6, <1>8, FS_PigeonHole
  <1>10. QED
    BY <1>7, <1>9

\* Nothing is emptied when the call is made.
LEMMA NothingEmptied == fat = before => Emptied(0) /\ Leads(0)
  BY DEF Emptied, Leads, Visited

LEMMA WalkBegins == TheWalk[0] = start.cluster
  BY WalkSteps DEF TheWalk

\* Emptying the next cluster.
LEMMA EmptiedGrows ==
  ASSUME CallsTypeOK, NEW k \in 0..DeviceCells, Emptied(k),
         TheWalk[k] \in Cells \ Visited(k), UNCHANGED <<before, start>>,
         fat' = [fat EXCEPT ![TheWalk[k]] = FAT32_FAT_ENTRY_EMPTY]
  PROVE  Emptied(k + 1)'
  <1>1. TheWalk' = TheWalk /\ before' = before
    BY DEF TheWalk
  <1>2. \A i \in 0..(k + 1) - 1 : i \in 0..k - 1 \/ i = k
    OBVIOUS
  <1>3. k \in 0..(k + 1) - 1 /\ \A i \in 0..k - 1 : i \in 0..(k + 1) - 1 /\ TheWalk[i] # TheWalk[k]
    BY DEF Visited
  <1>4. Visited(k + 1) = Visited(k) \cup {TheWalk[k]}
    BY <1>2, <1>3 DEF Visited
  <1>5. Visited(k + 1)' = Visited(k + 1)
    BY <1>1 DEF Visited
  <1>6. \A c \in Cells : fat'[c] = IF c = TheWalk[k] THEN FAT32_FAT_ENTRY_EMPTY ELSE fat[c]
    BY DEF CallsTypeOK, FatTypeOK
  <1>7. Visited(k) \subseteq Cells
    BY DEF Visited, Emptied
  <1>8. \A c \in Visited(k + 1) : fat'[c] = FAT32_FAT_ENTRY_EMPTY
    BY <1>4, <1>6, <1>7 DEF Emptied
  <1>9. \A c \in Cells \ Visited(k + 1) : fat'[c] = before[c]
    BY <1>4, <1>6 DEF Emptied
  <1>10. \A i \in 0..(k + 1) - 1 : TheWalk[i] \in Cells
    BY <1>2 DEF Emptied
  <1>11. \A i, j \in 0..(k + 1) - 1 : TheWalk[i] = TheWalk[j] => i = j
    BY <1>2, <1>3 DEF Emptied
  <1>12. QED
    BY <1>1, <1>5, <1>8, <1>9, <1>10, <1>11 DEF Emptied

LEMMA NothingMoves ==
  ASSUME UNCHANGED <<fat, before, start>>, NEW k
  PROVE  /\ Emptied(k)' <=> Emptied(k)
         /\ Leads(k)' <=> Leads(k)
         /\ TheWalk' = TheWalk /\ Visited(k)' = Visited(k)
  BY DEF Emptied, Leads, Visited, TheWalk

-----------------------------------------------------------------------------
(***************************************************************************)
(* Every step keeps the invariant.                                         *)
(***************************************************************************)

\* Only the end of the device makes a read short, unless the instance says
\* that reads fail that way elsewhere too.
LEMMA ShortReads ==
  ASSUME NEW c, NEW r \in get_entry(c), r.ret = FE_INVALID_DEV,
         FE_INVALID_DEV \notin ReadFaults
  PROVE  c \notin Cells
  <1>1. r \notin [ret : ReadFaults, entry : {call.entry}]
    OBVIOUS
  <1>2. FE_OK # FE_INVALID_DEV
    BY DEF FE_OK, FE_INVALID_DEV
  <1>3. QED
    BY <1>1, <1>2 DEF get_entry

LEMMA FreeChainGetInv ==
  ASSUME CallsTypeOK, FreeInv, FreeChainGet, UNCHANGED <<before, start>>
  PROVE  FreeInv'
  <1>1. call.fn = "mark_cluster_chain_free" /\ call.pc = "get" /\ UNCHANGED fat
    BY DEF FreeChainGet
  <1>2. PICK k \in 0..DeviceCells : Emptied(k) /\ Leads(k) /\ call.cluster = TheWalk[k]
    BY <1>1 DEF FreeInv
  <1>3. Emptied(k)' /\ Leads(k)' /\ TheWalk' = TheWalk /\ Visited(k)' = Visited(k)
    BY <1>1, <1>2, NothingMoves
  <1>4. PICK r \in get_entry(call.cluster) :
          \/ /\ r.ret # FE_OK
             /\ Return(r.ret)
          \/ /\ r.ret = FE_OK
             /\ \/ fat32_fat_entry_is_free(r.entry)
                \/ fat32_fat_entry_is_bad(r.entry)
             /\ Return(FE_INVALID_FS)
          \/ /\ r.ret = FE_OK
             /\ ~fat32_fat_entry_is_free(r.entry)
             /\ ~fat32_fat_entry_is_bad(r.entry)
             /\ call' = [call EXCEPT !.pc = "set", !.entry = r.entry]
    BY DEF FreeChainGet
  <1>5. /\ r.ret \in {FE_OK, FE_ERRNO, FE_INVALID_DEV}
        /\ r.ret = FE_OK => r.entry = fat[TheWalk[k]] /\ TheWalk[k] \in Cells
    BY <1>2, GetEntryOutcome, CallFields DEF CallsTypeOK
  <1>6. FE_OK # FE_INVALID_FS /\ FE_ERRNO # FE_INVALID_FS /\ FE_INVALID_DEV # FE_INVALID_FS
        /\ FE_OK # FE_INVALID_DEV
    BY DEF FE_OK, FE_INVALID_FS, FE_ERRNO, FE_INVALID_DEV
  <1>7. call \in CallType
    BY DEF CallsTypeOK, FatTypeOK
  <1>8. r.ret = FE_OK => TheWalk[k] \in Visited(k) \/ r.entry = before[TheWalk[k]]
    BY <1>2, <1>5 DEF Emptied
  <1>9. CASE r.ret # FE_OK /\ Return(r.ret)
    <2>1. call'.pc = "idle" /\ call'.ret = r.ret
      BY <1>7, <1>9 DEF Return, CallType
    <2>2. r.ret = FE_INVALID_DEV /\ FE_INVALID_DEV \notin ReadFaults => TheWalk[k] \notin Cells
      BY <1>2, ShortReads
    <2>3. FreeAnswer(k)'
      BY <1>3, <1>5, <1>6, <1>9, <2>1, <2>2 DEF FreeAnswer
    <2>4. QED
      BY <1>3, <2>1, <2>3 DEF FreeInv
  <1>10. CASE r.ret = FE_OK /\ Damaged(r.entry) /\ Return(FE_INVALID_FS)
    <2>1. call'.pc = "idle" /\ call'.ret = FE_INVALID_FS
      BY <1>7, <1>10 DEF Return, CallType
    <2>2. TheWalk[k] \in Cells /\ (TheWalk[k] \in Visited(k) \/ Damaged(before[TheWalk[k]]))
      BY <1>5, <1>8, <1>10
    <2>3. FreeAnswer(k)'
      BY <1>3, <1>6, <2>1, <2>2 DEF FreeAnswer
    <2>4. QED
      BY <1>3, <2>1, <2>3 DEF FreeInv
  <1>11. CASE /\ r.ret = FE_OK /\ ~Damaged(r.entry)
              /\ call' = [call EXCEPT !.pc = "set", !.entry = r.entry]
    <2>1. call'.pc = "set" /\ call'.cluster = call.cluster /\ call'.entry = r.entry
      BY <1>7, <1>11 DEF CallType
    <2>2. TheWalk[k] \notin Visited(k)
      <3>1. TheWalk[k] \in Visited(k) => r.entry = FAT32_FAT_ENTRY_EMPTY
        BY <1>2, <1>5, <1>11 DEF Emptied
      <3>2. Damaged(FAT32_FAT_ENTRY_EMPTY)
        BY DEF Damaged, fat32_fat_entry_is_free, FAT32_FAT_ENTRY_EMPTY, Word
      <3>3. QED
        BY <1>11, <3>1, <3>2
    <2>3. TheWalk[k] \in Cells \ Visited(k) /\ r.entry = before[TheWalk[k]]
      BY <1>5, <1>8, <1>11, <2>2
    <2>4. call'.entry = before'[TheWalk'[k]] /\ ~Damaged(call'.entry) /\ ~Damaged(call.entry)'
      BY <1>3, <1>11, <2>1, <2>3
    <2>5. QED
      BY <1>2, <1>3, <2>1, <2>3, <2>4 DEF FreeInv
  <1>12. QED
    BY <1>4, <1>9, <1>10, <1>11 DEF Damaged

LEMMA FreeChainSetInv ==
  ASSUME CallsTypeOK, FreeInv, FreeChainSet, UNCHANGED <<before, start>>
  PROVE  FreeInv'
  <1>1. call.fn = "mark_cluster_chain_free" /\ call.pc = "set"
    BY DEF FreeChainSet
  <1>2. PICK k \in 0..DeviceCells :
          /\ Emptied(k) /\ Leads(k) /\ call.cluster = TheWalk[k]
          /\ TheWalk[k] \in Cells \ Visited(k)
          /\ call.entry = before[TheWalk[k]] /\ ~Damaged(call.entry)
    BY <1>1 DEF FreeInv
  <1>3. k + 1 \in 0..DeviceCells /\ k + 1 <= DeviceCells /\ k + 1 > 0 /\ (k + 1) - 1 = k
    <2>1. k + 1 <= DeviceCells
      BY <1>2, CellsAreFew
    <2>2. QED
      BY <2>1, FatTableAssumption
  <1>4. call \in CallType
    BY DEF CallsTypeOK, FatTypeOK
  <1>5. TheWalk' = TheWalk /\ before' = before /\ \A i : Leads(i)' <=> Leads(i)
    BY DEF TheWalk, Leads
  <1>6. PICK w \in set_entry(call.cluster, FAT32_FAT_ENTRY_EMPTY) :
          /\ fat' = w.fat
          /\ \/ /\ w.ret = FE_ERRNO
                /\ Return(FE_FS_INCONSISTENT)
             \/ /\ w.ret = FE_OK
                /\ fat32_fat_entry_is_null(call.entry)
                /\ call' = [call EXCEPT !.pc = "idle", !.ret = FE_OK,
                              !.cluster = fat32_fat_entry_to_cluster(call.entry)]
             \/ /\ w.ret = FE_OK
                /\ ~fat32_fat_entry_is_null(call.entry)
                /\ call' = [call EXCEPT !.pc = "get",
                              !.cluster = fat32_fat_entry_to_cluster(call.entry)]
    BY DEF FreeChainSet
  <1>7. /\ w.fat \in {fat, [fat EXCEPT ![call.cluster] = FAT32_FAT_ENTRY_EMPTY]}
        /\ w.ret = FE_OK => w.fat = [fat EXCEPT ![call.cluster] = FAT32_FAT_ENTRY_EMPTY]
    BY SMTT(30), SetEntryOutcome
  <1>8. fat' = [fat EXCEPT ![TheWalk[k]] = FAT32_FAT_ENTRY_EMPTY] => Emptied(k + 1)'
    BY <1>2, EmptiedGrows
  <1>9. fat' = fat => Emptied(k)'
    BY <1>2, NothingMoves
  <1>10. CASE w.ret = FE_ERRNO /\ Return(FE_FS_INCONSISTENT)
    <2>1. call'.pc = "idle" /\ call'.ret = FE_FS_INCONSISTENT
      BY <1>4, <1>10 DEF Return, CallType
    <2>2. \A i : FreeAnswer(i)'
      BY <2>1 DEF FreeAnswer, FE_FS_INCONSISTENT, FE_OK, FE_INVALID_FS, FE_INVALID_DEV
    <2>3. PICK i \in 0..DeviceCells : Emptied(i)'
      BY <1>2, <1>3, <1>6, <1>7, <1>8, <1>9
    <2>4. QED
      BY <2>1, <2>2, <2>3 DEF FreeInv
  <1>11. CASE /\ w.ret = FE_OK /\ fat32_fat_entry_is_null(call.entry)
              /\ call' = [call EXCEPT !.pc = "idle", !.ret = FE_OK,
                            !.cluster = fat32_fat_entry_to_cluster(call.entry)]
    <2>1. call'.pc = "idle" /\ call'.ret = FE_OK
      BY <1>4, <1>11 DEF CallType
    <2>2. Emptied(k + 1)'
      BY <1>2, <1>6, <1>7, <1>8, <1>11
    <2>3. Leads((k + 1) - 1)' /\ fat32_fat_entry_is_null(before'[TheWalk'[(k + 1) - 1]])
      BY <1>2, <1>3, <1>5, <1>11
    <2>4. FreeAnswer(k + 1)'
      BY <1>3, <2>1, <2>3
      DEF FreeAnswer, FE_OK, FE_INVALID_FS, FE_INVALID_DEV
    <2>5. QED
      BY <1>3, <2>1, <2>2, <2>4 DEF FreeInv
  <1>12. CASE /\ w.ret = FE_OK /\ ~fat32_fat_entry_is_null(call.entry)
              /\ call' = [call EXCEPT !.pc = "get",
                            !.cluster = fat32_fat_entry_to_cluster(call.entry)]
    <2>1. call'.pc = "get" /\ call'.cluster = call.entry.value
      BY <1>4, <1>12 DEF CallType, fat32_fat_entry_to_cluster
    <2>2. Emptied(k + 1)'
      BY <1>2, <1>6, <1>7, <1>8, <1>12
    <2>3. Follows(before[TheWalk[k]])
      BY <1>2, <1>12, WhatLeadsOn
    <2>4. Leads(k + 1) /\ TheWalk[k + 1] = before[TheWalk[k]].value
      BY <1>2, <1>3, <2>3, LeadsOn
    <2>5. Leads(k + 1)' /\ call'.cluster = TheWalk'[k + 1]
      BY <1>2, <1>5, <2>1, <2>4
    <2>6. QED
      BY <1>3, <2>1, <2>2, <2>5 DEF FreeInv
  <1>13. QED
    BY <1>6, <1>10, <1>11, <1>12

LEMMA NthEndInv ==
  ASSUME CallsTypeOK, NthInv, NthEnd, UNCHANGED <<before, start>>
  PROVE  NthInv'
  <1>1. call.fn = "get_nth_entry" /\ call.pc = "get" /\ call.left = 0
        /\ Return(FE_OK) /\ UNCHANGED fat
    BY DEF NthEnd
  <1>2. fat = before /\ start.left \in 0..MaxLinks
    BY <1>1 DEF NthInv
  <1>3. PICK i \in 0..start.left :
          /\ Leads(i) /\ call.left = start.left - i
          /\ fat32_fat_entry_to_cluster(call.entry) = TheWalk[i]
    BY <1>1 DEF NthInv
  <1>4. start.left \in Nat /\ i \in Nat
    BY <1>2, <1>3, BoundsAssumption
  <1>5. i = start.left
    BY <1>1, <1>3, <1>4
  <1>6. call'.pc = "idle" /\ call'.ret = FE_OK /\ call'.entry = call.entry
    BY <1>1 DEF Return, CallType, CallsTypeOK, FatTypeOK
  <1>7. NthAnswer(i)'
    <2>1. TheWalk' = TheWalk
      BY DEF TheWalk
    <2>2. fat32_fat_entry_to_cluster(call'.entry) = TheWalk'[start'.left]
      BY <1>3, <1>5, <1>6, <2>1
    <2>3. QED
      BY <1>6, <2>2 DEF NthAnswer, FE_OK, FE_CLUSTER_CHAIN_ENDED, FE_INVALID_FS
  <1>8. QED
    BY <1>1, <1>2, <1>6, <1>7 DEF NthInv

LEMMA NthCodes ==
  ASSUME NEW e
  PROVE  /\ NthCode(e) \in {FE_OK, FE_CLUSTER_CHAIN_ENDED, FE_INVALID_FS}
         /\ NthCode(e) = FE_OK => ~fat32_fat_entry_is_null(e) /\ ~Damaged(e)
         /\ NthCode(e) = FE_CLUSTER_CHAIN_ENDED => fat32_fat_entry_is_null(e)
         /\ NthCode(e) = FE_INVALID_FS => Damaged(e) /\ ~fat32_fat_entry_is_null(e)
  BY DEF NthCode, Damaged, FE_OK, FE_CLUSTER_CHAIN_ENDED, FE_INVALID_FS

LEMMA NthGetInv ==
  ASSUME CallsTypeOK, NthInv, NthGet, UNCHANGED <<before, start>>
  PROVE  NthInv'
  <1>1. call.fn = "get_nth_entry" /\ call.pc = "get" /\ call.left > 0 /\ UNCHANGED fat
    BY DEF NthGet
  <1>2. fat = before /\ start.left \in 0..MaxLinks
    BY <1>1 DEF NthInv
  <1>3. PICK i \in 0..start.left :
          /\ Leads(i) /\ call.left = start.left - i
          /\ call.cluster = TheWalk[i]
    BY <1>1 DEF NthInv
  <1>4. /\ start.left \in Nat /\ i < start.left
        /\ i \in 0..DeviceCells /\ i + 1 <= DeviceCells /\ i + 1 \in 0..start.left
    BY <1>1, <1>2, <1>3, BoundsAssumption, FatTableAssumption
  <1>5. PICK r \in get_entry(call.cluster) :
          \/ /\ r.ret # FE_OK
             /\ Return(r.ret)
          \/ /\ r.ret = FE_OK
             /\ NthCode(r.entry) # FE_OK
             /\ call' = [call EXCEPT !.pc = "idle", !.entry = r.entry,
                                     !.ret = NthCode(r.entry)]
          \/ /\ r.ret = FE_OK
             /\ NthCode(r.entry) = FE_OK
             /\ call' = [call EXCEPT !.entry = r.entry, !.left = @ - 1,
                           !.cluster = fat32_fat_entry_to_cluster(r.entry)]
    BY DEF NthGet
  <1>6. /\ r.ret \in {FE_OK, FE_ERRNO, FE_INVALID_DEV}
        /\ r.ret = FE_OK => r.entry = before[TheWalk[i]] /\ TheWalk[i] \in Cells
    BY <1>2, <1>3, GetEntryOutcome, CallFields DEF CallsTypeOK
  <1>7. call \in CallType
    BY DEF CallsTypeOK, FatTypeOK
  <1>8. TheWalk' = TheWalk /\ \A j : Leads(j)' <=> Leads(j)
    BY DEF TheWalk, Leads
  <1>9. start' = start /\ before' = before /\ fat' = before'
    BY <1>1, <1>2
  <1>10. CASE r.ret # FE_OK /\ Return(r.ret)
    <2>1. call'.pc = "idle" /\ call'.ret = r.ret
      BY <1>7, <1>10 DEF Return, CallType
    <2>2. NthAnswer(i)'
      BY <1>6, <1>10, <2>1
      DEF NthAnswer, FE_OK, FE_ERRNO, FE_INVALID_DEV, FE_CLUSTER_CHAIN_ENDED,
          FE_INVALID_FS
    <2>3. QED
      BY <1>2, <1>9, <2>1, <2>2 DEF NthInv
  <1>11. CASE /\ r.ret = FE_OK /\ NthCode(r.entry) # FE_OK
              /\ call' = [call EXCEPT !.pc = "idle", !.entry = r.entry,
                                      !.ret = NthCode(r.entry)]
    <2>1. call'.pc = "idle" /\ call'.ret = NthCode(r.entry)
      BY <1>7, <1>11 DEF CallType
    <2>2. r.entry = before'[TheWalk'[i]] /\ TheWalk'[i] \in Cells
      BY <1>6, <1>8, <1>9, <1>11
    <2>3. Leads(i)' /\ i < start'.left
      BY <1>3, <1>4, <1>8, <1>9
    <2>4. NthAnswer(i)'
      BY <1>11, <2>1, <2>2, <2>3, NthCodes DEF NthAnswer
    <2>5. QED
      BY <1>2, <1>9, <2>1, <2>4 DEF NthInv
  <1>12. CASE /\ r.ret = FE_OK /\ NthCode(r.entry) = FE_OK
              /\ call' = [call EXCEPT !.entry = r.entry, !.left = @ - 1,
                            !.cluster = fat32_fat_entry_to_cluster(r.entry)]
    <2>1. /\ call'.pc = "get" /\ call'.left = call.left - 1
          /\ call'.cluster = r.entry.value
          /\ fat32_fat_entry_to_cluster(call'.entry) = r.entry.value
      BY <1>1, <1>7, <1>12 DEF CallType, fat32_fat_entry_to_cluster
    <2>2. TheWalk[i] \in Cells /\ Follows(before[TheWalk[i]])
      BY <1>6, <1>12, NthCodes, WhatLeadsOn
    <2>3. Leads(i + 1) /\ TheWalk[i + 1] = r.entry.value
      BY <1>3, <1>4, <1>6, <1>12, <2>2, LeadsOn
    <2>4. call'.left = start'.left - (i + 1)
      BY <1>3, <1>4, <1>9, <2>1
    <2>5. /\ Leads(i + 1)' /\ call'.cluster = TheWalk'[i + 1]
          /\ fat32_fat_entry_to_cluster(call'.entry) = TheWalk'[i + 1]
      BY <1>8, <2>1, <2>3
    <2>6. QED
      BY <1>2, <1>4, <1>9, <2>1, <2>4, <2>5 DEF NthInv
  <1>13. QED
    BY <1>5, <1>10, <1>11, <1>12

\* Looking for a free cluster changes no word; it leaves a cluster as hint.
LEMMA FindType ==
  ASSUME FatTypeOK, hint \in 0..DeviceCells, FindFull \/ FindGet
  PROVE  FatTypeOK' /\ fat' = fat /\ hint' \in 0..DeviceCells /\ call'.fn = call.fn
  <1>1. call \in CallType /\ fat \in [Cells -> Entry]
    BY DEF FatTypeOK
  <1>2. CASE FindFull
    <2>1. call' \in CallType
      BY <1>2, ReturnType DEF FindFull, FE_FS_IS_FULL
    <2>2. QED
      BY <1>1, <1>2, <2>1 DEF FindFull, FatTypeOK, Return, CallType
  <1>3. CASE FindGet
    <2>1. call.cluster \in Clusters /\ call.cluster \in Nat
      BY <1>1, <1>3 DEF FindGet, CallType
    <2>2. PICK r \in get_entry(call.cluster) :
            \/ Return(r.ret) /\ UNCHANGED hint
            \/ hint' = call.cluster /\ Return(call.cluster)
            \/ call' = [call EXCEPT !.cluster = @ + 1] /\ UNCHANGED hint
      BY <1>3 DEF FindGet
    <2>3. r.ret \in Nat
      BY <2>1, GetEntryOutcome
    <2>4. call' \in CallType /\ call'.fn = call.fn
      <3>1. \A n \in Nat : [call EXCEPT !.cluster = n] \in CallType
                           /\ [call EXCEPT !.cluster = n].fn = call.fn
        BY <1>1 DEF CallType
      <3>2. \A n \in Nat : Return(n) => call' \in CallType /\ call'.fn = call.fn
        BY <1>1 DEF Return, CallType
      <3>3. CASE Return(r.ret)
        BY <2>3, <3>2, <3>3
      <3>4. CASE Return(call.cluster)
        BY <2>1, <3>2, <3>4
      <3>5. CASE call' = [call EXCEPT !.cluster = @ + 1]
        <4>1. call.cluster + 1 \in Nat
          BY <2>1
        <4>2. QED
          BY <3>1, <3>5, <4>1
      <3>6. QED
        BY <2>2, <3>3, <3>4, <3>5
    <2>5. hint' \in 0..DeviceCells
      <3>1. call.cluster \in 0..DeviceCells
        BY <2>1, FatTableAssumption DEF Clusters, FAT32_MIN_CLUSTER_NUMBER
      <3>2. QED
        BY <2>2, <3>1
    <2>6. QED
      BY <1>1, <1>3, <2>4, <2>5 DEF FindGet, FatTypeOK
  <1>4. QED
    BY <1>2, <1>3

LEMMA FindFullInv ==
  ASSUME CallsTypeOK, FindInv, FindFull, UNCHANGED <<before, start>>
  PROVE  FindInv'
  <1>1. /\ call.fn = "find_free_cluster" /\ call.pc = "get"
        /\ call.cluster \notin Clusters /\ Return(FE_FS_IS_FULL)
        /\ UNCHANGED <<fat, hint>>
    BY DEF FindFull
  <1>2. /\ hint >= FAT32_MIN_CLUSTER_NUMBER /\ hint = start.cluster
        /\ hint <= call.cluster
        /\ \A c \in FreeFrom(start.cluster) : call.cluster <= c
    BY <1>1 DEF FindInv
  <1>3. call \in CallType /\ call.cluster \in Nat /\ hint \in Nat
    BY FatTableAssumption DEF CallsTypeOK, FatTypeOK, CallType
  <1>4. FreeFrom(start.cluster) = {}
    <2>1. call.cluster > ClustersCount + 1
      BY <1>1, <1>2, <1>3, FatTableAssumption DEF Clusters, FAT32_MIN_CLUSTER_NUMBER
    <2>2. \A c \in Clusters : ~(call.cluster <= c)
      BY <1>3, <2>1, FatTableAssumption DEF Clusters, FAT32_MIN_CLUSTER_NUMBER
    <2>3. FreeFrom(start.cluster) \subseteq Clusters
      BY DEF FreeFrom, FreeClusters
    <2>4. QED
      BY <1>2, <2>2, <2>3
  <1>5. call'.pc = "idle" /\ call'.ret = FE_FS_IS_FULL
    BY <1>1, <1>3 DEF Return, CallType
  <1>6. FreeFrom(start.cluster)' = FreeFrom(start.cluster)
    BY <1>1 DEF FreeFrom, FreeClusters
  <1>7. FindAnswer'
    BY <1>1, <1>2, <1>4, <1>5, <1>6 DEF FindAnswer
  <1>8. QED
    BY <1>1, <1>2, <1>5, <1>7 DEF FindInv

LEMMA FindGetInv ==
  ASSUME CallsTypeOK, FindInv, FindGet, UNCHANGED <<before, start>>
  PROVE  FindInv'
  <1>1. /\ call.fn = "find_free_cluster" /\ call.pc = "get"
        /\ call.cluster \in Clusters /\ UNCHANGED fat
    BY DEF FindGet
  <1>2. /\ hint >= FAT32_MIN_CLUSTER_NUMBER /\ hint = start.cluster
        /\ hint <= call.cluster
        /\ \A c \in FreeFrom(start.cluster) : call.cluster <= c
    BY <1>1 DEF FindInv
  <1>3. /\ FatTypeOK /\ call \in CallType /\ call.cluster \in Nat /\ hint \in Nat
        /\ \A c \in Clusters : c \in Nat
    BY FatTableAssumption, ClusterNumbers DEF CallsTypeOK, FatTypeOK, CallType
  <1>4. FreeFrom(start.cluster)' = FreeFrom(start.cluster)
    BY <1>1 DEF FreeFrom, FreeClusters
  <1>5. PICK r \in get_entry(call.cluster) :
          \/ r.ret # FE_OK /\ Return(r.ret) /\ UNCHANGED hint
          \/ /\ r.ret = FE_OK /\ fat32_fat_entry_is_free(r.entry)
             /\ hint' = call.cluster /\ Return(call.cluster)
          \/ /\ r.ret = FE_OK /\ ~fat32_fat_entry_is_free(r.entry)
             /\ call' = [call EXCEPT !.cluster = @ + 1] /\ UNCHANGED hint
    BY DEF FindGet
  <1>6. r.ret = FE_OK => r.entry = fat[call.cluster]
    BY <1>3, GetEntryOutcome
  <1>7. \A n : Return(n) => call'.pc = "idle" /\ call'.ret = n
    BY <1>3 DEF Return, CallType
  <1>8. CASE r.ret # FE_OK /\ Return(r.ret) /\ UNCHANGED hint
    <2>1. r.ret \in ReadFaults
      <3>1. call.cluster \in Cells
        BY <1>1, ClusterNumbers
      <3>2. QED
        BY <1>8, <3>1 DEF get_entry
    <2>2. FindAnswer'
      BY <1>2, <1>7, <1>8, <2>1 DEF FindAnswer
    <2>3. QED
      BY <1>2, <1>7, <1>8, <2>2 DEF FindInv
  <1>9. CASE /\ r.ret = FE_OK /\ fat32_fat_entry_is_free(r.entry)
             /\ hint' = call.cluster /\ Return(call.cluster)
    <2>1. call.cluster \in FreeFrom(start.cluster)
      BY <1>1, <1>2, <1>6, <1>9 DEF FreeFrom, FreeClusters
    <2>2. FindAnswer'
      BY <1>2, <1>4, <1>7, <1>9, <2>1 DEF FindAnswer
    <2>3. hint' >= FAT32_MIN_CLUSTER_NUMBER
      BY <1>2, <1>3, <1>9 DEF FAT32_MIN_CLUSTER_NUMBER
    <2>4. QED
      BY <1>7, <1>9, <2>2, <2>3 DEF FindInv
  <1>10. CASE /\ r.ret = FE_OK /\ ~fat32_fat_entry_is_free(r.entry)
              /\ call' = [call EXCEPT !.cluster = @ + 1] /\ UNCHANGED hint
    <2>1. call'.pc = "get" /\ call'.cluster = call.cluster + 1
      BY <1>1, <1>3, <1>10 DEF CallType
    <2>2. call.cluster \notin FreeFrom(start.cluster)
      BY <1>6, <1>10 DEF FreeFrom, FreeClusters
    <2>3. FreeFrom(start.cluster) \subseteq Clusters
      BY DEF FreeFrom, FreeClusters
    <2>4. \A c \in FreeFrom(start.cluster) : call.cluster + 1 <= c
      BY <1>2, <1>3, <2>2, <2>3
    <2>5. hint <= call.cluster + 1
      BY <1>2, <1>3
    <2>6. QED
      BY <1>2, <1>4, <1>10, <2>1, <2>4, <2>5 DEF FindInv
  <1>11. QED
    BY <1>5, <1>8, <1>9, <1>10

\* A call leaves the device alone, and its locals are of their types.
LEMMA CallType1 ==
  ASSUME CallsTypeOK, Call
  PROVE  /\ CallsTypeOK' /\ fat' = fat /\ before' = fat
         /\ start'.cluster = call'.cluster /\ start'.left = call'.left
         /\ hint' = hint
         /\ call'.fn = "find_free_cluster" => call'.pc = "get" /\ call'.cluster = hint
         /\ \/ call'.fn \notin {"mark_cluster_chain_free", "get_nth_entry"}
            \/ call'.fn = "mark_cluster_chain_free" /\ call'.pc = "get"
            \/ /\ call'.fn = "get_nth_entry" /\ call'.pc = "get"
               /\ call'.left \in 0..MaxLinks
               /\ fat32_fat_entry_to_cluster(call'.entry) = call'.cluster
  <1>1. before' = fat /\ start'.cluster = call'.cluster /\ start'.left = call'.left
    BY DEF Call
  <1>2. FatTypeOK /\ hint \in 0..DeviceCells /\ fat \in [Cells -> Entry]
    BY DEF CallsTypeOK, FatTypeOK
  <1>3. /\ NoCall.fn = "none" /\ NoCall \in CallType
        /\ DeviceCells \in Nat /\ Cells \subseteq 0..DeviceCells /\ 0..DeviceCells \subseteq Nat
    BY EmptyIsEntry, FatTableAssumption DEF NoCall, Cells
  <1>4. SUFFICES
          /\ call' \in CallType /\ UNCHANGED <<fat, hint>>
          /\ call'.cluster \in 0..DeviceCells
          /\ call'.fn = "find_free_cluster" => call'.pc = "get" /\ call'.cluster = hint
          /\ \/ call'.fn \notin {"mark_cluster_chain_free", "get_nth_entry"}
             \/ call'.fn = "mark_cluster_chain_free" /\ call'.pc = "get"
             \/ /\ call'.fn = "get_nth_entry" /\ call'.pc = "get"
                /\ call'.left \in 0..MaxLinks
                /\ fat32_fat_entry_to_cluster(call'.entry) = call'.cluster
    BY <1>1, <1>2 DEF CallsTypeOK, FatTypeOK
  <1>5. CASE \E c \in 0..DeviceCells : mark_cluster_chain_free(c)
    <2>1. PICK c \in 0..DeviceCells : mark_cluster_chain_free(c)
      BY <1>5
    <2>2. c \in Nat
      BY <1>3
    <2>3. FatTypeOK' /\ fat' = fat /\ hint' = hint
      BY <1>2, <2>1, <2>2, FreshCallType
    <2>4. call'.cluster = c /\ call'.fn = "mark_cluster_chain_free" /\ call'.pc = "get"
      BY <1>3, <2>1 DEF mark_cluster_chain_free, CallType
    <2>5. QED
      BY <2>1, <2>3, <2>4 DEF FatTypeOK
  <1>6. CASE \E c \in (0..DeviceCells) \cap (0..ClusterSpace - 1), n \in 0..MaxLinks :
               get_nth_entry(c, n)
    <2>1. PICK c \in (0..DeviceCells) \cap (0..ClusterSpace - 1), n \in 0..MaxLinks :
            get_nth_entry(c, n)
      BY <1>6
    <2>2. n \in Nat /\ c \in Nat /\ Word(c) \in Entry /\ Word(c).value = c
      BY <1>3, BoundsAssumption, WordsAreEntries DEF Word
    <2>3. call' = [NoCall EXCEPT !.fn = "get_nth_entry", !.pc = "get",
                                 !.cluster = c, !.left = n, !.entry = Word(c)]
          /\ UNCHANGED <<fat, hint>>
      BY <2>1 DEF get_nth_entry
    <2>4. call' \in CallType
      BY <1>3, <2>2, <2>3 DEF CallType, FatFunctions
    <2>5. /\ call'.fn = "get_nth_entry" /\ call'.pc = "get"
          /\ call'.cluster = c /\ call'.left = n /\ call'.entry = Word(c)
      BY <1>3, <2>3 DEF CallType
    <2>6. fat32_fat_entry_to_cluster(call'.entry) = c
      BY <2>2, <2>5 DEF fat32_fat_entry_to_cluster
    <2>7. QED
      BY <2>1, <2>3, <2>4, <2>5, <2>6
  <1>7. CASE find_free_cluster
    <2>1. call' = [NoCall EXCEPT !.fn = "find_free_cluster", !.pc = "get", !.cluster = hint]
          /\ UNCHANGED <<fat, hint>>
      BY <1>7 DEF find_free_cluster
    <2>2. hint \in Nat
      BY <1>2, <1>3
    <2>3. call' \in CallType
      BY <1>3, <2>1, <2>2 DEF CallType, FatFunctions
    <2>4. call'.fn = "find_free_cluster" /\ call'.pc = "get" /\ call'.cluster = hint
      BY <1>3, <2>1 DEF CallType
    <2>5. QED
      BY <1>2, <2>1, <2>3, <2>4
  <1>8. CASE \E c \in Cells : mark_cluster_last(c)
    <2>1. PICK c \in Cells : mark_cluster_last(c)
      BY <1>8
    <2>2. c \in Nat /\ c \in 0..DeviceCells
      BY <1>3
    <2>3. FatTypeOK' /\ fat' = fat /\ hint' = hint
      BY <1>2, <2>1, <2>2, FreshCallType
    <2>4. call'.cluster = c /\ call'.fn = "mark_cluster_last"
      BY <1>3, <2>1 DEF mark_cluster_last, CallType
    <2>5. QED
      BY <2>2, <2>3, <2>4 DEF FatTypeOK
  <1>9. QED
    BY <1>5, <1>6, <1>7, <1>8 DEF Call

LEMMA CallKeepsInv ==
  ASSUME CallsInv, Call
  PROVE  CallsInv'
  <1>1. CallsTypeOK' /\ fat' = before' /\ start'.cluster = call'.cluster /\ start'.left = call'.left
    BY CallType1 DEF CallsInv
  <1>2. TheWalk'[0] = start'.cluster
    <2>1. (TheWalk[0] = start.cluster)'
      BY WalkBegins, PTL
    <2>2. QED
      BY <2>1
  <1>3. Emptied(0)' /\ Leads(0)'
    <2>1. (fat = before => Emptied(0) /\ Leads(0))'
      BY NothingEmptied, PTL
    <2>2. QED
      BY <1>1, <2>1
  <1>4. 0 \in 0..DeviceCells
    BY FatTableAssumption
  <1>5. FindInv'
    <2>1. /\ hint' = hint /\ start'.cluster = call'.cluster
          /\ call'.fn = "find_free_cluster" => call'.pc = "get" /\ call'.cluster = hint
      BY CallType1 DEF CallsInv
    <2>2. hint \in Nat /\ hint >= FAT32_MIN_CLUSTER_NUMBER
      BY FatTableAssumption DEF CallsInv, CallsTypeOK, FindInv
    <2>3. \A c \in FreeFrom(start.cluster)' : start'.cluster <= c
      BY DEF FreeFrom, FreeClusters
    <2>4. QED
      BY <2>1, <2>2, <2>3 DEF FindInv
  <1>6. CASE call'.fn \notin {"mark_cluster_chain_free", "get_nth_entry"}
    BY <1>1, <1>6, <1>5 DEF CallsInv, FreeInv, NthInv
  <1>7. CASE call'.fn = "mark_cluster_chain_free" /\ call'.pc = "get"
    BY <1>1, <1>2, <1>3, <1>4, <1>7, <1>5 DEF CallsInv, FreeInv, NthInv
  <1>8. CASE /\ call'.fn = "get_nth_entry" /\ call'.pc = "get"
             /\ call'.left \in 0..MaxLinks
             /\ fat32_fat_entry_to_cluster(call'.entry) = call'.cluster
    <2>1. start'.left \in Nat /\ start'.left \in 0..MaxLinks
      BY <1>1, <1>8, BoundsAssumption
    <2>2. 0 \in 0..start'.left /\ call'.left = start'.left - 0
      BY <1>1, <2>1
    <2>3. fat32_fat_entry_to_cluster(call'.entry) = TheWalk'[0]
      BY <1>1, <1>2, <1>8
    <2>4. NthInv'
      BY <1>1, <1>2, <1>3, <1>8, <2>1, <2>2, <2>3 DEF NthInv
    <2>5. QED
      BY <1>1, <1>8, <1>5, <2>4 DEF CallsInv, FreeInv
  <1>9. QED
    BY <1>6, <1>7, <1>8, CallType1 DEF CallsInv

-----------------------------------------------------------------------------
(***************************************************************************)
(* What the properties say of a chain, from the invariant.                 *)
(***************************************************************************)

LEMMA InitCallsInv == Init => CallsInv
  <1> SUFFICES ASSUME Init PROVE CallsInv
    OBVIOUS
  <1>1. FatTypeOK
    BY FatInitType DEF Init
  <1>2. hint \in 0..DeviceCells /\ start.cluster \in 0..DeviceCells
    BY FatTableAssumption DEF Init, FatInit, FAT32_MIN_CLUSTER_NUMBER
  <1>3. call.fn = "none" /\ before = fat
    BY DEF Init, FatInit, NoCall
  <1>4. FindInv
    BY <1>3 DEF Init, FatInit, FindInv, FAT32_MIN_CLUSTER_NUMBER
  <1>5. QED
    BY <1>1, <1>2, <1>3, <1>4 DEF CallsInv, CallsTypeOK, FreeInv, NthInv, FatTypeOK

LEMMA NextCallsInv == CallsInv /\ [Next]_vars => CallsInv'
  <1> SUFFICES ASSUME CallsInv, [Next]_vars PROVE CallsInv'
    OBVIOUS
  <1>1. CallsTypeOK /\ FreeInv /\ NthInv /\ FindInv /\ FatTypeOK
    BY DEF CallsInv, CallsTypeOK
  <1>2. CASE UNCHANGED vars
    <2>1. UNCHANGED <<fat, hint, call, before, start>>
      BY <1>2 DEF vars
    <2>2. TheWalk' = TheWalk
      BY <2>1 DEF TheWalk
    <2>3. /\ \A k : Emptied(k)' = Emptied(k) /\ Leads(k)' = Leads(k)
          /\ \A k : Visited(k)' = Visited(k)
      BY <2>1, <2>2 DEF Emptied, Leads, Visited
    <2>4. \A k : FreeAnswer(k)' = FreeAnswer(k) /\ NthAnswer(k)' = NthAnswer(k)
      BY <2>1, <2>2, <2>3 DEF FreeAnswer, NthAnswer
    <2>5. FreeInv' /\ NthInv'
      BY <1>1, <2>1, <2>2, <2>3, <2>4 DEF FreeInv, NthInv
    <2>6. FindInv'
      <3>1. FreeFrom(start.cluster)' = FreeFrom(start.cluster)
        BY <2>1 DEF FreeFrom, FreeClusters
      <3>2. FindAnswer' = FindAnswer
        BY <2>1, <3>1 DEF FindAnswer
      <3>3. QED
        BY <1>1, <2>1, <3>1, <3>2 DEF FindInv
    <2>7. QED
      BY <1>1, <2>1, <2>5, <2>6 DEF CallsInv, CallsTypeOK, FatTypeOK
  <1>3. CASE Call
    BY <1>3, CallKeepsInv
  <1>4. ASSUME UNCHANGED <<before, start>>, FatTypeOK', hint' \in 0..DeviceCells
        PROVE  CallsTypeOK'
    BY <1>1, <1>4 DEF CallsTypeOK
  <1>5. CASE (FreeChainGet \/ FreeChainSet) /\ UNCHANGED <<before, start>>
    <2>1. FatTypeOK' /\ hint' = hint
      BY <1>1, <1>5, FreeChainType DEF FreeChainStep
    <2>2. FreeInv'
      BY <1>1, <1>5, FreeChainGetInv, FreeChainSetInv
    <2>3. call'.fn = "mark_cluster_chain_free"
      <3>1. call.fn = "mark_cluster_chain_free" /\ call \in CallType
        BY <1>1, <1>5 DEF FreeChainGet, FreeChainSet, FatTypeOK
      <3>2. \A n : Return(n) => call'.fn = call.fn
        BY <3>1 DEF Return, CallType
      <3>3. CASE FreeChainGet
        BY <3>1, <3>2, <3>3 DEF FreeChainGet, CallType
      <3>4. CASE FreeChainSet
        BY <3>1, <3>2, <3>4 DEF FreeChainSet, CallType
      <3>5. QED
        BY <1>5, <3>3, <3>4
    <2>4. NthInv'
      BY <2>3 DEF NthInv
    <2>5. QED
      BY <1>1, <1>4, <1>5, <2>1, <2>2, <2>3, <2>4 DEF CallsInv, CallsTypeOK, FindInv
  <1>6. CASE (NthEnd \/ NthGet) /\ UNCHANGED <<before, start>>
    <2>1. FatTypeOK' /\ hint' = hint
      BY <1>1, <1>6, NthType
    <2>2. NthInv'
      BY <1>1, <1>6, NthEndInv, NthGetInv
    <2>3. call'.fn = "get_nth_entry"
      <3>1. call.fn = "get_nth_entry" /\ call \in CallType
        BY <1>1, <1>6 DEF NthEnd, NthGet, FatTypeOK
      <3>2. \A n : Return(n) => call'.fn = call.fn
        BY <3>1 DEF Return, CallType
      <3>3. CASE NthEnd
        BY <3>1, <3>2, <3>3 DEF NthEnd
      <3>4. CASE NthGet
        BY <3>1, <3>2, <3>4 DEF NthGet, CallType
      <3>5. QED
        BY <1>6, <3>3, <3>4
    <2>4. FreeInv'
      BY <2>3 DEF FreeInv
    <2>5. QED
      BY <1>1, <1>4, <1>6, <2>1, <2>2, <2>3, <2>4 DEF CallsInv, CallsTypeOK, FindInv
  <1>7. CASE (FindFull \/ FindGet) /\ UNCHANGED <<before, start>>
    <2>1. FatTypeOK' /\ hint' \in 0..DeviceCells /\ call'.fn = call.fn
      BY <1>1, <1>7, FindType DEF CallsTypeOK
    <2>2. call.fn = "find_free_cluster"
      BY <1>7 DEF FindFull, FindGet
    <2>3. FindInv'
      BY <1>1, <1>7, FindFullInv, FindGetInv
    <2>4. QED
      BY <1>4, <1>7, <2>1, <2>2, <2>3 DEF CallsInv, FreeInv, NthInv
  <1>8. CASE MarkLastSet /\ UNCHANGED <<before, start>>
    <2>1. FatTypeOK' /\ hint' = hint
      BY <1>1, <1>8, MarkLastType
    <2>2. call'.fn = "mark_cluster_last"
      BY <1>1, <1>8 DEF MarkLastSet, Return, CallType, FatTypeOK
    <2>3. QED
      BY <1>1, <1>4, <1>8, <2>1, <2>2 DEF CallsInv, CallsTypeOK, FreeInv, NthInv, FindInv
  <1>9. QED
    BY <1>2, <1>3, <1>5, <1>6, <1>7, <1>8 DEF Next, Step

\* The chain of the last call, the words that were emptied, and the answer
\* are always as CallsInv says, for every table and every set of faults.
THEOREM CallsInvariant == Spec => []CallsInv
  BY InitCallsInv, NextCallsInv, PTL DEF Spec

\* A chain that has led to a damaged word has no end and stays on the device.
LEMMA DamagedHasNoEnd ==
  ASSUME CallsTypeOK, NEW k \in 0..DeviceCells, Leads(k),
         TheWalk[k] \in Cells, Damaged(before[TheWalk[k]])
  PROVE  /\ ~Ended(before, start.cluster)
         /\ ~LeavesDevice(before, start.cluster)
  <1>1. ~Follows(before[TheWalk[k]]) /\ ~Ends(before[TheWalk[k]])
    <2>1. FAT32_FAT_ENTRY_EOC > 0 /\ FAT32_FAT_ENTRY_BAD < FAT32_FAT_ENTRY_EOC
          /\ FAT32_FAT_ENTRY_EOC \in Nat /\ FAT32_FAT_ENTRY_BAD \in Nat
      BY ClusterSpaceAssumption DEF FAT32_FAT_ENTRY_EOC, FAT32_FAT_ENTRY_BAD
    <2>2. QED
      BY <2>1
      DEF Damaged, Follows, Ends, fat32_fat_entry_is_free, fat32_fat_entry_is_bad
  <1>2. \A m \in k + 1..DeviceCells : TheWalk[m] = Stop
    BY <1>1, AfterTheLast DEF TheWalk
  <1>3. \A m \in 0..DeviceCells : m \in 0..k - 1 \/ m = k \/ m \in k + 1..DeviceCells
    BY FatTableAssumption
  <1>4. \A m \in 0..DeviceCells :
           \/ TheWalk[m] \in Cells /\ ~Ends(before[TheWalk[m]])
           \/ TheWalk[m] = Stop
    BY <1>1, <1>2, <1>3 DEF Leads, Follows
  <1>5. QED
    BY <1>4, NothingFollowsStop DEF Ended, LeavesDevice, Chain, TheWalk

\* Neither has a chain that has come back to one of its clusters.
LEMMA CircleHasNoEnd ==
  ASSUME NEW k \in 0..DeviceCells, Leads(k), TheWalk[k] \in Visited(k)
  PROVE  /\ ~Ended(before, start.cluster)
         /\ ~LeavesDevice(before, start.cluster)
  <1>1. PICK j \in 0..k - 1 : TheWalk[k] = TheWalk[j]
    BY DEF Visited
  <1>2. \A m \in 0..DeviceCells : \E i \in 0..k - 1 : TheWalk[m] = TheWalk[i]
    BY <1>1, ACircleStays DEF TheWalk
  <1>3. \A m \in 0..DeviceCells : TheWalk[m] \in Cells /\ ~Ends(before[TheWalk[m]])
    BY <1>2 DEF Leads, Follows
  <1>4. QED
    BY <1>3 DEF Ended, LeavesDevice, Chain, TheWalk

\* A word that the code takes for the last one of its chain is, when no word
\* on the device has a reserved bit set.
LEMMA NullEnds ==
  ASSUME ReservedValues = {0}, NEW e \in Entry, fat32_fat_entry_is_null(e)
  PROVE  Ends(e) /\ ~Follows(e)
  BY DEF Entry, fat32_fat_entry_is_null, Ends, Follows

LEMMA WhereItEnds ==
  ASSUME ReservedValues = {0}, CallsTypeOK, NEW k \in 0..DeviceCells,
         TheWalk[k] \in Cells, fat32_fat_entry_is_null(before[TheWalk[k]])
  PROVE  /\ Ended(before, start.cluster)
         /\ \A m \in k + 1..DeviceCells : TheWalk[m] = Stop
  <1>1. before[TheWalk[k]] \in Entry
    BY DEF CallsTypeOK
  <1>2. Ends(before[TheWalk[k]]) /\ ~Follows(before[TheWalk[k]])
    BY <1>1, NullEnds
  <1>3. TheWalk[k] \in Chain(before, start.cluster)
    BY DEF Chain, TheWalk
  <1>4. QED
    BY <1>2, <1>3, AfterTheLast DEF Ended, TheWalk

LEMMA CallsInvClears == CallsInv => ClearsPrefixOfChain
  <1> SUFFICES ASSUME CallsInv, call.fn = "mark_cluster_chain_free"
               PROVE  ClearsPrefixOfChain
    BY DEF ClearsPrefixOfChain
  <1>1. PICK k \in 0..DeviceCells : Emptied(k)
    BY DEF CallsInv, FreeInv
  <1>2. 0..k - 1 \subseteq 0..k /\ 0..k \subseteq 0..DeviceCells
    BY FatTableAssumption
  <1>3. Cleared \subseteq Visited(k)
    BY <1>1 DEF Emptied, Cleared
  <1>4. Visited(k) \subseteq {TheWalk[i] : i \in 0..k}
    BY <1>2 DEF Visited
  <1>5. Visited(k) \subseteq Chain(before, start.cluster)
    BY <1>1, <1>2 DEF Visited, Emptied, Chain, TheWalk
  <1>6. \A i \in 0..k - 1 : TheWalk[i] \in Cells /\ fat[TheWalk[i]] = FAT32_FAT_ENTRY_EMPTY
    BY <1>1 DEF Emptied, Visited
  <1>7. \A c \in Cleared : fat[c] = FAT32_FAT_ENTRY_EMPTY
    BY <1>1, <1>3 DEF Emptied
  <1>8. Cleared = {TheWalk[i] : i \in 0..k} \cap Cleared
    BY <1>3, <1>4
  <1>9. Cleared \subseteq Chain(before, start.cluster)
    BY <1>3, <1>5
  <1>10. QED
    BY <1>6, <1>7, <1>8, <1>9 DEF ClearsPrefixOfChain, TheWalk

LEMMA CallsInvFreeResult ==
  ASSUME ReservedValues = {0}, FE_INVALID_DEV \notin ReadFaults
  PROVE  CallsInv => FreeResult
  <1> SUFFICES ASSUME CallsInv, call.fn = "mark_cluster_chain_free", call.pc = "idle"
               PROVE  FreeResult
    BY DEF FreeResult
  <1>1. PICK k \in 0..DeviceCells : Emptied(k) /\ FreeAnswer(k)
    BY DEF CallsInv, FreeInv
  <1>2. CallsTypeOK
    BY DEF CallsInv
  <1>3. ASSUME call.ret = FE_OK
        PROVE  /\ Ended(before, start.cluster)
               /\ \A c \in Chain(before, start.cluster) : fat[c] = FAT32_FAT_ENTRY_EMPTY
    <2>1. k > 0 /\ fat32_fat_entry_is_null(before[TheWalk[k - 1]])
      BY <1>1, <1>3 DEF FreeAnswer
    <2>2. k - 1 \in 0..DeviceCells /\ k - 1 \in 0..k - 1 /\ (k - 1) + 1 = k
      BY <2>1, FatTableAssumption
    <2>3. TheWalk[k - 1] \in Cells
      BY <1>1, <2>2 DEF Emptied
    <2>4. Ended(before, start.cluster) /\ \A m \in k..DeviceCells : TheWalk[m] = Stop
      BY <1>2, <2>1, <2>2, <2>3, WhereItEnds
    <2>5. \A m \in 0..DeviceCells : m \in 0..k - 1 \/ m \in k..DeviceCells
      BY FatTableAssumption
    <2>6. Chain(before, start.cluster) \subseteq Visited(k)
      BY <2>4, <2>5, NothingFollowsStop DEF Chain, Visited, TheWalk
    <2>7. QED
      BY <1>1, <2>4, <2>6 DEF Emptied
  <1>4. ASSUME call.ret = FE_INVALID_FS
        PROVE  ~Ended(before, start.cluster) /\ ~LeavesDevice(before, start.cluster)
    <2>1. /\ Leads(k) /\ TheWalk[k] \in Cells
          /\ TheWalk[k] \in Visited(k) \/ Damaged(before[TheWalk[k]])
      BY <1>1, <1>4 DEF FreeAnswer
    <2>2. QED
      BY <1>2, <2>1, DamagedHasNoEnd, CircleHasNoEnd
  <1>5. ASSUME call.ret = FE_INVALID_DEV
        PROVE  LeavesDevice(before, start.cluster)
    <2>1. Leads(k) /\ TheWalk[k] \notin Cells
      BY <1>1, <1>5 DEF FreeAnswer
    <2>2. TheWalk[k] # Stop
      BY <1>2, <2>1, LeadsSomewhere
    <2>3. QED
      BY <2>1, <2>2 DEF LeavesDevice, TheWalk
  <1>6. QED
    BY <1>3, <1>4, <1>5 DEF FreeResult

LEMMA CallsInvNthResult ==
  ASSUME ReservedValues = {0}
  PROVE  CallsInv => NthResult
  <1> SUFFICES ASSUME CallsInv, call.fn = "get_nth_entry", call.pc = "idle"
               PROVE  NthResult
    BY DEF NthResult
  <1>1. PICK i \in 0..start.left : NthAnswer(i)
    BY DEF CallsInv, NthInv
  <1>2. CallsTypeOK /\ start.left \in 0..MaxLinks
    BY DEF CallsInv, NthInv
  <1>3. start.left \in 0..DeviceCells /\ i \in 0..DeviceCells
    BY <1>2, BoundsAssumption, FatTableAssumption
  <1>4. ASSUME call.ret \in {FE_CLUSTER_CHAIN_ENDED, FE_INVALID_FS}
        PROVE  /\ TheWalk[start.left] = Stop
               /\ call.ret = FE_CLUSTER_CHAIN_ENDED => Ended(before, start.cluster)
               /\ call.ret = FE_INVALID_FS => ~Ended(before, start.cluster)
    <2>1. Leads(i) /\ i < start.left /\ TheWalk[i] \in Cells
      BY <1>1, <1>4 DEF NthAnswer
    <2>2. start.left \in i + 1..DeviceCells
      BY <1>3, <2>1
    <2>3. CASE call.ret = FE_CLUSTER_CHAIN_ENDED
      <3>1. fat32_fat_entry_is_null(before[TheWalk[i]])
        BY <1>1, <2>3 DEF NthAnswer
      <3>2. QED
        BY <1>2, <1>3, <2>1, <2>2, <2>3, <3>1, WhereItEnds
        DEF FE_CLUSTER_CHAIN_ENDED, FE_INVALID_FS
    <2>4. CASE call.ret = FE_INVALID_FS
      <3>1. Damaged(before[TheWalk[i]])
        BY <1>1, <2>4 DEF NthAnswer
      <3>2. ~Follows(before[TheWalk[i]])
        BY <3>1 DEF Damaged, Follows
      <3>3. \A m \in i + 1..DeviceCells : TheWalk[m] = Stop
        BY <1>3, <3>2, AfterTheLast DEF TheWalk
      <3>4. QED
        BY <1>2, <1>3, <2>1, <2>2, <2>4, <3>1, <3>3, DamagedHasNoEnd
        DEF FE_CLUSTER_CHAIN_ENDED, FE_INVALID_FS
    <2>5. QED
      BY <1>4, <2>3, <2>4
  <1>5. call.ret = FE_OK => fat32_fat_entry_to_cluster(call.entry) = TheWalk[start.left]
    BY <1>1 DEF NthAnswer
  <1>6. QED
    BY <1>4, <1>5 DEF NthResult, TheWalk

-----------------------------------------------------------------------------
(***************************************************************************)
(* The properties.                                                         *)
(***************************************************************************)

\* Freeing a chain never touches a word outside of it, whatever the table
\* holds and wherever it fails: fat32_fat_mark_cluster_chain_free.
THEOREM OnlyTheChainIsCleared == Spec => []ClearsPrefixOfChain
  BY CallsInvariant, CallsInvClears, PTL

\* The result of fat32_fat_mark_cluster_chain_free is true, on tables without
\* reserved bits (the code compares whole words with the mark of the end) and
\* when only the end of the device makes a read short.
THEOREM FreeingTellsTheTruth ==
  ASSUME ReservedValues = {0}, FE_INVALID_DEV \notin ReadFaults
  PROVE  Spec => []FreeResult
  BY CallsInvariant, CallsInvFreeResult, PTL

\* The result of fat32_fat_get_nth_entry is true, on tables without reserved
\* bits.
THEOREM FollowingTellsTheTruth ==
  ASSUME ReservedValues = {0}
  PROVE  Spec => []NthResult
  BY CallsInvariant, CallsInvNthResult, PTL

\* A search for a free cluster that begins below all of them makes the lowest
\* one the hint or says truly that there is none, and a search that failed has
\* not moved the hint: fat32_fat_find_free_cluster, on every table.
THEOREM SearchesFindTheLowest == Spec => []FindsLowestFree
  <1>1. ASSUME CallsInv PROVE FindsLowestFree
    <2>1. SUFFICES ASSUME call.fn = "find_free_cluster", call.pc = "idle",
                          \A c \in FreeClusters : start.cluster <= c
                   PROVE  \/ hint \in FreeClusters /\ \A c \in FreeClusters : hint <= c
                          \/ /\ FreeClusters = {} /\ hint = start.cluster
                             /\ call.ret = FE_FS_IS_FULL
                          \/ hint = start.cluster /\ call.ret \in ReadFaults
      BY DEF FindsLowestFree
    <2>2. FreeFrom(start.cluster) = FreeClusters
      BY <2>1 DEF FreeFrom
    <2>3. FindAnswer
      BY <1>1, <2>1 DEF CallsInv, FindInv
    <2>4. QED
      BY <2>2, <2>3 DEF FindAnswer
  <1>2. QED
    BY <1>1, CallsInvariant, PTL

=============================================================================
