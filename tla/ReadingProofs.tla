--------------------------- MODULE ReadingProofs ---------------------------
(***************************************************************************)
(* Proofs about reading: of files (FileRead) and of directories (DirIter). *)
(*                                                                         *)
(* Files: with one thread in src/operations.c, a read returns the bytes    *)
(* the file has there, and fails only when the device does.  (With two     *)
(* threads neither is so: FileReadThreads.)                                *)
(*                                                                         *)
(* Directories: a path leads to its object and to no other, a listing has  *)
(* each entry once and in order, "empty" is said of what is, and no        *)
(* request leaves an object behind.                                        *)
(***************************************************************************)
EXTENDS FileRead, DirIter, SequenceTheorems, FiniteSetTheorems, WellFoundedInduction, TLAPS

-----------------------------------------------------------------------------
(***************************************************************************)
(* Quotients and remainders.                                               *)
(***************************************************************************)

LEMMA QuotientAndRemainder ==
  ASSUME NEW a \in Nat, NEW n \in Nat \ {0}
  PROVE  a \div n \in Nat /\ a % n \in 0..n - 1 /\ a = (a \div n) * n + (a % n)
  <1>1. a \div n \in Nat
    BY SMT
  <1>2. a % n \in 0..n - 1
    BY SMT
  <1>3. a = (a \div n) * n + (a % n)
    BY SMTT(60)
  <1>4. QED
    BY <1>1, <1>2, <1>3

LEMMA QuotientOf ==
  ASSUME NEW k \in Nat, NEW n \in Nat \ {0}, NEW r \in 0..n - 1
  PROVE  (k * n + r) \div n = k /\ (k * n + r) % n = r
  <1>1. (k * n + r) \div n = k
    BY SMT
  <1>2. (k * n + r) % n = r
    BY SMT
  <1>3. QED
    BY <1>1, <1>2

LEMMA MultiplesGrow ==
  ASSUME NEW k \in Nat, NEW m \in Nat, NEW n \in Nat, k < m
  PROVE  k * n \in Nat /\ m * n \in Nat /\ k * n + n <= m * n
  BY SMT

LEMMA NextMultiple ==
  ASSUME NEW k \in Nat, NEW n \in Nat
  PROVE  k * n \in Nat /\ (k + 1) * n = k * n + n
  BY SMT

LEMMA LeastNumber ==
  ASSUME NEW S \in SUBSET Nat, S # {}
  PROVE  \E n \in S : \A m \in S : n <= m
  <1>1. IsWellFoundedOn(OpToRel(<, Nat), Nat)
    BY NatLessThanWellFounded
  <1>2. PICK n \in S : \A m \in S : ~ (<<m, n>> \in OpToRel(<, Nat))
    BY <1>1, WFMin
  <1>3. \A m \in S : ~ (m < n)
    BY <1>2 DEF OpToRel
  <1>4. QED
    BY <1>3

-----------------------------------------------------------------------------
(***************************************************************************)
(*                             Reading files.                              *)
(***************************************************************************)

(***************************************************************************)
(* The invariant, of the one thread that serves requests.                  *)
(***************************************************************************)

Places == 0..FileSize \div ClusterSize

EndOf(l) ==
    IF l.offset + l.asked > FileSize THEN FileSize ELSE l.offset + l.asked

\* What was read so far is what the file has from the offset on, and "size"
\* is what is missing.
Progress(l) ==
    /\ l.offset < FileSize
    /\ l.offset + Len(l.buffer) + l.size = EndOf(l)
    /\ \A i \in 1..Len(l.buffer) : l.buffer[i] = FileByte(l.offset + i - 1)

\* The next byte to read is in the k-th cluster of the file.
InCluster(l, k) ==
    /\ l.offset + Len(l.buffer) = k * ClusterSize + l.coffset
    /\ l.coffset < ClusterSize
    /\ l.cluster = ChainCluster[k]

\* fat32_fat_get_nth_entry has followed the first links.
Following(l) ==
    LET n == l.offset \div ClusterSize
    IN  /\ l.buffer = <<>> /\ l.ret = FE_OK /\ l.coffset = l.offset % ClusterSize
        /\ l.left \in 1..n
        /\ l.cluster = ChainCluster[n - l.left]

\* A piece of the k-th cluster was read, up to its end if bytes are missing.
PieceRead(l, k) ==
    /\ k * ClusterSize < FileSize
    /\ l.cluster = ChainCluster[k] /\ l.ret = FE_OK /\ l.coffset = 0
    /\ l.size > 0 => l.offset + Len(l.buffer) = (k + 1) * ClusterSize

Idle(l) ==
    /\ l.reply = "data" => l.buffer = Asked(l)
    /\ l.reply # "-EINVAL"
    /\ l.reply \in {"-errno", "-FE_ERRNO"} => Len(l.buffer) < Len(Asked(l))

Running(l) ==
    /\ Progress(l)
    /\ l.pc \in {"nth_seek", "nth_read"} => Following(l)
    /\ l.pc = "seek" =>
         /\ l.ret \in {FE_OK, FE_ERRNO}
         /\ l.ret = FE_OK /\ l.size > 0 => \E k \in Places : InCluster(l, k)
    /\ l.pc = "read" =>
         l.size > 0 /\ l.ret = FE_OK /\ \E k \in Places : InCluster(l, k)
    /\ l.pc \in {"next_seek", "next_read"} => \E k \in Places : PieceRead(l, k)

\* Where the file offset stands between an lseek and the read after it.
Positioned(l, p) ==
    /\ l.pc \in {"nth_read", "next_read"} => p = entry_offset(l.cluster)
    /\ l.pc = "read" => p = cluster_to_offset(l.cluster) + l.coffset

LocalsInv(l, p) ==
    /\ l.pc = "idle" => Idle(l)
    /\ l.pc # "idle" => Running(l)
    /\ Positioned(l, p)

ThreadInv(t) == pos \in Int /\ th \in [Threads -> Locals] /\ LocalsInv(th[t], pos)

-----------------------------------------------------------------------------
(***************************************************************************)
(* The chain of the file and its bytes.                                    *)
(***************************************************************************)

\* Constants as the proofs use them.
LEMMA Sizes ==
  /\ ClusterSize \in Nat \ {0} /\ FileSize \in Nat /\ ClustersCount \in Nat
  /\ FatCells \in Nat /\ FatCells = ClustersCount + 2
  /\ ClustersCount * ClusterSize \in Nat /\ DeviceSize \in Nat
  /\ DeviceSize = FatCells + ClustersCount * ClusterSize
  /\ FileSize \div ClusterSize \in Nat
  <1>1. ClusterSize \in Nat \ {0} /\ FileSize \in Nat /\ ClustersCount \in Nat
    BY FileReadAssumption
  <1>2. ClustersCount * ClusterSize \in Nat
    BY <1>1, NextMultiple
  <1>3. FileSize \div ClusterSize \in Nat
    BY <1>1, QuotientAndRemainder
  <1>4. QED
    BY <1>1, <1>2, <1>3 DEF FatCells, DeviceSize

\* c lists the clusters of the chain as far as the n-th.
IsChain(c, n) ==
    c = [k \in 0..n |-> IF k = 0 THEN First ELSE Table[c[k - 1]].value]

LEMMA ChainExists ==
  ASSUME NEW n \in Nat
  PROVE  \E c : IsChain(c, n)
  <1> DEFINE Without == {m \in Nat : ~ \E c : IsChain(c, m)}
  <1>1. SUFFICES ASSUME Without # {} PROVE FALSE
    OBVIOUS
  <1>2. PICK m \in Without : \A l \in Without : m <= l
    BY <1>1, LeastNumber
  <1>3. CASE m = 0
    <2>1. IsChain([k \in 0..0 |-> First], 0)
      BY DEF IsChain
    <2>2. QED
      BY <1>2, <1>3, <2>1
  <1>4. CASE m # 0
    <2>1. m - 1 \in Nat /\ m - 1 \notin Without
      BY <1>2, <1>4
    <2>2. PICK c : IsChain(c, m - 1)
      BY <2>1
    <2> DEFINE d == [k \in 0..m |-> IF k = m THEN Table[c[m - 1]].value ELSE c[k]]
    <2>3. \A k \in 0..m : d[k] = IF k = 0 THEN First ELSE Table[d[k - 1]].value
      <3>1. \A k \in 0..m - 1 : c[k] = IF k = 0 THEN First ELSE Table[c[k - 1]].value
        BY <2>2 DEF IsChain
      <3> TAKE k \in 0..m
      <3>2. CASE k = m
        BY <1>4, <3>2, <2>1
      <3>3. CASE k # m
        <4>1. /\ k \in 0..m - 1 /\ d[k] = c[k]
              /\ k # 0 => k - 1 \in 0..m /\ d[k - 1] = c[k - 1]
          BY <3>3, <2>1
        <4>2. QED
          BY <3>1, <4>1
      <3>4. QED
        BY <3>2, <3>3
    <2>4. IsChain(d, m)
      <3>1. d = [k \in 0..m |-> d[k]]
        OBVIOUS
      <3> HIDE DEF d
      <3>2. QED
        BY <2>3, <3>1 DEF IsChain
    <2>5. QED
      BY <1>2, <2>4
  <1>5. QED
    BY <1>3, <1>4

LEMMA ChainSteps ==
  /\ ChainCluster[0] = First
  /\ \A k \in Places : k # 0 => ChainCluster[k] = Table[ChainCluster[k - 1]].value
  <1> DEFINE N == FileSize \div ClusterSize
  <1>1. N \in Nat
    BY Sizes
  <1>2. PICK c : IsChain(c, N)
    BY <1>1, ChainExists
  <1>3. ChainCluster =
          [k \in 0..N |-> IF k = 0 THEN First ELSE Table[ChainCluster[k - 1]].value]
    BY <1>2 DEF IsChain, ChainCluster
  <1>4. \A k \in 0..N :
          ChainCluster[k] = IF k = 0 THEN First ELSE Table[ChainCluster[k - 1]].value
    BY <1>3
  <1>5. QED
    BY <1>1, <1>4 DEF Places

\* A number below the size of the file is in one of the file's places.
LEMMA PlacesOfBytes ==
  ASSUME NEW k \in Nat, k * ClusterSize < FileSize
  PROVE  k \in Places
  <1> DEFINE N == FileSize \div ClusterSize
  <1>1. N \in Nat /\ FileSize % ClusterSize \in 0..ClusterSize - 1
        /\ FileSize = N * ClusterSize + (FileSize % ClusterSize)
    BY Sizes, QuotientAndRemainder
  <1> HIDE DEF N
  <1>2. ClusterSize \in Nat /\ FileSize \in Nat
    BY Sizes
  <1>3. ASSUME N < k PROVE FALSE
    <2>1. N * ClusterSize \in Nat /\ k * ClusterSize \in Nat
          /\ N * ClusterSize + ClusterSize <= k * ClusterSize
      BY <1>1, <1>2, <1>3, MultiplesGrow
    <2>2. QED
      BY <1>1, <1>2, <2>1
  <1>4. QED
    BY <1>1, <1>3 DEF Places, N

\* The clusters of the file are clusters, and each but the last leads on.
LEMMA ChainFacts ==
  ASSUME NEW k \in Nat, k * ClusterSize < FileSize
  PROVE  /\ k \in Places
         /\ ChainCluster[k] \in 2..FatCells - 1 /\ ChainCluster[k] \in Nat
         /\ Table[ChainCluster[k]] \in Entry
         /\ (k + 1) * ClusterSize < FileSize =>
              /\ ChainCluster[k + 1] = fat32_fat_entry_to_cluster(Table[ChainCluster[k]])
              /\ ~fat32_fat_entry_is_null(Table[ChainCluster[k]])
              /\ ~fat32_fat_entry_is_bad(Table[ChainCluster[k]])
              /\ ~fat32_fat_entry_is_free(Table[ChainCluster[k]])
  <1>1. k \in Places
    BY PlacesOfBytes
  <1>2. ChainCluster[k] \in 2..FatCells - 1
    BY <1>1, WholeChainAssumption DEF Places
  <1>3. ChainCluster[k] \in Nat /\ ChainCluster[k] \in 0..FatCells - 1
    BY <1>2, Sizes
  <1>4. Table[ChainCluster[k]] \in Entry
    BY <1>3, FileReadAssumption
  <1>5. ASSUME (k + 1) * ClusterSize < FileSize
        PROVE  ChainCluster[k + 1] = Table[ChainCluster[k]].value
    <2>1. k + 1 \in Places /\ k + 1 # 0 /\ (k + 1) - 1 = k
      BY <1>5, PlacesOfBytes
    <2>2. QED
      BY <2>1, ChainSteps
  <1>6. QED
    BY <1>1, <1>2, <1>3, <1>4, <1>5, WholeChainAssumption
    DEF Places, fat32_fat_entry_to_cluster

\* Where a byte of the file is.
LEMMA ByteOfPlace ==
  ASSUME NEW k \in Nat, NEW r \in 0..ClusterSize - 1
  PROVE  FileByte(k * ClusterSize + r) = cluster_to_offset(ChainCluster[k]) + r
  BY Sizes, QuotientOf DEF FileByte, ByteAt

\* The bytes of a cluster are on the device, behind the table.
LEMMA ClusterOnDevice ==
  ASSUME NEW c \in 2..FatCells - 1
  PROVE  /\ cluster_to_offset(c) \in Nat
         /\ cluster_to_offset(c) + ClusterSize <= DeviceSize
  <1>1. c - 2 \in Nat /\ c - 2 < ClustersCount
    BY Sizes
  <1>2. (c - 2) * ClusterSize \in Nat
        /\ (c - 2) * ClusterSize + ClusterSize <= ClustersCount * ClusterSize
    BY <1>1, Sizes, MultiplesGrow
  <1>3. QED
    BY <1>2, Sizes DEF cluster_to_offset

\* Reading the word of a cluster of the file.
LEMMA WordOfCluster ==
  ASSUME NEW c \in 2..FatCells - 1, pos = entry_offset(c), NEW r \in ReadWord
  PROVE  r = <<FE_OK, Table[c]>> \/ r = <<FE_ERRNO, Word(0)>>
  <1>1. c \in Nat /\ c < FatCells /\ OnDevice(c, 1)
    BY Sizes DEF OnDevice
  <1>2. pos = c /\ WordAt(pos) = Table[c]
    BY <1>1 DEF entry_offset, WordAt
  <1>3. QED
    BY <1>1, <1>2, FileReadAssumption DEF ReadWord

-----------------------------------------------------------------------------
(***************************************************************************)
(* Requests and answers.                                                   *)
(***************************************************************************)

LEMMA LocalsFields ==
  ASSUME NEW l \in Locals
  PROVE  /\ l.offset \in Nat /\ l.asked \in Nat /\ l.size \in Nat /\ l.coffset \in Nat
         /\ l.left \in Nat /\ l.cluster \in Nat /\ l.ret \in Nat
         /\ l.buffer \in Seq(Nat) /\ Len(l.buffer) \in Nat
         /\ l.pc \in {"idle", "nth_seek", "nth_read", "seek", "read",
                      "next_seek", "next_read"}
  BY DEF Locals

LEMMA EndOfRequest ==
  ASSUME NEW l \in Locals, l.offset < FileSize
  PROVE  /\ EndOf(l) \in Nat /\ l.offset <= EndOf(l) /\ EndOf(l) <= FileSize
         /\ Asked(l) = [i \in 1..EndOf(l) - l.offset |-> FileByte(l.offset + i - 1)]
         /\ Len(Asked(l)) = EndOf(l) - l.offset
  <1>1. l.offset \in Nat /\ l.asked \in Nat /\ FileSize \in Nat
    BY LocalsFields, Sizes
  <1>2. EndOf(l) \in Nat /\ l.offset <= EndOf(l) /\ EndOf(l) <= FileSize
    BY <1>1 DEF EndOf
  <1> DEFINE a == [i \in 1..EndOf(l) - l.offset |-> FileByte(l.offset + i - 1)]
  <1>3. Asked(l) = a
    <2>1. CASE l.offset >= EndOf(l)
      <3>1. EndOf(l) - l.offset = 0
        BY <1>1, <1>2, <2>1
      <3>2. a = <<>>
        BY <3>1
      <3>3. Asked(l) = <<>>
        BY <2>1 DEF Asked, EndOf
      <3>4. QED
        BY <3>2, <3>3
    <2>2. CASE ~(l.offset >= EndOf(l))
      BY <2>2 DEF Asked, EndOf
    <2>3. QED
      BY <2>1, <2>2
  <1>4. Len(a) = EndOf(l) - l.offset
    <2>1. EndOf(l) - l.offset \in Nat
      BY <1>1, <1>2
    <2>2. QED
      BY <2>1
  <1>5. QED
    BY <1>2, <1>3, <1>4

\* All was read when nothing is missing.
LEMMA AllRead ==
  ASSUME NEW l \in Locals, Progress(l)
  PROVE  /\ l.size = 0 => l.buffer = Asked(l)
         /\ l.size > 0 => Len(l.buffer) < Len(Asked(l))
  <1>1. /\ EndOf(l) \in Nat
        /\ Asked(l) = [i \in 1..EndOf(l) - l.offset |-> FileByte(l.offset + i - 1)]
        /\ Len(Asked(l)) = EndOf(l) - l.offset
    BY EndOfRequest DEF Progress
  <1>2. l.offset + Len(l.buffer) + l.size = EndOf(l)
        /\ \A i \in 1..Len(l.buffer) : l.buffer[i] = FileByte(l.offset + i - 1)
    BY DEF Progress
  <1>3. /\ l.offset \in Nat /\ l.size \in Nat
        /\ l.buffer \in Seq(Nat) /\ Len(l.buffer) \in Nat
    BY LocalsFields
  <1>4. l.size = 0 => Len(l.buffer) = EndOf(l) - l.offset
    BY <1>1, <1>2, <1>3
  <1>5. l.buffer = [i \in 1..Len(l.buffer) |-> l.buffer[i]]
    <2>1. l.buffer \in [1..Len(l.buffer) -> Nat]
      BY <1>3, LenProperties
    <2>2. QED
      BY <2>1
  <1>6. l.size = 0 => l.buffer = Asked(l)
    BY <1>1, <1>2, <1>4, <1>5
  <1>7. QED
    BY <1>1, <1>2, <1>3, <1>6

\* A byte that is missing is one the file has.
LEMMA MissingBytes ==
  ASSUME NEW l \in Locals, Progress(l)
  PROVE  l.offset + Len(l.buffer) + l.size <= FileSize
  BY EndOfRequest DEF Progress

\* What an assignment to the thread's locals makes of the invariant.
LEMMA NewLocals ==
  ASSUME NEW t \in Threads, th \in [Threads -> Locals],
         NEW x \in Locals, Set(t, x), pos' \in Int, LocalsInv(x, pos')
  PROVE  ThreadInv(t)'
  <1>1. th' \in [Threads -> Locals] /\ th'[t] = x
    BY DEF Set
  <1>2. QED
    BY <1>1 DEF ThreadInv

\* An answer keeps everything but the place and the reply.
LEMMA Answers ==
  ASSUME NEW t \in Threads, ThreadInv(t), UNCHANGED pos,
         NEW r \in Replies, Answer(t, r),
         r = "data" => th[t].buffer = Asked(th[t]),
         r # "-EINVAL",
         r \in {"-errno", "-FE_ERRNO"} => Len(th[t].buffer) < Len(Asked(th[t]))
  PROVE  ThreadInv(t)'
  <1> DEFINE x == [th[t] EXCEPT !.pc = "idle", !.reply = r]
  <1>1. th[t] \in Locals /\ pos \in Int /\ th \in [Threads -> Locals]
    BY DEF ThreadInv
  <1>2. x \in Locals
    BY <1>1 DEF Locals
  <1>3. /\ x.pc = "idle" /\ x.reply = r /\ x.buffer = th[t].buffer
        /\ x.offset = th[t].offset /\ x.asked = th[t].asked
    BY <1>1 DEF Locals
  <1>4. Asked(x) = Asked(th[t])
    BY <1>3 DEF Asked
  <1>5. LocalsInv(x, pos')
    BY <1>3, <1>4 DEF LocalsInv, Idle, Positioned
  <1>6. Set(t, x)
    BY DEF Answer
  <1>7. QED
    BY <1>1, <1>2, <1>5, <1>6, NewLocals

-----------------------------------------------------------------------------
(***************************************************************************)
(* Every step keeps the invariant.                                         *)
(***************************************************************************)

LEMMA InitThreadInv ==
  ASSUME NEW t, Threads = {t}
  PROVE  Init => ThreadInv(t)
  <1> SUFFICES ASSUME Init PROVE ThreadInv(t)
    OBVIOUS
  <1> DEFINE x == [pc |-> "idle", offset |-> 0, asked |-> 0, size |-> 0,
                   coffset |-> 0, left |-> 0, cluster |-> 0, ret |-> FE_OK,
                   buffer |-> <<>>, reply |-> "none"]
  <1>1. x \in Locals
    BY DEF Locals, FE_OK, Replies
  <1>2. th = [u \in Threads |-> x] /\ pos = 0
    BY DEF Init
  <1>3. th \in [Threads -> Locals] /\ th[t] = x
    BY <1>1, <1>2
  <1>4. LocalsInv(x, 0)
    BY DEF LocalsInv, Idle, Positioned
  <1>5. QED
    BY <1>2, <1>3, <1>4 DEF ThreadInv

LEMMA ReadInv ==
  ASSUME NEW t \in Threads, ThreadInv(t),
         NEW offset \in 0..MaxOffset, NEW size \in 0..MaxOffset, read(t, offset, size)
  PROVE  ThreadInv(t)'
  <1> DEFINE rest == IF offset >= FileSize THEN 0
                     ELSE IF offset + size > FileSize THEN FileSize - offset
                     ELSE size
             n == offset \div ClusterSize
             l == [th[t] EXCEPT !.offset = offset, !.asked = size, !.size = rest,
                     !.coffset = offset % ClusterSize, !.left = n,
                     !.cluster = First, !.ret = FE_OK, !.buffer = <<>>]
             y == [l EXCEPT !.reply = "data"]
             z == [l EXCEPT !.reply = "none", !.pc = IF n > 0 THEN "nth_seek" ELSE "seek"]
  <1>1. th[t] \in Locals /\ pos \in Int /\ th \in [Threads -> Locals] /\ pos' = pos
        /\ th[t].pc = "idle"
    BY DEF ThreadInv, read
  <1>2. offset \in Nat /\ size \in Nat /\ FileSize \in Nat /\ First \in Nat
        /\ ClusterSize \in Nat \ {0}
    BY FileReadAssumption
  <1>3. n \in Nat /\ offset % ClusterSize \in 0..ClusterSize - 1
        /\ offset = n * ClusterSize + (offset % ClusterSize)
    BY <1>2, QuotientAndRemainder
  <1>4. rest \in Nat
    BY <1>2
  <1>5. CASE offset >= FileSize
    <2>1. Set(t, y)
      BY <1>5 DEF read
    <2>2. y \in Locals
      <3>1. FE_OK \in Nat /\ <<>> \in Seq(Nat) /\ "data" \in Replies
            /\ offset % ClusterSize \in Nat
        BY <1>2, <1>3 DEF FE_OK, Replies
      <3> HIDE DEF rest, n
      <3>2. QED
        BY <1>1, <1>2, <1>3, <1>4, <3>1 DEF Locals
    <2>3. /\ y.pc = "idle" /\ y.reply = "data" /\ y.buffer = <<>>
          /\ y.offset = offset /\ y.asked = size
      BY <1>1 DEF Locals
    <2>4. Asked(y) = <<>>
      BY <1>2, <1>5, <2>3 DEF Asked
    <2>5. LocalsInv(y, pos')
      BY <2>3, <2>4 DEF LocalsInv, Idle, Positioned
    <2>6. QED
      BY <1>1, <2>1, <2>2, <2>5, NewLocals
  <1>6. CASE ~(offset >= FileSize)
    <2>1. Set(t, z)
      BY <1>6 DEF read
    <2>2. z \in Locals
      <3>1. FE_OK \in Nat /\ <<>> \in Seq(Nat) /\ "none" \in Replies
            /\ offset % ClusterSize \in Nat
        BY <1>2, <1>3 DEF FE_OK, Replies
      <3> HIDE DEF rest, n
      <3>2. QED
        BY <1>1, <1>2, <1>3, <1>4, <3>1 DEF Locals
    <2>3. /\ z.pc = IF n > 0 THEN "nth_seek" ELSE "seek"
          /\ z.buffer = <<>> /\ z.ret = FE_OK /\ z.left = n /\ z.cluster = First
          /\ z.offset = offset /\ z.asked = size /\ z.size = rest
          /\ z.coffset = offset % ClusterSize
      BY <1>1 DEF Locals
    <2> HIDE DEF z, l, n
    <2>4. Progress(z)
      <3>1. Len(z.buffer) = 0
        BY <2>3
      <3>2. offset + 0 + rest = EndOf(z)
        BY <1>2, <1>6, <2>3 DEF EndOf
      <3>3. QED
        BY <1>2, <1>6, <2>3, <3>1, <3>2 DEF Progress
    <2>5. ChainCluster[0] = First
      BY ChainSteps
    <2>6. CASE n > 0
      <3>1. n \in 1..n /\ n - n = 0
        BY <1>3, <2>6
      <3>2. Following(z)
        BY <2>3, <2>5, <3>1 DEF Following, n
      <3>3. QED
        BY <1>1, <2>1, <2>2, <2>3, <2>4, <2>6, <3>2, NewLocals
        DEF LocalsInv, Running, Positioned
    <2>7. CASE n = 0
      <3>1. offset + 0 = 0 * ClusterSize + (offset % ClusterSize)
        BY <1>2, <1>3, <2>7
      <3>2. InCluster(z, 0)
        BY <1>2, <1>3, <2>3, <2>5, <3>1 DEF InCluster
      <3>3. 0 \in Places
        BY Sizes DEF Places
      <3>4. QED
        BY <1>1, <1>3, <2>1, <2>2, <2>3, <2>4, <2>7, <3>2, <3>3, NewLocals
        DEF LocalsInv, Running, Positioned
    <2>8. QED
      BY <1>3, <2>6, <2>7
  <1>7. QED
    BY <1>5, <1>6

LEMMA NthSeekInv ==
  ASSUME NEW t \in Threads, ThreadInv(t), NthSeek(t)
  PROVE  ThreadInv(t)'
  <1> DEFINE l == th[t]
             x == [l EXCEPT !.pc = "nth_read"]
  <1>1. /\ l \in Locals /\ pos \in Int /\ th \in [Threads -> Locals]
        /\ l.pc = "nth_seek" /\ pos' = l.cluster /\ Set(t, x)
    BY DEF ThreadInv, NthSeek, Seek, entry_offset
  <1>2. Progress(l) /\ Following(l)
    BY <1>1 DEF ThreadInv, LocalsInv, Running
  <1>3. x \in Locals /\ x.pc = "nth_read" /\ x.cluster = l.cluster
    BY <1>1 DEF Locals
  <1>4. Progress(x)
    BY <1>1, <1>2 DEF Progress, EndOf, Locals
  <1>5. Following(x)
    BY <1>1, <1>2 DEF Following, Locals
  <1>6. pos' \in Int
    BY <1>1, LocalsFields
  <1>7. LocalsInv(x, pos')
    BY <1>1, <1>3, <1>4, <1>5 DEF LocalsInv, Running, Positioned, entry_offset
  <1>8. QED
    BY <1>1, <1>3, <1>6, <1>7, NewLocals

LEMMA NthReadInv ==
  ASSUME NEW t \in Threads, ThreadInv(t), NthRead(t)
  PROVE  ThreadInv(t)'
  <1> DEFINE l == th[t]
             n == l.offset \div ClusterSize
             k == n - l.left
  <1>1. /\ l \in Locals /\ pos \in Int /\ th \in [Threads -> Locals]
        /\ l.pc = "nth_read"
    BY DEF ThreadInv, NthRead
  <1>2. Progress(l) /\ Following(l) /\ pos = entry_offset(l.cluster)
    BY <1>1 DEF ThreadInv, LocalsInv, Running, Positioned
  <1>3. /\ l.offset \in Nat /\ l.offset < FileSize /\ l.left \in Nat /\ l.size \in Nat
        /\ ClusterSize \in Nat \ {0} /\ FileSize \in Nat
    BY <1>1, <1>2, LocalsFields, Sizes DEF Progress
  <1>4. /\ n \in Nat /\ l.offset % ClusterSize \in 0..ClusterSize - 1
        /\ l.offset = n * ClusterSize + (l.offset % ClusterSize)
    BY <1>3, QuotientAndRemainder
  <1>5. /\ l.buffer = <<>> /\ l.ret = FE_OK /\ l.coffset = l.offset % ClusterSize
        /\ l.left \in 1..n /\ l.cluster = ChainCluster[k]
    BY <1>2 DEF Following
  <1>a. n \in Nat /\ l.left \in Nat /\ l.left \in 1..n
    BY <1>3, <1>4, <1>5
  <1> HIDE DEF n
  <1>6. k \in Nat /\ k < n /\ k + 1 <= n /\ k + 1 \in Nat
    BY <1>a
  <1>7. (k + 1) * ClusterSize < FileSize /\ k * ClusterSize < FileSize
    <2>1. k * ClusterSize \in Nat /\ (k + 1) * ClusterSize = k * ClusterSize + ClusterSize
      BY <1>3, <1>6, NextMultiple
    <2>2. n * ClusterSize \in Nat /\ k * ClusterSize + ClusterSize <= n * ClusterSize
      BY <1>3, <1>4, <1>6, MultiplesGrow
    <2> HIDE DEF k
    <2>3. QED
      BY <1>3, <1>4, <2>1, <2>2
  <1>8. /\ ChainCluster[k] \in 2..FatCells - 1 /\ ChainCluster[k] \in Nat
        /\ Table[ChainCluster[k]] \in Entry
        /\ ChainCluster[k + 1] = fat32_fat_entry_to_cluster(Table[ChainCluster[k]])
        /\ ~fat32_fat_entry_is_null(Table[ChainCluster[k]])
        /\ ~fat32_fat_entry_is_bad(Table[ChainCluster[k]])
        /\ ~fat32_fat_entry_is_free(Table[ChainCluster[k]])
    BY <1>6, <1>7, ChainFacts
  <1>9. PICK r \in ReadWord :
          /\ pos' = IF r[1] = FE_OK THEN pos + 1 ELSE pos
          /\ Set(t, [l EXCEPT
                !.ret = nth_code(r),
                !.cluster = IF nth_code(r) = FE_OK
                            THEN fat32_fat_entry_to_cluster(r[2]) ELSE @,
                !.left = @ - 1,
                !.pc = IF nth_code(r) = FE_OK /\ l.left > 1
                       THEN "nth_seek" ELSE "seek"])
    BY DEF NthRead
  <1>10. r = <<FE_OK, Table[ChainCluster[k]]>> \/ r = <<FE_ERRNO, Word(0)>>
    BY <1>2, <1>5, <1>8, <1>9, WordOfCluster
  <1>11. pos' \in Int
    BY <1>1, <1>9
  <1>12. CASE r = <<FE_ERRNO, Word(0)>>
    <2> DEFINE x == [l EXCEPT !.ret = FE_ERRNO, !.cluster = l.cluster,
                       !.left = l.left - 1, !.pc = "seek"]
    <2>1. nth_code(r) = FE_ERRNO /\ FE_ERRNO # FE_OK /\ FE_ERRNO \in Nat
      BY <1>12 DEF nth_code, FE_ERRNO, FE_OK
    <2>2. Set(t, x)
      BY <1>9, <2>1
    <2>3. l.left - 1 \in Nat
      BY <1>3, <1>5
    <2>4. x \in Locals /\ x.pc = "seek" /\ x.ret = FE_ERRNO
      BY <1>1, <2>1, <2>3 DEF Locals
    <2>5. Progress(x)
      BY <1>1, <1>2 DEF Progress, EndOf, Locals
    <2>6. LocalsInv(x, pos')
      BY <2>1, <2>4, <2>5 DEF LocalsInv, Running, Positioned
    <2>7. QED
      BY <1>1, <1>11, <2>2, <2>4, <2>6, NewLocals
  <1>13. CASE r = <<FE_OK, Table[ChainCluster[k]]>>
    <2> DEFINE place == IF l.left > 1 THEN "nth_seek" ELSE "seek"
               x == [l EXCEPT !.ret = FE_OK, !.cluster = ChainCluster[k + 1],
                       !.left = l.left - 1, !.pc = place]
    <2>1. nth_code(r) = FE_OK /\ fat32_fat_entry_to_cluster(r[2]) = ChainCluster[k + 1]
      BY <1>8, <1>13 DEF nth_code
    <2>2. Set(t, x)
      BY <1>9, <2>1
    <2>3. l.left - 1 \in Nat /\ n - (l.left - 1) = k + 1
      BY <1>a
    <2>4. ChainCluster[k + 1] \in Nat
      BY <1>6, <1>7, ChainFacts
    <2> HIDE DEF k
    <2>5. /\ x \in Locals /\ x.pc = place /\ x.ret = FE_OK
          /\ x.left = l.left - 1 /\ x.cluster = ChainCluster[k + 1] /\ x.size = l.size
          /\ x.buffer = <<>> /\ x.offset = l.offset /\ x.coffset = l.offset % ClusterSize
      <3>1. FE_OK \in Nat /\ place \in {"nth_seek", "seek"}
        BY DEF FE_OK
      <3> HIDE DEF place
      <3>2. QED
        BY <1>1, <1>5, <2>3, <2>4, <3>1 DEF Locals
    <2>6. Progress(x)
      BY <1>1, <1>2 DEF Progress, EndOf, Locals
    <2> HIDE DEF x
    <2>7. CASE l.left > 1
      <3>1. x.left \in 1..n
        BY <1>a, <2>5, <2>7
      <3>2. Following(x)
        BY <2>3, <2>5, <3>1 DEF Following, n
      <3>3. LocalsInv(x, pos')
        BY <2>5, <2>6, <2>7, <3>2 DEF LocalsInv, Running, Positioned
      <3>4. QED
        BY <1>1, <1>11, <2>2, <2>5, <3>3, NewLocals
    <2>8. CASE l.left = 1
      <3>1. k + 1 = n /\ n \in Places
        <4>1. k + 1 = n
          BY <1>4, <2>3, <2>8
        <4>2. QED
          BY <1>6, <1>7, <4>1, PlacesOfBytes
      <3>2. InCluster(x, n)
        <4>1. Len(x.buffer) = 0
          BY <2>5
        <4>2. x.offset + Len(x.buffer) = n * ClusterSize + x.coffset
          <5>1. \A a, m, c \in Int : \A z : a = m + c /\ z = 0 => a + z = m + c
            OBVIOUS
          <5>2. /\ n * ClusterSize \in Int /\ x.coffset \in Int
                /\ x.offset \in Int
            <6>1. \A a, b \in Nat : a * b \in Int
              OBVIOUS
            <6>2. \A m \in 0..ClusterSize - 1 : m \in Int
              BY <1>3
            <6>3. n * ClusterSize \in Int
              BY <1>3, <1>4, <6>1
            <6>4. x.coffset \in Int
              BY <1>4, <2>5, <6>2
            <6>5. x.offset \in Int
              BY <1>3, <2>5
            <6>6. QED
              BY <6>3, <6>4, <6>5
          <5>3. x.offset = n * ClusterSize + x.coffset
            BY <1>4, <2>5
          <5>4. QED
            BY <4>1, <5>1, <5>2, <5>3
        <4>3. QED
          BY <1>3, <1>4, <2>5, <3>1, <4>2 DEF InCluster
      <3>3. place = "seek"
        BY <2>8
      <3>4. LocalsInv(x, pos')
        BY <2>5, <2>6, <3>1, <3>2, <3>3 DEF LocalsInv, Running, Positioned
      <3>5. QED
        BY <1>1, <1>11, <2>2, <2>5, <3>4, NewLocals
    <2>9. QED
      BY <1>5, <2>7, <2>8, <1>3
  <1>14. QED
    BY <1>10, <1>12, <1>13

LEMMA LoopInv ==
  ASSUME NEW t \in Threads, ThreadInv(t), LoopEnds(t) \/ LoopFails(t)
  PROVE  ThreadInv(t)'
  <1> DEFINE l == th[t]
  <1>1. l \in Locals /\ l.pc = "seek" /\ pos' = pos
    BY DEF ThreadInv, LoopEnds, LoopFails
  <1>2. Progress(l) /\ l.ret \in {FE_OK, FE_ERRNO}
    BY <1>1 DEF ThreadInv, LocalsInv, Running
  <1>3. /\ l.size = 0 => l.buffer = Asked(l)
        /\ l.size > 0 => Len(l.buffer) < Len(Asked(l))
    BY <1>1, <1>2, AllRead
  <1>4. CASE LoopEnds(t)
    <2>1. l.size = 0 /\ Answer(t, "data") /\ "data" \in Replies
      BY <1>4 DEF LoopEnds, Replies
    <2>2. QED
      BY <1>1, <1>3, <2>1, Answers
  <1>5. CASE LoopFails(t)
    <2>1. l.size > 0 /\ Answer(t, "-FE_ERRNO") /\ "-FE_ERRNO" \in Replies
      BY <1>2, <1>5 DEF LoopFails, Replies
    <2>2. QED
      BY <1>1, <1>3, <2>1, Answers
  <1>6. QED
    BY <1>4, <1>5

\* The cluster the next missing byte is in is one of the file's.
LEMMA InClusterFacts ==
  ASSUME NEW l \in Locals, Progress(l), l.size > 0, NEW k \in Places, InCluster(l, k)
  PROVE  /\ k \in Nat /\ k * ClusterSize \in Nat /\ k * ClusterSize < FileSize
         /\ l.cluster \in 2..FatCells - 1
         /\ l.coffset \in 0..ClusterSize - 1
  <1>1. k \in Nat /\ ClusterSize \in Nat \ {0} /\ FileSize \in Nat
    BY Sizes DEF Places
  <1>2. k * ClusterSize \in Nat
    BY <1>1, NextMultiple
  <1>3. l.offset + Len(l.buffer) + l.size <= FileSize
    BY MissingBytes
  <1>4. /\ l.offset \in Nat /\ Len(l.buffer) \in Nat /\ l.size \in Nat /\ l.coffset \in Nat
    BY LocalsFields
  <1>5. /\ l.offset + Len(l.buffer) = k * ClusterSize + l.coffset
        /\ l.coffset < ClusterSize /\ l.cluster = ChainCluster[k]
    BY DEF InCluster
  <1>6. k * ClusterSize < FileSize
    BY <1>1, <1>2, <1>3, <1>4, <1>5
  <1>7. QED
    BY <1>1, <1>2, <1>4, <1>5, <1>6, ChainFacts

LEMMA DataSeekInv ==
  ASSUME NEW t \in Threads, ThreadInv(t), DataSeek(t)
  PROVE  ThreadInv(t)'
  <1> DEFINE l == th[t]
             x == [l EXCEPT !.pc = "read"]
  <1>1. /\ l \in Locals /\ pos \in Int /\ th \in [Threads -> Locals]
        /\ l.pc = "seek" /\ l.size > 0 /\ l.ret = FE_OK
        /\ pos' = cluster_to_offset(l.cluster) + l.coffset /\ Set(t, x)
    BY DEF ThreadInv, DataSeek, Seek
  <1>2. Progress(l)
    BY <1>1 DEF ThreadInv, LocalsInv, Running
  <1>3. PICK k \in Places : InCluster(l, k)
    BY <1>1 DEF ThreadInv, LocalsInv, Running
  <1>4. cluster_to_offset(l.cluster) \in Nat /\ l.coffset \in Nat
    BY <1>1, <1>2, <1>3, InClusterFacts, ClusterOnDevice, LocalsFields
  <1>5. /\ x \in Locals /\ x.pc = "read" /\ x.size = l.size /\ x.coffset = l.coffset
        /\ x.cluster = l.cluster
    BY <1>1 DEF Locals
  <1>6. Progress(x)
    BY <1>1, <1>2 DEF Progress, EndOf, Locals
  <1>7. InCluster(x, k)
    BY <1>1, <1>3 DEF InCluster, Locals
  <1>8. LocalsInv(x, pos')
    BY <1>1, <1>5, <1>6, <1>7 DEF LocalsInv, Running, Positioned
  <1>9. pos' \in Int
    BY <1>1, <1>4
  <1>10. QED
    BY <1>1, <1>5, <1>8, <1>9, NewLocals

LEMMA DataReadInv ==
  ASSUME NEW t \in Threads, ThreadInv(t), DataRead(t)
  PROVE  ThreadInv(t)'
  <1> DEFINE l == th[t]
             room == ClusterSize - l.coffset
             want == IF room > l.size THEN l.size ELSE room
             piece == [i \in 1..want |-> ByteAt(pos + i - 1)]
             x == [l EXCEPT !.pc = "next_seek", !.coffset = 0, !.size = l.size - want,
                     !.buffer = l.buffer \o piece]
  <1>1. /\ l \in Locals /\ pos \in Int /\ th \in [Threads -> Locals]
        /\ l.pc = "read"
    BY DEF ThreadInv, DataRead
  <1>2. Progress(l) /\ l.size > 0 /\ pos = cluster_to_offset(l.cluster) + l.coffset
    BY <1>1 DEF ThreadInv, LocalsInv, Running, Positioned
  <1>3. PICK k \in Places : InCluster(l, k)
    BY <1>1 DEF ThreadInv, LocalsInv, Running
  <1>4. /\ k \in Nat /\ k * ClusterSize \in Nat /\ k * ClusterSize < FileSize
        /\ l.cluster \in 2..FatCells - 1 /\ l.coffset \in 0..ClusterSize - 1
    BY <1>1, <1>2, <1>3, InClusterFacts
  <1>5. /\ cluster_to_offset(l.cluster) \in Nat
        /\ cluster_to_offset(l.cluster) + ClusterSize <= DeviceSize
        /\ ClusterSize \in Nat \ {0} /\ DeviceSize \in Nat
    BY <1>4, ClusterOnDevice, Sizes
  <1>6. /\ l.offset \in Nat /\ l.size \in Nat /\ l.coffset \in Nat
        /\ l.buffer \in Seq(Nat) /\ Len(l.buffer) \in Nat
    BY <1>1, LocalsFields
  <1>7. /\ want \in Nat /\ want > 0 /\ want <= l.size /\ l.coffset + want <= ClusterSize
        /\ want = l.size \/ want = ClusterSize - l.coffset
    <2>1. \A n, c, s \in Nat : c < n /\ s > 0 =>
             LET w == IF n - c > s THEN s ELSE n - c
             IN  w \in Nat /\ w > 0 /\ w <= s /\ c + w <= n /\ (w = s \/ w = n - c)
      OBVIOUS
    <2>2. ClusterSize \in Nat /\ l.coffset < ClusterSize
      BY <1>4, <1>5, <1>6
    <2>3. QED
      BY <1>2, <1>6, <2>1, <2>2
  <1>8. OnDevice(pos, want)
    BY SMTT(30), <1>2, <1>5, <1>6, <1>7 DEF OnDevice
  <1>9. \/ pos' = pos + want /\ Set(t, x)
        \/ Answer(t, "-errno") /\ pos' = pos
    BY <1>8 DEF DataRead
  <1>10. CASE Answer(t, "-errno") /\ pos' = pos
    <2>1. Len(l.buffer) < Len(Asked(l))
      BY <1>1, <1>2, AllRead
    <2>2. "-errno" \in Replies
      BY DEF Replies
    <2>3. QED
      BY <1>10, <2>1, <2>2, Answers
  <1>11. CASE pos' = pos + want /\ Set(t, x)
    <2> HIDE DEF want, room
    <2>1. piece \in Seq(Nat) /\ Len(piece) = want
          /\ \A i \in 1..want : piece[i] = pos + i - 1
      <3>1. \A i \in 1..want : pos + i - 1 \in Nat
        BY SMTT(30), <1>2, <1>5, <1>6, <1>7
      <3>2. piece \in [1..want -> Nat] /\ \A i \in 1..want : piece[i] = pos + i - 1
        BY <3>1 DEF ByteAt
      <3>3. piece \in Seq(Nat)
        BY <1>7, <3>2, SeqDef
      <3>4. DOMAIN piece = 1..want
        OBVIOUS
      <3> HIDE DEF piece
      <3>5. Len(piece) \in Nat /\ DOMAIN piece = 1..Len(piece)
        BY <3>3, LenProperties
      <3>6. Len(piece) = want
        BY <1>7, <3>4, <3>5
      <3>7. QED
        BY <3>2, <3>3, <3>6
    <2>2. \A i \in 1..want : piece[i] = FileByte(l.offset + Len(l.buffer) + i - 1)
      <3> HIDE DEF piece
      <3> SUFFICES ASSUME NEW i \in 1..want
                   PROVE  piece[i] = FileByte(l.offset + Len(l.buffer) + i - 1)
        OBVIOUS
      <3> DEFINE r == l.coffset + i - 1
      <3>1. r \in 0..ClusterSize - 1
        <4>1. \A n, c, w \in Nat : \A m \in 1..w : c + w <= n => c + m - 1 \in 0..n - 1
          OBVIOUS
        <4>2. ClusterSize \in Nat
          BY <1>5
        <4>3. QED
          BY <1>6, <1>7, <4>1, <4>2
      <3>2. l.offset + Len(l.buffer) + i - 1 = k * ClusterSize + r
        <4>1. l.offset + Len(l.buffer) = k * ClusterSize + l.coffset
          BY <1>3 DEF InCluster
        <4>2. i \in Int
          BY <1>7
        <4>3. QED
          BY SMTT(30), <1>4, <1>6, <4>1, <4>2
      <3>3. FileByte(k * ClusterSize + r) = cluster_to_offset(l.cluster) + r
        BY <1>3, <1>4, <3>1, ByteOfPlace DEF InCluster
      <3>4. piece[i] = cluster_to_offset(l.cluster) + r
        <4>1. \A a, b, c \in Int : (a + b) + c - 1 = a + (b + c - 1)
          OBVIOUS
        <4>2. i \in Int /\ piece[i] = pos + i - 1
          BY <1>7, <2>1
        <4>3. QED
          BY <1>2, <1>5, <1>6, <4>1, <4>2
      <3>5. QED
        BY <3>2, <3>3, <3>4
    <2> HIDE DEF piece
    <2>3. /\ l.buffer \o piece \in Seq(Nat)
          /\ Len(l.buffer \o piece) = Len(l.buffer) + want
          /\ \A i \in 1..Len(l.buffer) + want :
                (l.buffer \o piece)[i] = IF i <= Len(l.buffer) THEN l.buffer[i]
                                        ELSE piece[i - Len(l.buffer)]
      BY <1>6, <2>1, ConcatProperties
    <2>4. /\ x \in Locals /\ x.pc = "next_seek" /\ x.coffset = 0 /\ x.size = l.size - want
          /\ x.buffer = l.buffer \o piece /\ x.offset = l.offset /\ x.asked = l.asked
          /\ x.cluster = l.cluster /\ x.ret = l.ret
      <3>1. l.size - want \in Nat
        BY <1>6, <1>7
      <3>2. QED
        BY <1>1, <2>3, <3>1 DEF Locals
    <2> HIDE DEF x
    <2>5. Progress(x)
      <3>1. x.offset < FileSize /\ EndOf(x) = EndOf(l)
        BY <1>2, <2>4 DEF Progress, EndOf
      <3>2. x.offset + Len(x.buffer) + x.size = EndOf(x)
        <4>1. l.offset + Len(l.buffer) + l.size = EndOf(l)
          BY <1>2 DEF Progress
        <4>2. PICK a, b, c, w \in Nat :
                a = l.offset /\ b = Len(l.buffer) /\ c = l.size /\ w = want
          BY <1>6, <1>7
        <4>3. l.offset + (Len(l.buffer) + want) + (l.size - want)
                = l.offset + Len(l.buffer) + l.size
          <5>1. a + (b + w) + (c - w) = a + b + c
            OBVIOUS
          <5>2. QED
            BY <4>2, <5>1
        <4>4. QED
          BY <2>3, <2>4, <3>1, <4>1, <4>3
      <3>3. ASSUME NEW i \in 1..Len(x.buffer)
            PROVE  x.buffer[i] = FileByte(x.offset + i - 1)
        <4>1. i \in 1..Len(l.buffer) + want
          BY <2>3, <2>4
        <4>2. CASE i <= Len(l.buffer)
          <5>1. i \in 1..Len(l.buffer)
            BY <1>6, <4>1, <4>2
          <5>2. QED
            BY <1>2, <2>3, <2>4, <4>1, <4>2, <5>1 DEF Progress
        <4>3. CASE ~(i <= Len(l.buffer))
          <5>1. /\ i - Len(l.buffer) \in 1..want
                /\ l.offset + Len(l.buffer) + (i - Len(l.buffer)) - 1 = l.offset + i - 1
            <6>1. \A o, b, w \in Nat : \A m \in 1..b + w : ~(m <= b) =>
                     m - b \in 1..w /\ o + b + (m - b) - 1 = o + m - 1
              OBVIOUS
            <6>2. QED
              BY <1>6, <1>7, <4>1, <4>3, <6>1
          <5>2. piece[i - Len(l.buffer)] = FileByte(l.offset + i - 1)
            BY <2>2, <5>1
          <5>3. QED
            BY <2>3, <2>4, <4>1, <4>3, <5>2
        <4>4. QED
          BY <4>2, <4>3
      <3>4. QED
        BY <3>1, <3>2, <3>3 DEF Progress
    <2>6. x.size > 0 => x.offset + Len(x.buffer) = (k + 1) * ClusterSize
      <3>1. (k + 1) * ClusterSize = k * ClusterSize + ClusterSize
        BY <1>4, <1>5, NextMultiple
      <3>2. l.offset + Len(l.buffer) = k * ClusterSize + l.coffset
        BY <1>3 DEF InCluster
      <3>3. x.size > 0 => want = ClusterSize - l.coffset
        BY <1>6, <1>7, <2>4
      <3>4. PICK a, b, c, m, n \in Nat :
              /\ a = l.offset /\ b = Len(l.buffer) /\ c = l.coffset
              /\ m = k * ClusterSize /\ n = ClusterSize
        BY <1>4, <1>5, <1>6
      <3>5. a + b = m + c
        BY <3>2, <3>4
      <3>6. l.offset + (Len(l.buffer) + (ClusterSize - l.coffset))
              = k * ClusterSize + ClusterSize
        <4>1. a + (b + (n - c)) = m + n
          BY <3>5
        <4>2. QED
          BY <3>4, <4>1
      <3>7. QED
        BY <2>3, <2>4, <3>1, <3>3, <3>6
    <2>7. l.ret = FE_OK
      BY <1>1 DEF ThreadInv, LocalsInv, Running
    <2>8. PieceRead(x, k)
      BY <1>3, <1>4, <2>4, <2>6, <2>7 DEF PieceRead, InCluster
    <2>9. LocalsInv(x, pos')
      BY <2>4, <2>5, <2>8 DEF LocalsInv, Running, Positioned
    <2>10. pos' \in Int
      BY <1>1, <1>7, <1>11
    <2>11. QED
      BY <1>1, <1>11, <2>4, <2>9, <2>10, NewLocals
  <1>12. QED
    BY <1>9, <1>10, <1>11

LEMMA NextSeekInv ==
  ASSUME NEW t \in Threads, ThreadInv(t), NextSeek(t)
  PROVE  ThreadInv(t)'
  <1> DEFINE l == th[t]
             x == [l EXCEPT !.pc = "next_read"]
  <1>1. /\ l \in Locals /\ pos \in Int /\ th \in [Threads -> Locals]
        /\ l.pc = "next_seek" /\ pos' = l.cluster /\ Set(t, x)
    BY DEF ThreadInv, NextSeek, Seek, entry_offset
  <1>2. Progress(l)
    BY <1>1 DEF ThreadInv, LocalsInv, Running
  <1>3. PICK k \in Places : PieceRead(l, k)
    BY <1>1 DEF ThreadInv, LocalsInv, Running
  <1>4. x \in Locals /\ x.pc = "next_read" /\ x.cluster = l.cluster
    BY <1>1 DEF Locals
  <1>5. Progress(x)
    BY <1>1, <1>2 DEF Progress, EndOf, Locals
  <1>6. PieceRead(x, k)
    BY <1>1, <1>3 DEF PieceRead, Locals
  <1>7. pos' \in Int
    BY <1>1, LocalsFields
  <1>8. LocalsInv(x, pos')
    BY <1>1, <1>4, <1>5, <1>6 DEF LocalsInv, Running, Positioned, entry_offset
  <1>9. QED
    BY <1>1, <1>4, <1>7, <1>8, NewLocals

LEMMA NextReadInv ==
  ASSUME NEW t \in Threads, ThreadInv(t), NextRead(t)
  PROVE  ThreadInv(t)'
  <1> DEFINE l == th[t]
  <1>1. /\ l \in Locals /\ pos \in Int /\ th \in [Threads -> Locals]
        /\ l.pc = "next_read"
    BY DEF ThreadInv, NextRead
  <1>2. Progress(l) /\ pos = entry_offset(l.cluster)
    BY <1>1 DEF ThreadInv, LocalsInv, Running, Positioned
  <1>3. PICK k \in Places : PieceRead(l, k)
    BY <1>1 DEF ThreadInv, LocalsInv, Running
  <1>4. /\ k \in Nat /\ k + 1 \in Nat /\ k * ClusterSize < FileSize
        /\ l.cluster = ChainCluster[k] /\ l.ret = FE_OK /\ l.coffset = 0
        /\ l.size > 0 => l.offset + Len(l.buffer) = (k + 1) * ClusterSize
    BY <1>3, Sizes DEF Places, PieceRead
  <1>5. ChainCluster[k] \in 2..FatCells - 1 /\ Table[ChainCluster[k]] \in Entry
    BY <1>4, ChainFacts
  <1>6. PICK r \in ReadWord :
          /\ pos' = IF r[1] = FE_OK THEN pos + 1 ELSE pos
          /\ Set(t, [l EXCEPT !.pc = "seek", !.ret = r[1],
                       !.cluster = IF r[1] = FE_OK
                                   THEN fat32_fat_entry_to_cluster(r[2]) ELSE @])
    BY DEF NextRead
  <1>7. r = <<FE_OK, Table[ChainCluster[k]]>> \/ r = <<FE_ERRNO, Word(0)>>
    BY <1>2, <1>4, <1>5, <1>6, WordOfCluster
  <1>8. pos' \in Int
    BY <1>1, <1>6
  <1>9. CASE r = <<FE_ERRNO, Word(0)>>
    <2> DEFINE x == [l EXCEPT !.pc = "seek", !.ret = FE_ERRNO, !.cluster = l.cluster]
    <2>1. FE_ERRNO # FE_OK /\ FE_ERRNO \in Nat
      BY DEF FE_ERRNO, FE_OK
    <2>2. Set(t, x)
      BY <1>6, <1>9, <2>1
    <2>3. x \in Locals /\ x.pc = "seek" /\ x.ret = FE_ERRNO
      BY <1>1, <2>1 DEF Locals
    <2>4. Progress(x)
      BY <1>1, <1>2 DEF Progress, EndOf, Locals
    <2>5. LocalsInv(x, pos')
      BY <2>1, <2>3, <2>4 DEF LocalsInv, Running, Positioned
    <2>6. QED
      BY <1>1, <1>8, <2>2, <2>3, <2>5, NewLocals
  <1>10. CASE r = <<FE_OK, Table[ChainCluster[k]]>>
    <2> DEFINE next == fat32_fat_entry_to_cluster(Table[ChainCluster[k]])
               x == [l EXCEPT !.pc = "seek", !.ret = FE_OK, !.cluster = next]
    <2>1. Set(t, x)
      BY <1>6, <1>10
    <2>2. next \in Nat
      BY <1>5, Sizes, ClusterSpaceAssumption DEF Entry, fat32_fat_entry_to_cluster
    <2> HIDE DEF next
    <2>3. /\ x \in Locals /\ x.pc = "seek" /\ x.ret = FE_OK /\ x.cluster = next
          /\ x.size = l.size /\ x.coffset = 0 /\ x.offset = l.offset /\ x.buffer = l.buffer
      BY <1>1, <1>4, <2>2 DEF Locals, FE_OK
    <2>4. Progress(x)
      BY <1>1, <1>2 DEF Progress, EndOf, Locals
    <2> HIDE DEF x
    <2>5. ASSUME x.size > 0
          PROVE  \E m \in Places : InCluster(x, m)
      <3>1. l.offset + Len(l.buffer) = (k + 1) * ClusterSize
        BY <1>4, <2>3, <2>5
      <3>2. (k + 1) * ClusterSize < FileSize
        <4>1. l.offset + Len(l.buffer) + l.size <= FileSize
          BY <1>1, <1>2, MissingBytes
        <4>2. PICK a, b, c \in Nat : a = l.offset /\ b = Len(l.buffer) /\ c = l.size
          BY <1>1, LocalsFields
        <4>3. PICK f \in Nat : f = FileSize
          BY Sizes
        <4>4. c > 0 /\ a + b + c <= f
          BY <2>3, <2>5, <4>1, <4>2, <4>3
        <4>5. a + b < f
          BY <4>4
        <4>6. QED
          BY <3>1, <4>2, <4>3, <4>5
      <3>3. k + 1 \in Places /\ next = ChainCluster[k + 1]
        BY <1>4, <3>2, ChainFacts, PlacesOfBytes DEF next
      <3>4. (k + 1) * ClusterSize = (k + 1) * ClusterSize + 0 /\ 0 < ClusterSize
        BY SMTT(30), <1>4, Sizes, NextMultiple
      <3>5. InCluster(x, k + 1)
        BY <2>3, <3>1, <3>3, <3>4 DEF InCluster
      <3>6. QED
        BY <3>3, <3>5
    <2>6. LocalsInv(x, pos')
      BY <2>3, <2>4, <2>5 DEF LocalsInv, Running, Positioned
    <2>7. QED
      BY <1>1, <1>8, <2>1, <2>3, <2>6, NewLocals
  <1>11. QED
    BY <1>7, <1>9, <1>10

LEMMA NextThreadInv ==
  ASSUME NEW t, Threads = {t}
  PROVE  ThreadInv(t) /\ [Next]_vars => ThreadInv(t)'
  <1> SUFFICES ASSUME ThreadInv(t), [Next]_vars PROVE ThreadInv(t)'
    OBVIOUS
  <1>1. t \in Threads
    OBVIOUS
  <1>2. CASE UNCHANGED vars
    BY <1>2 DEF vars, ThreadInv
  <1>3. CASE \E offset, size \in 0..MaxOffset : read(t, offset, size)
    BY <1>1, <1>3, ReadInv
  <1>4. CASE NthSeek(t)
    BY <1>1, <1>4, NthSeekInv
  <1>5. CASE NthRead(t)
    BY <1>1, <1>5, NthReadInv
  <1>6. CASE LoopEnds(t) \/ LoopFails(t)
    BY <1>1, <1>6, LoopInv
  <1>7. CASE DataSeek(t)
    BY <1>1, <1>7, DataSeekInv
  <1>8. CASE DataRead(t)
    BY <1>1, <1>8, DataReadInv
  <1>9. CASE NextSeek(t)
    BY <1>1, <1>9, NextSeekInv
  <1>10. CASE NextRead(t)
    BY <1>1, <1>10, NextReadInv
  <1>11. QED
    BY <1>2, <1>3, <1>4, <1>5, <1>6, <1>7, <1>8, <1>9, <1>10 DEF Next, Step

-----------------------------------------------------------------------------
(***************************************************************************)
(* The properties.                                                         *)
(***************************************************************************)

\* With one thread, every place of fat32_read knows which byte of the file
\* comes next and where it is.
THEOREM OneReaderInvariant ==
  ASSUME NEW t, Threads = {t}
  PROVE  Spec => []ThreadInv(t)
  BY InitThreadInv, NextThreadInv, PTL DEF Spec

\* The types of the file offset and the locals, with one thread.
THEOREM TypesOfReading ==
  ASSUME NEW t, Threads = {t}
  PROVE  Spec => []TypeOK
  <1>1. ThreadInv(t) => TypeOK
    BY DEF ThreadInv, TypeOK
  <1>2. QED
    BY <1>1, OneReaderInvariant, PTL

\* What fat32_read returns with success is what the file holds at the offset
\* asked for, all of it, for any file, cluster size and order of clusters.
THEOREM ReadsReturnTheFile ==
  ASSUME NEW t, Threads = {t}
  PROVE  Spec => []ReadsTheFile
  <1>1. ThreadInv(t) => ReadsTheFile
    BY DEF ThreadInv, LocalsInv, Idle, ReadsTheFile
  <1>2. QED
    BY <1>1, OneReaderInvariant, PTL

\* fat32_read fails only when an access did, and then before the last byte.
THEOREM ReadsFailWithTheDevice ==
  ASSUME NEW t, Threads = {t}
  PROVE  Spec => []FailsOnlyWithDevice
  <1>1. ThreadInv(t) => FailsOnlyWithDevice
    BY DEF ThreadInv, LocalsInv, Idle, FailsOnlyWithDevice
  <1>2. QED
    BY <1>1, OneReaderInvariant, PTL

-----------------------------------------------------------------------------
(***************************************************************************)
(*                          Reading directories.                           *)
(***************************************************************************)

(***************************************************************************)
(* Chains of directories.                                                  *)
(***************************************************************************)

\* How far a cluster is from the end of its chain, at most.
Ranks(t, rank) ==
    /\ rank \in [DOMAIN Content -> 0..Cardinality(DOMAIN Content)]
    /\ \A c \in DOMAIN Content : ~Ends(t[c]) =>
         t[c].value \in DOMAIN Content /\ rank[t[c].value] < rank[c]

LEMMA TheRanks ==
  ASSUME NEW t \in Tables
  PROVE  /\ Cardinality(DOMAIN Content) \in Nat
         /\ \E rank : Ranks(t, rank)
         /\ \A rank : Ranks(t, rank) => \A c \in DOMAIN Content : rank[c] \in Nat
  <1>1. Cardinality(DOMAIN Content) \in Nat
    BY DirectoriesAssumption, FS_CardinalityType
  <1>2. \E rank : Ranks(t, rank)
    BY DirectoriesAssumption DEF Ranks
  <1>3. \A rank : Ranks(t, rank) => \A c \in DOMAIN Content : rank[c] \in Nat
    BY <1>1 DEF Ranks
  <1>4. QED
    BY <1>1, <1>2, <1>3

\* f lists the chain of each cluster of the set D.
ListsChains(t, f, D) ==
    f = [c \in D |-> IF Ends(t[c]) THEN <<c>> ELSE <<c>> \o f[t[c].value]]

LEMMA ChainsBelow ==
  ASSUME NEW t \in Tables, NEW rank, Ranks(t, rank), NEW n \in Nat
  PROVE  \E f : ListsChains(t, f, {c \in DOMAIN Content : rank[c] < n})
  <1> DEFINE Below(m) == {c \in DOMAIN Content : rank[c] < m}
             Without == {m \in Nat : ~ \E f : ListsChains(t, f, Below(m))}
  <1>1. SUFFICES ASSUME Without # {} PROVE FALSE
    OBVIOUS
  <1>2. PICK m \in Without : \A l \in Without : m <= l
    BY <1>1, LeastNumber
  <1>3. \A c \in DOMAIN Content : rank[c] \in Nat
    BY TheRanks
  <1>4. CASE m = 0
    <2>1. Below(m) = {}
      BY <1>3, <1>4
    <2> HIDE DEF Below
    <2>2. ListsChains(t, <<>>, {})
      BY DEF ListsChains
    <2>3. QED
      BY <1>2, <2>1, <2>2
  <1>5. CASE m # 0
    <2>1. m - 1 \in Nat /\ m - 1 \notin Without
      <3> HIDE DEF Without
      <3>1. m \in Nat
        BY <1>2 DEF Without
      <3>2. m - 1 \in Nat /\ ~(m <= m - 1)
        BY <1>5, <3>1
      <3>3. QED
        BY <1>2, <3>2
    <2>2. PICK f : ListsChains(t, f, Below(m - 1))
      BY <2>1
    <2> DEFINE g == [c \in Below(m) |-> IF Ends(t[c]) THEN <<c>> ELSE <<c>> \o f[t[c].value]]
    <2>3. ASSUME NEW c \in Below(m), ~Ends(t[c])
          PROVE  t[c].value \in Below(m) /\ t[c].value \in Below(m - 1)
      <3>1. /\ c \in DOMAIN Content /\ t[c].value \in DOMAIN Content
            /\ rank[t[c].value] < rank[c] /\ rank[c] < m
        BY <2>3 DEF Ranks
      <3>2. rank[t[c].value] \in Nat /\ rank[c] \in Nat
        BY <1>3, <3>1
      <3>3. QED
        BY <2>1, <3>1, <3>2
    <2>4. \A c \in Below(m - 1) : c \in Below(m) /\ g[c] = f[c]
      <3> TAKE c \in Below(m - 1)
      <3>1. c \in DOMAIN Content /\ rank[c] \in Nat /\ rank[c] < m - 1
        BY <1>3
      <3>2. c \in Below(m)
        BY <2>1, <3>1
      <3>3. f[c] = IF Ends(t[c]) THEN <<c>> ELSE <<c>> \o f[t[c].value]
        <4> HIDE DEF Below
        <4>1. QED
          BY <2>2 DEF ListsChains
      <3>4. QED
        BY <3>2, <3>3
    <2>5. \A c \in Below(m) :
            (IF Ends(t[c]) THEN <<c>> ELSE <<c>> \o f[t[c].value])
            = IF Ends(t[c]) THEN <<c>> ELSE <<c>> \o g[t[c].value]
      BY <2>3, <2>4
    <2>6. ListsChains(t, g, Below(m))
      <3> HIDE DEF Below
      <3>1. g = [c \in Below(m) |-> IF Ends(t[c]) THEN <<c>> ELSE <<c>> \o g[t[c].value]]
        BY <2>5
      <3>2. QED
        BY <3>1 DEF ListsChains
    <2>7. QED
      BY <1>2, <2>6
  <1>6. QED
    BY <1>4, <1>5

\* The recursive definition has a solution.
LEMMA ChainsExist ==
  ASSUME NEW t \in Tables
  PROVE  \E f : ListsChains(t, f, DOMAIN Content)
  <1> DEFINE N == Cardinality(DOMAIN Content)
  <1>1. PICK rank : Ranks(t, rank)
    BY TheRanks
  <1>2. N \in Nat
    BY TheRanks
  <1>3. {c \in DOMAIN Content : rank[c] < N + 1} = DOMAIN Content
    <2>1. \A c \in DOMAIN Content : rank[c] \in 0..N
      BY <1>1 DEF Ranks
    <2> HIDE DEF N
    <2>2. QED
      BY <1>2, <2>1
  <1>4. \E f : ListsChains(t, f, {c \in DOMAIN Content : rank[c] < N + 1})
    <2>1. N + 1 \in Nat
      BY <1>2
    <2> HIDE DEF N
    <2>2. QED
      BY <1>1, <2>1, ChainsBelow
  <1>5. QED
    BY <1>3, <1>4

LEMMA ChainUnfolds ==
  ASSUME NEW t \in Tables, NEW c \in DOMAIN Content
  PROVE  ChainOf(t, c) = IF Ends(t[c]) THEN <<c>> ELSE <<c>> \o ChainOf(t, t[c].value)
  <1> DEFINE F == CHOOSE f : ListsChains(t, f, DOMAIN Content)
  <1>1. ListsChains(t, F, DOMAIN Content)
    BY ChainsExist
  <1>2. \A x : ChainOf(t, x) = F[x]
    BY DEF ChainOf, ListsChains
  <1> HIDE DEF F
  <1>3. F[c] = IF Ends(t[c]) THEN <<c>> ELSE <<c>> \o F[t[c].value]
    BY <1>1 DEF ListsChains
  <1>4. QED
    BY <1>2, <1>3

\* What a chain is.
IsChainFrom(t, chain, first) ==
    /\ chain \in Seq(DOMAIN Content) /\ Len(chain) \in Nat \ {0}
    /\ chain[1] = first
    /\ \A i \in 1..Len(chain) - 1 : ~Ends(t[chain[i]]) /\ chain[i + 1] = t[chain[i]].value
    /\ Ends(t[chain[Len(chain)]])

LEMMA LongerChain ==
  ASSUME NEW t \in Tables, NEW c \in DOMAIN Content, ~Ends(t[c]),
         NEW chain, IsChainFrom(t, chain, t[c].value)
  PROVE  IsChainFrom(t, <<c>> \o chain, c)
  <1> DEFINE longer == <<c>> \o chain
  <1>1. chain \in Seq(DOMAIN Content) /\ Len(chain) \in Nat \ {0}
    BY DEF IsChainFrom
  <1>2. <<c>> \in Seq(DOMAIN Content) /\ Len(<<c>>) = 1
    OBVIOUS
  <1>3. /\ longer \in Seq(DOMAIN Content) /\ Len(longer) = Len(chain) + 1
        /\ longer[1] = c
        /\ \A i \in 1..Len(chain) : longer[i + 1] = chain[i]
    <2>1. /\ longer \in Seq(DOMAIN Content) /\ Len(longer) = Len(<<c>>) + Len(chain)
          /\ \A i \in 1..Len(<<c>>) + Len(chain) :
               longer[i] = IF i <= Len(<<c>>) THEN <<c>>[i] ELSE chain[i - Len(<<c>>)]
      BY <1>1, <1>2, ConcatProperties
    <2> HIDE DEF longer
    <2>2. QED
      BY <1>1, <1>2, <2>1
  <1> HIDE DEF longer
  <1>4. \A i \in 1..Len(longer) - 1 :
          ~Ends(t[longer[i]]) /\ longer[i + 1] = t[longer[i]].value
    <2> TAKE i \in 1..Len(longer) - 1
    <2>1. CASE i = 1
      BY <1>1, <1>3, <2>1 DEF IsChainFrom
    <2>2. CASE i # 1
      <3>1. i - 1 \in 1..Len(chain) - 1
        BY <1>1, <1>3, <2>2
      <3>2. longer[i] = chain[i - 1] /\ longer[i + 1] = chain[i]
        BY <1>1, <1>3, <3>1
      <3>3. ~Ends(t[chain[i - 1]]) /\ chain[(i - 1) + 1] = t[chain[i - 1]].value
        BY <3>1 DEF IsChainFrom
      <3>4. QED
        BY <3>1, <3>2, <3>3
    <2>3. QED
      BY <2>1, <2>2
  <1>5. Ends(t[longer[Len(longer)]])
    BY <1>1, <1>3 DEF IsChainFrom
  <1>6. IsChainFrom(t, longer, c)
    BY <1>1, <1>3, <1>4, <1>5 DEF IsChainFrom
  <1>7. QED
    BY <1>6 DEF longer

LEMMA ChainFromFirst ==
  ASSUME NEW t \in Tables, NEW first \in DOMAIN Content
  PROVE  IsChainFrom(t, ChainOf(t, first), first)
  <1>1. PICK rank : Ranks(t, rank)
    BY TheRanks
  <1>2. \A c \in DOMAIN Content : rank[c] \in Nat
    BY <1>1, TheRanks
  <1> DEFINE Wrong == {c \in DOMAIN Content : ~IsChainFrom(t, ChainOf(t, c), c)}
  <1>3. SUFFICES ASSUME Wrong # {} PROVE FALSE
    OBVIOUS
  <1>4. PICK c \in Wrong : \A d \in Wrong : rank[c] <= rank[d]
    <2>1. {rank[d] : d \in Wrong} \in SUBSET Nat /\ {rank[d] : d \in Wrong} # {}
      BY <1>2, <1>3
    <2>2. PICK n \in {rank[d] : d \in Wrong} : \A m \in {rank[d] : d \in Wrong} : n <= m
      BY <2>1, LeastNumber
    <2>3. QED
      BY <2>2
  <1>5. CASE Ends(t[c])
    <2>1. ChainOf(t, c) = <<c>>
      BY <1>5, ChainUnfolds
    <2>2. IsChainFrom(t, <<c>>, c)
      BY <1>5 DEF IsChainFrom
    <2>3. QED
      BY <1>4, <2>1, <2>2
  <1>6. CASE ~Ends(t[c])
    <2>1. t[c].value \in DOMAIN Content /\ rank[t[c].value] < rank[c]
      BY <1>1, <1>6 DEF Ranks
    <2>2. t[c].value \notin Wrong
      BY <1>2, <1>4, <2>1
    <2>3. IsChainFrom(t, <<c>> \o ChainOf(t, t[c].value), c)
      BY <1>6, <2>1, <2>2, LongerChain
    <2>4. QED
      BY <1>4, <1>6, <2>3, ChainUnfolds
  <1>7. QED
    BY <1>5, <1>6

-----------------------------------------------------------------------------
(***************************************************************************)
(* Names: what the format makes of a short name is the name of the entry.  *)
(***************************************************************************)

LEMMA GreatestOf ==
  ASSUME NEW N \in Nat, NEW S \in SUBSET (0..N), S # {}
  PROVE  Max(S) \in S /\ \A y \in S : y <= Max(S)
  <1> DEFINE T == {N - x : x \in S}
  <1>1. T \in SUBSET Nat /\ T # {}
    <2>1. \A x \in S : x \in 0..N /\ N - x \in Nat
      OBVIOUS
    <2>2. QED
      BY <2>1
  <1>2. PICK n \in T : \A m \in T : n <= m
    BY <1>1, LeastNumber
  <1>3. PICK x \in S : n = N - x
    BY <1>2
  <1>4. \A y \in S : x >= y
    <2> TAKE y \in S
    <2>1. N - x <= N - y /\ x \in Int /\ y \in Int
      BY <1>2, <1>3
    <2>2. QED
      BY <2>1
  <1>5. Max(S) \in S /\ \A y \in S : Max(S) >= y
    BY <1>4 DEF Max
  <1>6. QED
    BY <1>5

LEMMA SpaceIsNotDot == Space # Dot
  BY DEF Space, Dot

\* Where what is stripped ends.
EndOfText(chars) == Max({0} \cup {i \in DOMAIN chars : chars[i] # Space})

LEMMA StrippedText ==
  ASSUME NEW N \in Nat, NEW chars \in [1..N -> Chars]
  PROVE  /\ EndOfText(chars) \in 0..N
         /\ Stripped(chars) \in Seq(Chars) /\ Len(Stripped(chars)) = EndOfText(chars)
         /\ DOMAIN Stripped(chars) = 1..EndOfText(chars)
         /\ \A i \in 1..EndOfText(chars) : Stripped(chars)[i] = chars[i]
         /\ \A i \in 1..N : i > EndOfText(chars) => chars[i] = Space
         /\ EndOfText(chars) = 0 \/ chars[EndOfText(chars)] # Space
  <1> DEFINE S == {0} \cup {i \in DOMAIN chars : chars[i] # Space}
             m == EndOfText(chars)
  <1>1. /\ \A y \in S : y \in 0..N /\ (y = 0 \/ chars[y] # Space)
        /\ \A y \in 1..N : chars[y] # Space => y \in S
        /\ 0 \in S
    <2>1. DOMAIN chars = 1..N
      OBVIOUS
    <2>2. \A y \in S : y = 0 \/ (y \in 1..N /\ chars[y] # Space)
      BY <2>1
    <2>3. QED
      BY <2>1, <2>2
  <1>2. m = Max(S)
    BY DEF EndOfText
  <1> HIDE DEF m, S
  <1>3. S \in SUBSET (0..N) /\ S # {}
    BY <1>1
  <1>4. m \in S /\ \A y \in S : y <= m
    BY <1>2, <1>3, GreatestOf
  <1>5. /\ m \in 0..N
        /\ \A i \in 1..N : i > m => chars[i] = Space
        /\ m = 0 \/ chars[m] # Space
    <2>1. m \in 0..N /\ (m = 0 \/ chars[m] # Space)
      BY <1>1, <1>4
    <2>2. \A i \in 1..N : chars[i] # Space => i <= m
      BY <1>1, <1>4
    <2>3. ASSUME NEW i \in 1..N, i > m PROVE chars[i] = Space
      BY <2>1, <2>2, <2>3
    <2>4. QED
      BY <2>1, <2>3
  <1>6. Stripped(chars) = SubSeq(chars, 1, m)
    BY DEF Stripped, EndOfText, m
  <1>7. chars \in Seq(Chars) /\ Len(chars) = N
    OBVIOUS
  <1>8. /\ SubSeq(chars, 1, m) \in Seq(Chars) /\ Len(SubSeq(chars, 1, m)) = m
        /\ \A i \in 1..m : SubSeq(chars, 1, m)[i] = chars[i]
    <2>1. \A i \in 1..m : chars[i] \in Chars
      BY <1>5
    <2>2. /\ Len(SubSeq(chars, 1, m)) = IF 1 <= m THEN m - 1 + 1 ELSE 0
          /\ \A i \in 1..m - 1 + 1 : SubSeq(chars, 1, m)[i] = chars[1 + i - 1]
          /\ SubSeq(chars, 1, m) \in Seq(Chars)
      BY <1>5, <2>1, SubSeqProperties
    <2>3. QED
      BY <1>5, <2>2
  <1>9. DOMAIN SubSeq(chars, 1, m) = 1..m
    BY <1>8, LenProperties
  <1>10. QED
    BY <1>5, <1>6, <1>8, <1>9 DEF m

\* Filling up undoes stripping, for whatever agrees with the stripped text.
LEMMA FilledText ==
  ASSUME NEW N \in Nat, NEW chars \in [1..N -> Chars], NEW text,
         DOMAIN text = 1..EndOfText(chars),
         \A i \in 1..EndOfText(chars) : text[i] = chars[i]
  PROVE  Filled(text, N) = chars
  <1>1. EndOfText(chars) \in 0..N /\ \A i \in 1..N : i > EndOfText(chars) => chars[i] = Space
    BY StrippedText
  <1> DEFINE m == EndOfText(chars)
  <1> HIDE DEF m
  <1>2. \A i \in 1..N : (IF i \in DOMAIN text THEN text[i] ELSE Space) = chars[i]
    <2> TAKE i \in 1..N
    <2>1. m \in 0..N /\ DOMAIN text = 1..m
      BY <1>1 DEF m
    <2>2. CASE i <= m
      <3>1. i \in 1..m
        BY <2>1, <2>2
      <3>2. text[i] = chars[i]
        BY <3>1 DEF m
      <3>3. QED
        BY <2>1, <3>1, <3>2
    <2>3. CASE i > m
      <3>1. i \notin 1..m /\ chars[i] = Space
        BY <1>1, <2>1, <2>3 DEF m
      <3>2. QED
        BY <2>1, <3>1
    <2>4. QED
      BY <2>1, <2>2, <2>3
  <1>3. QED
    BY <1>2 DEF Filled

LEMMA FilledNothing ==
  ASSUME NEW N \in Nat, NEW chars \in [1..N -> Chars], EndOfText(chars) = 0
  PROVE  Filled(<<>>, N) = chars
  <1>1. DOMAIN <<>> = 1..0
    OBVIOUS
  <1>2. QED
    BY <1>1, FilledText

\* The parts of a name and the pieces of its short name.
LEMMA NameParts ==
  ASSUME NEW e, e.name \in Names
  PROVE  LET n == e.name
             b == EndOfText(n.base)
             x == EndOfText(n.ext)
             short == fat32_direntry_short_name(e)
         IN  /\ BaseSize \in Nat /\ ExtSize \in Nat
             /\ n = [base |-> n.base, ext |-> n.ext]
             /\ n.base \in [1..BaseSize -> Chars] /\ n.ext \in [1..ExtSize -> Chars]
             /\ b \in 0..BaseSize /\ x \in 0..ExtSize
             /\ short \in Seq(Chars \cup {Dot})
             /\ Len(short) = IF x = 0 THEN b ELSE b + 1 + x
             /\ \A i \in 1..b : short[i] = n.base[i]
             /\ x # 0 => /\ short[b + 1] = Dot
                         /\ \A i \in 1..x : short[b + 1 + i] = n.ext[i]
  <1> DEFINE n == e.name
             B == Stripped(n.base)
             X == Stripped(n.ext)
             b == EndOfText(n.base)
             x == EndOfText(n.ext)
             short == fat32_direntry_short_name(e)
             C == Chars \cup {Dot}
  <1>1. /\ BaseSize \in Nat /\ ExtSize \in Nat
        /\ n \in [base : [1..BaseSize -> Chars], ext : [1..ExtSize -> Chars]]
    BY DirIterAssumption
  <1>2. /\ n = [base |-> n.base, ext |-> n.ext]
        /\ n.base \in [1..BaseSize -> Chars] /\ n.ext \in [1..ExtSize -> Chars]
    BY <1>1
  <1>3. /\ b \in 0..BaseSize /\ Len(B) = b /\ B \in Seq(Chars)
        /\ \A i \in 1..b : B[i] = n.base[i]
    BY <1>1, <1>2, StrippedText
  <1>4. /\ x \in 0..ExtSize /\ Len(X) = x /\ X \in Seq(Chars)
        /\ \A i \in 1..x : X[i] = n.ext[i]
    BY <1>1, <1>2, StrippedText
  <1>5. short = B \o (IF X = <<>> THEN <<>> ELSE <<Dot>> \o X)
    BY DEF fat32_direntry_short_name
  <1>6. X = <<>> <=> x = 0
    BY <1>4, EmptySeq
  <1> HIDE DEF n, B, X, b, x, short
  <1>7. B \in Seq(C) /\ X \in Seq(C) /\ <<Dot>> \in Seq(C) /\ <<>> \in Seq(C)
    <2>1. Seq(Chars) \subseteq Seq(C)
      BY SeqMonotonic
    <2>2. QED
      BY <1>3, <1>4, <2>1
  <1>8. CASE x = 0
    <2>1. short = B
      BY <1>5, <1>6, <1>7, <1>8, ConcatEmptySeq
    <2>2. /\ short \in Seq(C) /\ Len(short) = b
          /\ \A i \in 1..b : short[i] = n.base[i]
      BY <1>3, <1>7, <2>1
    <2>3. QED
      BY <1>1, <1>2, <1>3, <1>4, <1>8, <2>2 DEF n, b, x, short
  <1>9. CASE x # 0
    <2> DEFINE D == <<Dot>> \o X
    <2>1. /\ D \in Seq(C) /\ Len(D) = 1 + x
          /\ D[1] = Dot /\ \A i \in 1..x : D[i + 1] = n.ext[i]
      <3>1. Len(<<Dot>>) = 1 /\ <<Dot>>[1] = Dot
        OBVIOUS
      <3>2. /\ D \in Seq(C) /\ Len(D) = Len(<<Dot>>) + Len(X)
            /\ \A i \in 1..Len(<<Dot>>) + Len(X) :
                 D[i] = IF i <= Len(<<Dot>>) THEN <<Dot>>[i] ELSE X[i - Len(<<Dot>>)]
        BY <1>7, ConcatProperties
      <3> HIDE DEF D
      <3>3. QED
        BY <1>4, <3>1, <3>2
    <2>2. short = B \o D
      BY <1>5, <1>6, <1>9
    <2> HIDE DEF D
    <2>3. /\ short \in Seq(C) /\ Len(short) = b + (1 + x)
          /\ \A i \in 1..b + (1 + x) : short[i] = IF i <= b THEN B[i] ELSE D[i - b]
      <3>1. /\ B \o D \in Seq(C) /\ Len(B \o D) = Len(B) + Len(D)
            /\ \A i \in 1..Len(B) + Len(D) :
                 (B \o D)[i] = IF i <= Len(B) THEN B[i] ELSE D[i - Len(B)]
        BY ZenonT(60), <1>7, <2>1, ConcatProperties
      <3>2. QED
        BY <1>3, <2>1, <2>2, <3>1
    <2>4. \A i \in 1..b : short[i] = n.base[i]
      BY <1>3, <1>4, <2>3
    <2>5. short[b + 1] = Dot
      <3>1. b + 1 \in 1..b + (1 + x) /\ ~(b + 1 <= b) /\ (b + 1) - b = 1
        BY <1>3, <1>4
      <3>2. short[b + 1] = D[(b + 1) - b]
        BY <2>3, <3>1
      <3>3. QED
        BY <2>1, <3>1, <3>2
    <2>6. \A i \in 1..x : short[b + 1 + i] = n.ext[i]
      <3> TAKE i \in 1..x
      <3>1. b + 1 + i \in 1..b + (1 + x) /\ ~(b + 1 + i <= b) /\ (b + 1 + i) - b = i + 1
        BY <1>3, <1>4
      <3>2. QED
        BY <2>1, <2>3, <3>1
    <2>7. Len(short) = b + 1 + x
      BY <1>3, <1>4, <2>3
    <2>8. QED
      BY <1>1, <1>2, <1>3, <1>4, <1>9, <2>3, <2>4, <2>5, <2>6, <2>7 DEF n, b, x, short
  <1>10. QED
    BY <1>8, <1>9

\* The name that a token is cut into at its split-th character.
CutAt(token, split) ==
    [base |-> Filled(SubSeq(token, 1, split - 1), BaseSize),
     ext  |-> Filled(SubSeq(token, split + 1, Len(token)), ExtSize)]

LEMMA CutOfUndotted ==
  ASSUME NEW e, e.name \in Names, EndOfText(e.name.ext) = 0
  PROVE  LET short == fat32_direntry_short_name(e)
         IN  CutAt(short, Len(short) + 1) = e.name
  <1> DEFINE n == e.name
             b == EndOfText(n.base)
             short == fat32_direntry_short_name(e)
             text == SubSeq(short, 1, (Len(short) + 1) - 1)
             rest == SubSeq(short, (Len(short) + 1) + 1, Len(short))
  <1>1. /\ BaseSize \in Nat /\ ExtSize \in Nat
        /\ n = [base |-> n.base, ext |-> n.ext]
        /\ n.base \in [1..BaseSize -> Chars] /\ n.ext \in [1..ExtSize -> Chars]
        /\ b \in 0..BaseSize
        /\ short \in Seq(Chars \cup {Dot}) /\ Len(short) = b
        /\ \A i \in 1..b : short[i] = n.base[i]
    BY NameParts
  <1>2. EndOfText(n.ext) = 0
    OBVIOUS
  <1> HIDE DEF n, short, b
  <1>3. text = short /\ DOMAIN short = 1..b
    <2>1. Len(short) \in Nat /\ (Len(short) + 1) - 1 = Len(short)
      BY <1>1
    <2>2. SubSeq(short, 1, Len(short)) = short
      BY <1>1, SubSeqFull
    <2>3. QED
      BY <1>1, <2>1, <2>2, LenProperties
  <1>4. Filled(text, BaseSize) = n.base
    <2>1. DOMAIN text = 1..b /\ \A i \in 1..b : text[i] = n.base[i]
      BY <1>1, <1>3
    <2> HIDE DEF text
    <2>2. QED
      BY <1>1, <2>1, FilledText DEF b
  <1>5. rest = <<>>
    <2>1. Len(short) \in Int /\ (Len(short) + 1) + 1 \in Int
          /\ Len(short) < (Len(short) + 1) + 1
      BY <1>1
    <2>2. QED
      BY <2>1, SubSeqEmpty
  <1>6. Filled(rest, ExtSize) = n.ext
    BY <1>1, <1>2, <1>5, FilledNothing
  <1>7. QED
    BY <1>1, <1>4, <1>6 DEF CutAt, n, short

LEMMA CutOfDotted ==
  ASSUME NEW e, e.name \in Names, EndOfText(e.name.ext) # 0
  PROVE  CutAt(fat32_direntry_short_name(e), EndOfText(e.name.base) + 1) = e.name
  <1> DEFINE n == e.name
             b == EndOfText(n.base)
             x == EndOfText(n.ext)
             short == fat32_direntry_short_name(e)
             text == SubSeq(short, 1, (b + 1) - 1)
             rest == SubSeq(short, (b + 1) + 1, Len(short))
             C == Chars \cup {Dot}
  <1>1. /\ BaseSize \in Nat /\ ExtSize \in Nat
        /\ n = [base |-> n.base, ext |-> n.ext]
        /\ n.base \in [1..BaseSize -> Chars] /\ n.ext \in [1..ExtSize -> Chars]
        /\ b \in 0..BaseSize /\ x \in 0..ExtSize
        /\ short \in Seq(C) /\ Len(short) = b + 1 + x
        /\ \A i \in 1..b : short[i] = n.base[i]
        /\ \A i \in 1..x : short[b + 1 + i] = n.ext[i]
    BY NameParts
  <1> HIDE DEF n, short, b, x, C
  <1>2. \A i \in 1..Len(short) : short[i] \in C
    BY <1>1, ElementOfSeq
  <1>3. DOMAIN text = 1..b /\ \A i \in 1..b : text[i] = n.base[i]
    <2>1. /\ 1 \in Int /\ (b + 1) - 1 \in Int /\ (b + 1) - 1 = b
          /\ \A i \in 1..(b + 1) - 1 : i \in 1..Len(short)
      BY <1>1
    <2>2. \A i \in 1..(b + 1) - 1 : short[i] \in C
      BY <1>2, <2>1
    <2>3. /\ text \in Seq(C)
          /\ Len(text) = IF 1 <= (b + 1) - 1 THEN (b + 1) - 1 - 1 + 1 ELSE 0
          /\ \A i \in 1..(b + 1) - 1 - 1 + 1 : text[i] = short[1 + i - 1]
      BY <2>1, <2>2, SubSeqProperties
    <2> HIDE DEF text
    <2>4. Len(text) = b
      BY <1>1, <2>3
    <2>5. \A i \in 1..b : text[i] = n.base[i]
      <3> TAKE i \in 1..b
      <3>1. i \in 1..(b + 1) - 1 - 1 + 1 /\ 1 + i - 1 = i
        BY <1>1
      <3>2. QED
        BY <1>1, <2>3, <3>1
    <2>6. QED
      BY <2>3, <2>4, <2>5, LenProperties
  <1>4. DOMAIN rest = 1..x /\ \A i \in 1..x : rest[i] = n.ext[i]
    <2>1. /\ (b + 1) + 1 \in Int /\ Len(short) \in Int
          /\ \A i \in (b + 1) + 1..Len(short) : i \in 1..Len(short)
      BY <1>1
    <2>2. \A i \in (b + 1) + 1..Len(short) : short[i] \in C
      BY <1>2, <2>1
    <2>3. /\ rest \in Seq(C)
          /\ Len(rest) = IF (b + 1) + 1 <= Len(short) THEN Len(short) - ((b + 1) + 1) + 1 ELSE 0
          /\ \A i \in 1..Len(short) - ((b + 1) + 1) + 1 : rest[i] = short[(b + 1) + 1 + i - 1]
      BY <2>1, <2>2, SubSeqProperties
    <2> HIDE DEF rest
    <2>4. Len(rest) = x
      BY <1>1, <2>3
    <2>5. \A i \in 1..x : rest[i] = n.ext[i]
      <3> TAKE i \in 1..x
      <3>1. i \in 1..Len(short) - ((b + 1) + 1) + 1 /\ (b + 1) + 1 + i - 1 = b + 1 + i
        BY <1>1
      <3>2. QED
        BY <1>1, <2>3, <3>1
    <2>6. QED
      BY <1>1, <2>3, <2>4, <2>5, LenProperties
  <1>5. Filled(text, BaseSize) = n.base
    BY ZenonT(60), <1>1, <1>3, FilledText DEF b
  <1>6. Filled(rest, ExtSize) = n.ext
    BY ZenonT(60), <1>1, <1>4, FilledText DEF x
  <1>7. QED
    BY <1>1, <1>5, <1>6 DEF CutAt, n, short, b

-----------------------------------------------------------------------------
\* The token of k dots, and its name.
Dots(k) == [i \in 1..k |-> Dot]

LEMMA DotNamesAre ==
  DotNames[1] = Dots(2) /\ DotNames[2] = Dots(1) /\ DotEntries = {Stored(Dots(1)), Stored(Dots(2))}
  <1>1. DotNames[1] = <<Dot, Dot>> /\ DotNames[2] = <<Dot>>
    BY DEF DotNames
  <1>2. <<Dot, Dot>> = Dots(2)
    BY DEF Dots
  <1>3. <<Dot>> = Dots(1)
    BY DEF Dots
  <1>4. QED
    BY <1>1, <1>2, <1>3 DEF DotEntries

LEMMA StoredDots ==
  ASSUME NEW k \in {1, 2}
  PROVE  /\ Stored(Dots(k)) = CutAt(Dots(k), k + 1)
         /\ \A i \in 1..BaseSize : Stored(Dots(k)).base[i] = IF i <= k THEN Dot ELSE Space
         /\ \A i \in 1..ExtSize : Stored(Dots(k)).ext[i] = Space
  <1> DEFINE text == SubSeq(Dots(k), 1, (k + 1) - 1)
             rest == SubSeq(Dots(k), (k + 1) + 1, Len(Dots(k)))
  <1>1. Len(Dots(k)) = k /\ Dots(k) \in Seq({Dot})
    BY DEF Dots
  <1>2. Stored(Dots(k)) = CutAt(Dots(k), k + 1)
    <2>1. Dots(k) \in {DotNames[1], DotNames[2]}
      BY DotNamesAre
    <2>2. k + 1 # 0
      OBVIOUS
    <2>3. QED
      BY <1>1, <2>1, <2>2 DEF Stored, CutAt
  <1>3. text = Dots(k)
    BY <1>1, SubSeqFull
  <1>4. DOMAIN Dots(k) = 1..k /\ \A i \in 1..k : Dots(k)[i] = Dot
    BY DEF Dots
  <1>5. rest = <<>>
    BY <1>1, SubSeqEmpty
  <1>6. Filled(text, BaseSize) = [i \in 1..BaseSize |-> IF i <= k THEN Dot ELSE Space]
    <2>1. \A i \in 1..BaseSize : i \in DOMAIN Dots(k) <=> i <= k
      BY <1>4, DirIterAssumption
    <2>2. \A i \in 1..BaseSize :
            (IF i \in DOMAIN Dots(k) THEN Dots(k)[i] ELSE Space) = IF i <= k THEN Dot ELSE Space
      BY <1>4, <2>1
    <2>3. QED
      BY <1>3, <2>2 DEF Filled
  <1>7. Filled(rest, ExtSize) = [i \in 1..ExtSize |-> Space]
    <2>1. DOMAIN <<>> = {}
      OBVIOUS
    <2>2. QED
      BY <1>5, <2>1 DEF Filled
  <1>8. Stored(Dots(k)) = [base |-> Filled(text, BaseSize), ext |-> Filled(rest, ExtSize)]
    BY <1>2 DEF CutAt
  <1> HIDE DEF text, rest
  <1>9. /\ Stored(Dots(k)).base = [i \in 1..BaseSize |-> IF i <= k THEN Dot ELSE Space]
        /\ Stored(Dots(k)).ext = [i \in 1..ExtSize |-> Space]
    BY <1>6, <1>7, <1>8
  <1>10. QED
    BY <1>2, <1>9

\* The dot entries have the names of dots.
LEMMA DotEntriesAreNamed ==
  ASSUME NEW e, e.name \in Names, e.name \in DotEntries
  PROVE  /\ EndOfText(e.name.ext) = 0
         /\ \E k \in {1, 2} : fat32_direntry_short_name(e) = Dots(k)
                              /\ e.name = Stored(Dots(k))
  <1> DEFINE n == e.name
             b == EndOfText(n.base)
             x == EndOfText(n.ext)
             short == fat32_direntry_short_name(e)
  <1>1. PICK k \in {1, 2} : n = Stored(Dots(k))
    BY DotNamesAre
  <1>2. /\ \A i \in 1..BaseSize : n.base[i] = IF i <= k THEN Dot ELSE Space
        /\ \A i \in 1..ExtSize : n.ext[i] = Space
    BY <1>1, StoredDots
  <1>3. /\ BaseSize \in Nat /\ ExtSize \in Nat /\ BaseSize >= 2
        /\ n.base \in [1..BaseSize -> Chars] /\ n.ext \in [1..ExtSize -> Chars]
        /\ b \in 0..BaseSize /\ x \in 0..ExtSize
        /\ short \in Seq(Chars \cup {Dot})
        /\ Len(short) = IF x = 0 THEN b ELSE b + 1 + x
        /\ \A i \in 1..b : short[i] = n.base[i]
    BY NameParts, DirIterAssumption
  <1>4. /\ b = 0 \/ n.base[b] # Space
        /\ \A i \in 1..BaseSize : i > b => n.base[i] = Space
        /\ x = 0 \/ n.ext[x] # Space
    BY <1>3, StrippedText
  <1> HIDE DEF n, b, x, short
  <1>5. x = 0
    BY <1>2, <1>3, <1>4
  <1>6. b = k
    <2>1. b <= k
      BY <1>2, <1>3, <1>4
    <2>2. k \in 1..BaseSize /\ n.base[k] # Space
      BY <1>2, <1>3, SpaceIsNotDot
    <2>3. QED
      BY <1>3, <1>4, <2>1, <2>2
  <1>7. short = Dots(k)
    <2>1. Len(short) = k /\ \A i \in 1..k : short[i] = Dot
      <3>1. \A i \in 1..k : i \in 1..BaseSize /\ n.base[i] = Dot
        BY <1>2, <1>3
      <3>2. QED
        BY <1>3, <1>5, <1>6, <3>1
    <2>2. Dots(k) \in Seq(Chars \cup {Dot}) /\ Len(Dots(k)) = k
          /\ \A i \in 1..k : Dots(k)[i] = Dot
      BY DEF Dots
    <2>3. QED
      BY <1>3, <2>1, <2>2, SeqEqual
  <1>8. QED
    BY <1>1, <1>5, <1>7 DEF n, x, short

LEMMA StoredShortName ==
  ASSUME NEW e, e.name \in Names
  PROVE  Stored(fat32_direntry_short_name(e)) = e.name
  <1> DEFINE n == e.name
             b == EndOfText(n.base)
             x == EndOfText(n.ext)
             short == fat32_direntry_short_name(e)
             D == {i \in DOMAIN short : short[i] = Dot}
  <1>1. /\ BaseSize \in Nat /\ ExtSize \in Nat
        /\ n.base \in [1..BaseSize -> Chars] /\ n.ext \in [1..ExtSize -> Chars]
        /\ b \in 0..BaseSize /\ x \in 0..ExtSize
        /\ short \in Seq(Chars \cup {Dot}) /\ Len(short) = IF x = 0 THEN b ELSE b + 1 + x
        /\ \A i \in 1..b : short[i] = n.base[i]
        /\ x # 0 => /\ short[b + 1] = Dot
                    /\ \A i \in 1..x : short[b + 1 + i] = n.ext[i]
    BY NameParts
  <1>2. DOMAIN short = 1..Len(short) /\ Len(short) \in Nat
    BY <1>1, LenProperties
  <1>3. CASE n \in DotEntries
    <2>1. PICK k \in {1, 2} : short = Dots(k) /\ n = Stored(Dots(k))
      BY <1>3, DotEntriesAreNamed
    <2>2. QED
      BY <2>1
  <1>4. CASE n \notin DotEntries
    <2> HIDE DEF n, b, x, short
    <2>1. /\ \A i \in 1..BaseSize : n.base[i] # Dot
          /\ \A i \in 1..ExtSize : n.ext[i] # Dot
      BY <1>4, DirectoriesAssumption DEF n
    <2>2. D = IF x = 0 THEN {} ELSE {b + 1}
      <3>1. \A i \in 1..b : short[i] # Dot
        <4> TAKE i \in 1..b
        <4>1. i \in 1..BaseSize /\ short[i] = n.base[i]
          BY <1>1
        <4>2. QED
          BY <2>1, <4>1
      <3>2. x # 0 => \A i \in 1..Len(short) : i > b + 1 => short[i] # Dot
        <4> SUFFICES ASSUME x # 0, NEW i \in 1..Len(short), i > b + 1 PROVE short[i] # Dot
          OBVIOUS
        <4>1. i - (b + 1) \in 1..x /\ i = b + 1 + (i - (b + 1))
          BY <1>1
        <4>2. short[i] = n.ext[i - (b + 1)]
          BY <1>1, <4>1
        <4>3. QED
          BY <1>1, <2>1, <4>1, <4>2
      <3>3. CASE x = 0
        BY <1>1, <1>2, <3>1, <3>3
      <3>4. CASE x # 0
        <4>1. b + 1 \in 1..Len(short) /\ short[b + 1] = Dot
          BY <1>1, <3>4
        <4>2. \A i \in 1..Len(short) : short[i] = Dot => i = b + 1
          BY <1>1, <3>1, <3>2, <3>4
        <4>3. QED
          BY <1>2, <3>4, <4>1, <4>2
      <3>5. QED
        BY <3>3, <3>4
    <2>3. short \notin {DotNames[1], DotNames[2]}
      <3>1. SUFFICES ASSUME NEW k \in {1, 2}, short = Dots(k) PROVE FALSE
        BY DotNamesAre
      <3>2. DOMAIN short = 1..k /\ \A i \in 1..k : short[i] = Dot
        BY <3>1 DEF Dots
      <3>3. D = 1..k
        BY <3>2
      <3>4. k \in D /\ 1 \in D
        BY <3>3
      <3>5. x # 0 /\ k = b + 1 /\ 1 = b + 1
        BY <2>2, <3>4
      <3>6. Len(short) = k
        <4>1. Len(Dots(k)) = k
          BY DEF Dots
        <4>2. QED
          BY <3>1, <4>1
      <3>7. QED
        BY <1>1, <3>5, <3>6
    <2>4. CASE x = 0
      <3>1. Max(D \cup {0}) = 0
        <4>1. D \cup {0} = {0}
          BY <2>2, <2>4
        <4>2. {0} \in SUBSET (0..0) /\ {0} # {} /\ 0 \in Nat
          OBVIOUS
        <4>3. Max({0}) \in {0}
          BY <4>2, GreatestOf
        <4>4. QED
          BY <4>1, <4>3
      <3>2. Stored(short) = CutAt(short, Len(short) + 1)
        <4> HIDE DEF D
        <4>1. QED
          BY <2>3, <3>1 DEF Stored, CutAt, D
      <3>3. QED
        BY <2>4, <3>2, CutOfUndotted DEF n, x, short
    <2>5. CASE x # 0
      <3>1. Max(D \cup {0}) = b + 1
        <4>1. D \cup {0} = {0, b + 1}
          BY <2>2, <2>5
        <4>2. {0, b + 1} \in SUBSET (0..b + 1) /\ {0, b + 1} # {} /\ b + 1 \in Nat
          BY <1>1
        <4>3. Max({0, b + 1}) \in {0, b + 1} /\ b + 1 <= Max({0, b + 1})
          BY <4>2, GreatestOf
        <4> DEFINE M == Max({0, b + 1})
        <4>4. Max(D \cup {0}) = M
          BY <4>1
        <4>5. M \in {0, b + 1} /\ b + 1 <= M /\ b \in Nat
          BY <1>1, <4>3
        <4> HIDE DEF M
        <4>6. M = b + 1
          BY <4>5
        <4>7. QED
          BY <4>4, <4>6
      <3>2. b + 1 # 0
        BY <1>1
      <3>3. Stored(short) = CutAt(short, b + 1)
        <4> HIDE DEF D
        <4>1. QED
          BY <2>3, <3>1, <3>2 DEF Stored, CutAt, D
      <3>4. QED
        BY <2>5, <3>3, CutOfDotted DEF n, x, short, b
    <2>6. QED
      BY <2>4, <2>5
  <1>5. QED
    BY <1>3, <1>4

\* A token that is the short name of an entry says which entry.
LEMMA TokensName ==
  ASSUME NEW e, e.name \in Names, NEW token,
         \E n \in Names : token = fat32_direntry_short_name([name |-> n])
  PROVE  (fat32_direntry_short_name(e) = token) <=> (e.name = Stored(token))
  <1>1. PICK n \in Names : token = fat32_direntry_short_name([name |-> n])
    OBVIOUS
  <1>2. [name |-> n].name = n
    OBVIOUS
  <1>3. Stored(token) = n
    BY <1>1, <1>2, StoredShortName
  <1>4. Stored(fat32_direntry_short_name(e)) = e.name
    BY StoredShortName
  <1>5. e.name = n => fat32_direntry_short_name(e) = token
    BY <1>1, <1>2 DEF fat32_direntry_short_name
  <1>6. QED
    BY <1>3, <1>4, <1>5

-----------------------------------------------------------------------------
(***************************************************************************)
(* Slots.                                                                  *)
(***************************************************************************)

\* No file is read-only, hidden or a system file: the code takes none for a file.
NoMarked == \A c \in DOMAIN Content : \A i \in 1..ClusterSlots :
    Content[c][i].kind # "marked"

\* What an entry of a consistent directory is.
Sound(e) ==
    /\ e \in Direntry
    /\ NoMarked => e.kind # "marked"
    /\ Visible(e) /\ e.kind = "dir" /\ e.name # Stored(DotNames[1]) =>
         e.first \in DOMAIN Content

LEMMA SlotsAre ==
  ASSUME NEW t \in Tables, NEW first \in DOMAIN Content
  PROVE  LET slots == SlotsOf(t, first)
             chain == ChainOf(t, first)
         IN  /\ ClusterSlots \in Nat \ {0} /\ ClusterSlots * Len(chain) \in Nat
             /\ DOMAIN slots = 1..ClusterSlots * Len(chain)
             /\ \A i \in DOMAIN slots : Sound(slots[i])
             /\ \A k \in 1..Len(chain) : \A o \in 0..ClusterSlots - 1 :
                  /\ (k - 1) * ClusterSlots + o + 1 \in DOMAIN slots
                  /\ slots[(k - 1) * ClusterSlots + o + 1] = Content[chain[k]][o + 1]
  <1> DEFINE slots == SlotsOf(t, first)
             chain == ChainOf(t, first)
             S == ClusterSlots
             N == ClusterSlots * Len(chain)
  <1>1. chain \in Seq(DOMAIN Content) /\ Len(chain) \in Nat \ {0}
    BY ChainFromFirst DEF IsChainFrom
  <1>2. S \in Nat \ {0}
    BY DirIterAssumption
  <1>3. N \in Nat
    BY <1>1, <1>2
  <1>4. slots = [i \in 1..N |-> Content[chain[((i - 1) \div S) + 1]][((i - 1) % S) + 1]]
    BY DEF SlotsOf
  <1> HIDE DEF slots, chain
  <1>5. \A k \in 1..Len(chain) : chain[k] \in DOMAIN Content
    BY <1>1, ElementOfSeq
  <1>6. \A c \in DOMAIN Content : \A i \in 1..S : Sound(Content[c][i])
    BY DirIterAssumption, DirectoriesAssumption DEF Sound, NoMarked
  <1>7. ASSUME NEW i \in 1..N PROVE Sound(slots[i])
    <2> DEFINE q == (i - 1) \div S
               r == (i - 1) % S
    <2>1. q \in Nat /\ r \in 0..S - 1 /\ i - 1 = q * S + r
      <3> HIDE DEF N
      <3>1. i - 1 \in Nat
        BY <1>3, <1>7
      <3> HIDE DEF S
      <3>2. QED
        BY <1>2, <3>1, QuotientAndRemainder
    <2> HIDE DEF q, r
    <2>2. q < Len(chain)
      <3>1. CASE Len(chain) <= q
        <4>1. S * Len(chain) <= q * S
          <5>1. CASE Len(chain) = q
            BY <1>1, <1>2, <5>1
          <5>2. CASE Len(chain) < q
            BY <1>1, <1>2, <2>1, <5>2, MultiplesGrow
          <5>3. QED
            BY <1>1, <2>1, <3>1, <5>1, <5>2
        <4>2. q * S \in Nat
          BY <1>2, <2>1
        <4>3. N <= q * S /\ i - 1 >= q * S /\ i <= N
          BY <1>2, <1>7, <2>1, <4>1, <4>2
        <4> HIDE DEF N
        <4>4. QED
          BY <1>3, <1>7, <4>2, <4>3
      <3>2. QED
        BY <1>1, <2>1, <3>1
    <2>3. q + 1 \in 1..Len(chain) /\ r + 1 \in 1..S
      BY <1>1, <1>2, <2>1, <2>2
    <2>4. slots[i] = Content[chain[q + 1]][r + 1]
      BY <1>4, <1>7 DEF q, r
    <2>5. QED
      BY <1>5, <1>6, <2>3, <2>4
  <1>8. ASSUME NEW k \in 1..Len(chain), NEW o \in 0..S - 1
        PROVE  /\ (k - 1) * S + o + 1 \in 1..N
               /\ slots[(k - 1) * S + o + 1] = Content[chain[k]][o + 1]
    <2> DEFINE i == (k - 1) * S + o + 1
    <2>1. k - 1 \in Nat /\ k - 1 < Len(chain) /\ o \in Nat
      BY <1>1, <1>2, <1>8
    <2>2. (k - 1) * S \in Nat /\ (k - 1) * S + S <= Len(chain) * S
      BY <1>1, <1>2, <2>1, MultiplesGrow
    <2>3. Len(chain) * S = N
      BY <1>1, <1>2
    <2>4. i \in 1..N
      <3> HIDE DEF N
      <3>1. QED
        BY <1>2, <1>3, <1>8, <2>1, <2>2, <2>3
    <2>5. i - 1 = (k - 1) * S + o
      BY <2>1, <2>2
    <2>6. (i - 1) \div S = k - 1 /\ (i - 1) % S = o
      <3>1. ((k - 1) * S + o) \div S = k - 1 /\ ((k - 1) * S + o) % S = o
        <4> HIDE DEF S, i
        <4>1. QED
          BY <1>2, <1>8, <2>1, QuotientOf
      <3> HIDE DEF i
      <3>2. QED
        BY <2>5, <3>1
    <2>7. slots[i] = Content[chain[(k - 1) + 1]][o + 1]
      <3> HIDE DEF i, N
      <3>1. QED
        BY <1>4, <2>4, <2>6
    <2>8. (k - 1) + 1 = k
      BY <1>8
    <2>9. QED
      BY <2>4, <2>7, <2>8
  <1>9. DOMAIN slots = 1..N
    BY <1>4
  <1>10. QED
    BY <1>2, <1>3, <1>7, <1>8, <1>9 DEF slots, chain

\* The iterator of a directory has read the first p slots.
HasRead(t, first, cluster, offset, p) ==
    \E k \in 1..Len(ChainOf(t, first)) :
        /\ cluster = ChainOf(t, first)[k]
        /\ p = (k - 1) * ClusterSlots + offset

LEMMA ReadingBegins ==
  ASSUME NEW t \in Tables, NEW first \in DOMAIN Content
  PROVE  HasRead(t, first, first, 0, 0)
  <1>1. Len(ChainOf(t, first)) \in Nat \ {0} /\ ChainOf(t, first)[1] = first
    BY ChainFromFirst DEF IsChainFrom
  <1>2. ClusterSlots \in Nat
    BY DirIterAssumption
  <1>3. 1 \in 1..Len(ChainOf(t, first)) /\ (1 - 1) * ClusterSlots + 0 = 0
    BY <1>1, <1>2
  <1>4. QED
    BY <1>1, <1>3 DEF HasRead

LEMMA SlotIsRead ==
  ASSUME NEW t \in Tables, NEW first \in DOMAIN Content, NEW cluster,
         NEW offset \in 0..ClusterSlots, offset < ClusterSlots,
         NEW p, HasRead(t, first, cluster, offset, p)
  PROVE  /\ p \in Nat /\ p + 1 \in DOMAIN SlotsOf(t, first)
         /\ SlotsOf(t, first)[p + 1] = Content[cluster][offset + 1]
         /\ HasRead(t, first, cluster, offset + 1, p + 1)
  <1> DEFINE slots == SlotsOf(t, first)
             chain == ChainOf(t, first)
             S == ClusterSlots
  <1>1. PICK k \in 1..Len(chain) : cluster = chain[k] /\ p = (k - 1) * S + offset
    BY DEF HasRead
  <1>2. S \in Nat \ {0} /\ Len(chain) \in Nat
    BY DirIterAssumption, ChainFromFirst DEF IsChainFrom
  <1>3. offset \in 0..S - 1
    BY <1>2
  <1>4. (k - 1) * S + offset + 1 \in DOMAIN slots
        /\ slots[(k - 1) * S + offset + 1] = Content[chain[k]][offset + 1]
    BY <1>3, SlotsAre
  <1>5. k - 1 \in Nat
    BY <1>2
  <1>6. (k - 1) * S \in Nat
    BY <1>2, <1>5
  <1> HIDE DEF slots, chain
  <1>7. p \in Nat /\ p + 1 = (k - 1) * S + offset + 1 /\ p + 1 = (k - 1) * S + (offset + 1)
    BY <1>1, <1>3, <1>6
  <1>8. QED
    BY <1>1, <1>4, <1>7 DEF HasRead, slots, chain

LEMMA ClusterIsRead ==
  ASSUME NEW t \in Tables, NEW first \in DOMAIN Content, NEW cluster, NEW p,
         HasRead(t, first, cluster, ClusterSlots, p)
  PROVE  /\ cluster \in DOMAIN Content /\ p \in Nat
         /\ Ends(t[cluster]) => DOMAIN SlotsOf(t, first) = 1..p
         /\ ~Ends(t[cluster]) => HasRead(t, first, t[cluster].value, 0, p)
  <1> DEFINE slots == SlotsOf(t, first)
             chain == ChainOf(t, first)
             S == ClusterSlots
  <1>1. PICK k \in 1..Len(chain) : cluster = chain[k] /\ p = (k - 1) * S + S
    BY DEF HasRead
  <1>2. /\ S \in Nat \ {0}
        /\ chain \in Seq(DOMAIN Content) /\ Len(chain) \in Nat \ {0}
        /\ \A i \in 1..Len(chain) - 1 : ~Ends(t[chain[i]]) /\ chain[i + 1] = t[chain[i]].value
    BY DirIterAssumption, ChainFromFirst DEF IsChainFrom
  <1>3. cluster \in DOMAIN Content
    BY <1>1, <1>2, ElementOfSeq
  <1>4. DOMAIN slots = 1..S * Len(chain)
    BY SlotsAre
  <1>5. k - 1 \in Nat /\ k \in Nat /\ (k - 1) + 1 = k
    BY <1>2
  <1> HIDE DEF slots, chain
  <1>6. p = k * S /\ p \in Nat
    BY <1>1, <1>2, <1>5, NextMultiple
  <1>7. ASSUME Ends(t[cluster]) PROVE DOMAIN slots = 1..p
    <2>1. k = Len(chain)
      <3>1. SUFFICES ASSUME k # Len(chain) PROVE FALSE
        OBVIOUS
      <3>2. k \in 1..Len(chain) - 1
        BY <1>2, <3>1
      <3>3. ~Ends(t[chain[k]])
        BY <1>2, <3>2
      <3>4. QED
        BY <1>1, <1>7, <3>3
    <2>2. QED
      BY <1>2, <1>4, <1>5, <1>6, <2>1
  <1>8. ASSUME ~Ends(t[cluster])
        PROVE  \E i \in 1..Len(chain) : t[cluster].value = chain[i] /\ p = (i - 1) * S + 0
    <2>1. k # Len(chain)
      BY <1>1, <1>8, ChainFromFirst DEF IsChainFrom, chain
    <2>2. k \in 1..Len(chain) - 1 /\ k + 1 \in 1..Len(chain) /\ (k + 1) - 1 = k
      BY <1>2, <2>1
    <2>3. chain[k + 1] = t[cluster].value
      BY <1>1, <1>2, <2>2
    <2>4. p = ((k + 1) - 1) * S + 0
      BY <1>6, <2>2
    <2>5. QED
      BY <2>2, <2>3, <2>4
  <1>9. QED
    BY <1>3, <1>6, <1>7, <1>8 DEF HasRead, slots, chain

\* Of the first p slots, those that are entries, if no slot has ended the directory.
SeenIn(slots, p) == {i \in 1..p : Visible(slots[i])}

NoEnd(slots, p) == \A i \in 1..p : slots[i].mark # "last"

\* All that a search or a listing has to know of slots.
IsSlots(slots) ==
    /\ \E N \in Nat : DOMAIN slots = 1..N
    /\ \A i \in DOMAIN slots : Sound(slots[i])

LEMMA EntriesAreSeen ==
  ASSUME NEW slots, IsSlots(slots), NEW p \in Nat, NoEnd(slots, p),
         \/ DOMAIN slots = 1..p
         \/ p + 1 \in DOMAIN slots /\ slots[p + 1].mark = "last"
  PROVE  EntriesIn(slots) = SeenIn(slots, p)
  <1>1. PICK N \in Nat : DOMAIN slots = 1..N
    BY DEF IsSlots
  <1>2. 1..p \subseteq DOMAIN slots
    BY <1>1
  <1>3. ASSUME NEW i \in EntriesIn(slots) PROVE i \in SeenIn(slots, p)
    <2>1. /\ i \in DOMAIN slots /\ Visible(slots[i])
          /\ \A k \in 1..i : slots[k].mark # "last"
      BY <1>3 DEF EntriesIn
    <2>2. CASE DOMAIN slots = 1..p
      BY <2>1, <2>2 DEF SeenIn
    <2>3. CASE p + 1 \in DOMAIN slots /\ slots[p + 1].mark = "last"
      <3>1. i \in Nat /\ i >= 1
        BY <1>1, <2>1
      <3>2. ~(p + 1 \in 1..i)
        BY <2>1, <2>3
      <3>3. i \in 1..p
        BY <3>1, <3>2
      <3>4. QED
        BY <2>1, <3>3 DEF SeenIn
    <2>4. QED
      BY <2>2, <2>3
  <1>4. ASSUME NEW i \in SeenIn(slots, p) PROVE i \in EntriesIn(slots)
    <2>1. i \in 1..p /\ Visible(slots[i])
      BY <1>4 DEF SeenIn
    <2>2. \A k \in 1..i : k \in 1..p
      BY <2>1
    <2>3. \A k \in 1..i : slots[k].mark # "last"
      BY <2>2 DEF NoEnd
    <2>4. QED
      BY <1>2, <2>1, <2>3 DEF EntriesIn
  <1>5. QED
    BY <1>3, <1>4

\* The next slot.
LEMMA NextIsSeen ==
  ASSUME NEW slots, IsSlots(slots), NEW p \in Nat, NoEnd(slots, p),
         p + 1 \in DOMAIN slots, slots[p + 1].mark # "last"
  PROVE  /\ NoEnd(slots, p + 1)
         /\ SeenIn(slots, p + 1) = IF Visible(slots[p + 1]) THEN SeenIn(slots, p) \cup {p + 1}
                                   ELSE SeenIn(slots, p)
         /\ SeenIn(slots, p + 1) \subseteq EntriesIn(slots)
         /\ \A i \in EntriesIn(slots) : i <= p + 1 => i \in SeenIn(slots, p + 1)
  <1>1. PICK N \in Nat : DOMAIN slots = 1..N
    BY DEF IsSlots
  <1>2. 1..p + 1 = 1..p \cup {p + 1} /\ p + 1 \notin 1..p /\ 1..p + 1 \subseteq DOMAIN slots
    BY <1>1
  <1>3. NoEnd(slots, p + 1)
    BY <1>2 DEF NoEnd
  <1>4. SeenIn(slots, p + 1) = IF Visible(slots[p + 1]) THEN SeenIn(slots, p) \cup {p + 1}
                               ELSE SeenIn(slots, p)
    BY <1>2 DEF SeenIn
  <1>5. ASSUME NEW i \in SeenIn(slots, p + 1) PROVE i \in EntriesIn(slots)
    <2>1. i \in 1..p + 1 /\ Visible(slots[i])
      BY <1>5 DEF SeenIn
    <2>2. \A k \in 1..i : k \in 1..p + 1
      BY <2>1
    <2>3. \A k \in 1..i : slots[k].mark # "last"
      BY <1>3, <2>2 DEF NoEnd
    <2>4. QED
      BY <1>2, <2>1, <2>3 DEF EntriesIn
  <1>6. ASSUME NEW i \in EntriesIn(slots), i <= p + 1 PROVE i \in SeenIn(slots, p + 1)
    <2>1. i \in DOMAIN slots /\ Visible(slots[i])
      BY <1>6 DEF EntriesIn
    <2>2. i \in 1..p + 1
      BY <1>1, <1>6, <2>1
    <2>3. QED
      BY <2>1, <2>2 DEF SeenIn
  <1>7. QED
    BY <1>3, <1>4, <1>5, <1>6

-----------------------------------------------------------------------------
\* None of the first p slots has the name.
NotNamed(slots, p, token) == \A i \in SeenIn(slots, p) : slots[i].name # Stored(token)

LEMMA NothingNamed ==
  ASSUME NEW slots, IsSlots(slots), NEW p \in Nat, NoEnd(slots, p),
         NEW token, NotNamed(slots, p, token),
         \/ DOMAIN slots = 1..p
         \/ p + 1 \in DOMAIN slots /\ slots[p + 1].mark = "last"
  PROVE  Named(slots, token) = {}
  <1>1. \A i \in EntriesIn(slots) : slots[i].name # Stored(token)
    BY EntriesAreSeen DEF NotNamed
  <1>2. QED
    BY <1>1 DEF Named

LEMMA FirstNamed ==
  ASSUME NEW slots, IsSlots(slots), NEW p \in Nat, NoEnd(slots, p),
         p + 1 \in DOMAIN slots, slots[p + 1].mark # "last", Visible(slots[p + 1]),
         NEW token, NotNamed(slots, p, token), slots[p + 1].name = Stored(token)
  PROVE  Named(slots, token) = {slots[p + 1]}
  <1> DEFINE hits == {i \in EntriesIn(slots) : slots[i].name = Stored(token)}
  <1>1. /\ p + 1 \in EntriesIn(slots)
        /\ \A i \in EntriesIn(slots) : i <= p + 1 => i \in SeenIn(slots, p) \/ i = p + 1
    BY NextIsSeen
  <1>2. \A i \in EntriesIn(slots) : i \in Nat
    BY DEF EntriesIn, IsSlots
  <1>3. p + 1 \in hits
    BY <1>1
  <1>4. \A m \in hits : p + 1 <= m
    <2> TAKE m \in hits
    <2>1. m \in Nat /\ (m <= p + 1 => m = p + 1)
      BY <1>1, <1>2 DEF NotNamed
    <2>2. QED
      BY <2>1
  <1>5. {k \in hits : \A m \in hits : k <= m} = {p + 1}
    <2>1. ASSUME NEW k \in hits, \A m \in hits : k <= m PROVE k = p + 1
      <3>1. k \in Nat /\ k <= p + 1 /\ p + 1 <= k
        BY <1>2, <1>3, <1>4, <2>1
      <3>2. QED
        BY <3>1
    <2>2. QED
      BY <1>3, <1>4, <2>1
  <1>6. Named(slots, token) = {slots[i] : i \in {k \in hits : \A m \in hits : k <= m}}
    BY DEF Named
  <1> HIDE DEF hits
  <1>7. QED
    BY <1>5, <1>6

-----------------------------------------------------------------------------
\* The list is that of the first p slots.
Listed(list, slots, p) ==
    /\ Len(list) = Cardinality(SeenIn(slots, p))
    /\ \A i \in SeenIn(slots, p) :
         slots[i].name = Stored(list[Cardinality({k \in SeenIn(slots, p) : k <= i})])

Tokens == Seq(Chars \cup {Dot})

LEMMA SeenIsFinite ==
  ASSUME NEW slots, NEW p \in Nat
  PROVE  IsFiniteSet(SeenIn(slots, p)) /\ Cardinality(SeenIn(slots, p)) \in Nat
  <1>1. IsFiniteSet(1..p) /\ SeenIn(slots, p) \in SUBSET (1..p)
    BY FS_Interval DEF SeenIn
  <1>2. QED
    BY <1>1, FS_Subset, FS_CardinalityType

LEMMA NothingListed ==
  ASSUME NEW slots
  PROVE  Listed(<<>>, slots, 0)
  <1>1. SeenIn(slots, 0) = {}
    BY DEF SeenIn
  <1>2. Len(<<>>) = 0
    OBVIOUS
  <1>3. QED
    BY <1>1, <1>2, FS_EmptySet DEF Listed

LEMMA OneMoreListed ==
  ASSUME NEW slots, IsSlots(slots), NEW p \in Nat, NoEnd(slots, p),
         p + 1 \in DOMAIN slots, slots[p + 1].mark # "last", Visible(slots[p + 1]),
         NEW list \in Seq(Tokens), Listed(list, slots, p), NEW token \in Tokens,
         slots[p + 1].name = Stored(token)
  PROVE  Listed(Append(list, token), slots, p + 1)
  <1> DEFINE Old == SeenIn(slots, p)
             New == SeenIn(slots, p + 1)
             Upto(set, i) == {k \in set : k <= i}
             longer == Append(list, token)
  <1>1. New = Old \cup {p + 1}
    BY NextIsSeen
  <1>2. Old \in SUBSET (1..p) /\ p + 1 \notin Old
    BY DEF SeenIn
  <1>3. IsFiniteSet(Old) /\ Cardinality(Old) \in Nat /\ Cardinality(Old) = Len(list)
    BY SeenIsFinite DEF Listed
  <1>4. Cardinality(New) = Cardinality(Old) + 1
    BY <1>1, <1>2, <1>3, FS_AddElement
  <1>5. /\ Len(longer) = Len(list) + 1
        /\ \A i \in 1..Len(list) : longer[i] = list[i]
        /\ longer[Len(list) + 1] = token
    BY AppendProperties
  <1>6. \A i \in Old : slots[i].name = Stored(list[Cardinality(Upto(Old, i))])
    BY DEF Listed
  <1> HIDE DEF Old, New, longer
  <1>7. ASSUME NEW i \in Old
        PROVE  slots[i].name = Stored(longer[Cardinality(Upto(New, i))])
    <2>1. i \in 1..p
      BY <1>2, <1>7
    <2>2. Upto(New, i) = Upto(Old, i)
      BY <1>1, <1>2, <2>1
    <2>3. Upto(Old, i) \in SUBSET Old /\ i \in Upto(Old, i)
      BY <1>2, <1>7
    <2> HIDE DEF Upto
    <2>4. IsFiniteSet(Upto(Old, i)) /\ Cardinality(Upto(Old, i)) <= Cardinality(Old)
      BY <1>3, <2>3, FS_Subset
    <2>5. Cardinality(Upto(Old, i)) \in Nat /\ Cardinality(Upto(Old, i)) # 0
      BY <2>3, <2>4, FS_CardinalityType, FS_EmptySet
    <2>6. Cardinality(Upto(Old, i)) \in 1..Len(list)
      BY <1>3, <2>4, <2>5
    <2>7. slots[i].name = Stored(list[Cardinality(Upto(Old, i))])
      BY <1>6, <1>7
    <2>8. QED
      BY <1>5, <2>2, <2>6, <2>7
  <1>8. slots[p + 1].name = Stored(longer[Cardinality(Upto(New, p + 1))])
    <2>0. \A k \in New : k <= p + 1
      BY <1>1, <1>2
    <2>1. Upto(New, p + 1) = New
      BY <2>0
    <2> HIDE DEF Upto
    <2>2. QED
      BY <1>3, <1>4, <1>5, <2>1
  <1>9. \A i \in New : slots[i].name = Stored(longer[Cardinality(Upto(New, i))])
    BY <1>1, <1>7, <1>8
  <1>10. Len(longer) = Cardinality(New)
    BY <1>3, <1>4, <1>5
  <1>11. QED
    BY <1>9, <1>10 DEF Listed, New, longer

\* What was listed of the slots read so far is what comes first.
LEMMA FirstListed ==
  ASSUME NEW slots, IsSlots(slots), NEW p \in Nat, NoEnd(slots, p),
         1..p \subseteq DOMAIN slots, NEW list, Listed(list, slots, p)
  PROVE  Lists(list, slots)
  <1> DEFINE Old == SeenIn(slots, p)
             All == EntriesIn(slots)
             Upto(set, i) == {k \in set : k <= i}
  <1>1. PICK N \in Nat : DOMAIN slots = 1..N
    BY DEF IsSlots
  <1>2. \A i \in All : i \in 1..N /\ Visible(slots[i])
    BY <1>1 DEF EntriesIn
  <1>3. \A i \in Old : i \in 1..p /\ i \in All
    <2> TAKE i \in Old
    <2>1. i \in 1..p /\ Visible(slots[i])
      BY DEF SeenIn
    <2>2. \A k \in 1..i : slots[k].mark # "last"
      BY <2>1 DEF NoEnd
    <2>3. QED
      BY <2>1, <2>2 DEF EntriesIn
  <1>4. \A i \in All : i <= p => i \in Old
    BY <1>2 DEF SeenIn
  <1>5. IsFiniteSet(All) /\ IsFiniteSet(Old)
    <2>1. IsFiniteSet(1..N) /\ All \in SUBSET (1..N)
      BY <1>2, FS_Interval
    <2>2. QED
      BY <2>1, FS_Subset, SeenIsFinite
  <1>6. /\ Len(list) = Cardinality(Old)
        /\ \A i \in Old : slots[i].name = Stored(list[Cardinality(Upto(Old, i))])
    BY DEF Listed
  <1> HIDE DEF Old, All
  <1>7. Cardinality(Old) \in Nat /\ Cardinality(All) \in Nat
        /\ Cardinality(Old) <= Cardinality(All)
    BY <1>3, <1>5, FS_Subset, FS_CardinalityType
  <1>8. ASSUME NEW i \in All, Cardinality(Upto(All, i)) <= Len(list)
        PROVE  slots[i].name = Stored(list[Cardinality(Upto(All, i))])
    <2>1. i \in Old
      <3>1. SUFFICES ASSUME i \notin Old PROVE FALSE
        OBVIOUS
      <3>2. i \in Nat /\ p < i
        BY <1>2, <1>4, <3>1
      <3>3. Old \cup {i} \in SUBSET Upto(All, i)
        BY <1>3, <1>8, <3>2
      <3>4. Upto(All, i) \in SUBSET All
        OBVIOUS
      <3> HIDE DEF Upto
      <3>5. IsFiniteSet(Upto(All, i)) /\ Cardinality(Upto(All, i)) \in Nat
        BY <1>5, <3>4, FS_Subset, FS_CardinalityType
      <3>6. Cardinality(Old \cup {i}) = Cardinality(Old) + 1
        BY <1>5, <3>1, FS_AddElement
      <3>7. Cardinality(Old \cup {i}) <= Cardinality(Upto(All, i))
        BY <3>3, <3>5, FS_Subset
      <3>8. QED
        BY <1>6, <1>7, <1>8, <3>5, <3>6, <3>7
    <2>2. Upto(All, i) = Upto(Old, i)
      BY <1>2, <1>3, <1>4, <2>1
    <2>3. QED
      BY <1>6, <2>1, <2>2
  <1>9. QED
    BY <1>6, <1>7, <1>8 DEF Lists, Old, All

LEMMA AllListed ==
  ASSUME NEW slots, IsSlots(slots), NEW p \in Nat, NoEnd(slots, p),
         NEW list, Listed(list, slots, p),
         \/ DOMAIN slots = 1..p
         \/ p + 1 \in DOMAIN slots /\ slots[p + 1].mark = "last"
  PROVE  Lists(list, slots) /\ Len(list) = Cardinality(EntriesIn(slots))
  <1>1. EntriesIn(slots) = SeenIn(slots, p)
    BY EntriesAreSeen
  <1>2. 1..p \subseteq DOMAIN slots
    BY DEF IsSlots
  <1>3. Lists(list, slots)
    BY <1>2, FirstListed
  <1>4. QED
    BY <1>1, <1>3 DEF Listed

\* A sequence that begins with another one.
LEMMA ConcatCuts ==
  ASSUME NEW S, NEW s \in Seq(S), NEW u \in Seq(S)
  PROVE  /\ SubSeq(s \o u, 1, Len(s)) = s
         /\ SubSeq(s \o u, Len(s) + 1, Len(s \o u)) = u
  <1> DEFINE w == s \o u
  <1>1. /\ w \in Seq(S) /\ Len(w) = Len(s) + Len(u)
        /\ \A i \in 1..Len(s) + Len(u) : w[i] = IF i <= Len(s) THEN s[i] ELSE u[i - Len(s)]
    BY ConcatProperties
  <1>2. Len(s) \in Nat /\ Len(u) \in Nat
    OBVIOUS
  <1> HIDE DEF w
  <1>3. \A i \in 1..Len(w) : w[i] \in S
    BY <1>1, ElementOfSeq
  <1>4. SubSeq(w, 1, Len(s)) = s
    <2> DEFINE front == SubSeq(w, 1, Len(s))
    <2>1. \A i \in 1..Len(s) : w[i] \in S /\ w[i] = s[i]
      BY <1>1, <1>2, <1>3
    <2>2. /\ front \in Seq(S)
          /\ Len(front) = IF 1 <= Len(s) THEN Len(s) - 1 + 1 ELSE 0
          /\ \A i \in 1..Len(s) - 1 + 1 : front[i] = w[1 + i - 1]
      BY <1>2, <2>1, SubSeqProperties
    <2> HIDE DEF front
    <2>3. Len(front) = Len(s) /\ \A i \in 1..Len(front) : front[i] = s[i]
      BY <1>2, <2>1, <2>2
    <2>4. front = s
      BY <2>2, <2>3, SeqEqual
    <2>5. QED
      BY <2>4 DEF front
  <1>5. SubSeq(w, Len(s) + 1, Len(w)) = u
    <2> DEFINE rest == SubSeq(w, Len(s) + 1, Len(w))
    <2>1. \A i \in Len(s) + 1..Len(w) : w[i] \in S /\ w[i] = u[i - Len(s)]
      BY <1>1, <1>2, <1>3
    <2>2. Len(s) + 1 \in Int /\ Len(w) \in Int
      BY <1>1, <1>2
    <2>3. /\ rest \in Seq(S)
          /\ Len(rest) = IF Len(s) + 1 <= Len(w) THEN Len(w) - (Len(s) + 1) + 1 ELSE 0
          /\ \A i \in 1..Len(w) - (Len(s) + 1) + 1 : rest[i] = w[Len(s) + 1 + i - 1]
      BY <2>1, <2>2, SubSeqProperties
    <2> HIDE DEF rest
    <2>4. Len(rest) = Len(u)
      BY <1>1, <1>2, <2>3
    <2>5. \A i \in 1..Len(rest) : rest[i] = u[i]
      <3> TAKE i \in 1..Len(rest)
      <3>1. i \in 1..Len(w) - (Len(s) + 1) + 1 /\ Len(s) + 1 + i - 1 \in Len(s) + 1..Len(w)
            /\ (Len(s) + 1 + i - 1) - Len(s) = i
        BY <1>1, <1>2, <2>4
      <3>2. QED
        BY <2>1, <2>3, <3>1
    <2>6. rest = u
      BY <2>3, <2>4, <2>5, SeqEqual
    <2>7. QED
      BY <2>6 DEF rest
  <1>6. QED
    BY <1>4, <1>5 DEF w

-----------------------------------------------------------------------------
(***************************************************************************)
(* The objects along a path.                                               *)
(***************************************************************************)

\* The objects with that name in one of the directories of a set.
Children(t, dirs, token) == UNION {Named(SlotsOf(t, d.first), token) : d \in dirs}

\* f lists the objects along the first n tokens of the path.
ListsObjects(t, path, f, n) ==
    f = [k \in 0..n |-> IF k = 0 THEN {RootDir} ELSE Children(t, f[k - 1], path[k])]

LEMMA ObjectsExist ==
  ASSUME NEW t, NEW path, NEW n \in Nat
  PROVE  \E f : ListsObjects(t, path, f, n)
  <1> DEFINE Without == {m \in Nat : ~ \E f : ListsObjects(t, path, f, m)}
  <1>1. SUFFICES ASSUME Without # {} PROVE FALSE
    OBVIOUS
  <1>2. PICK m \in Without : \A l \in Without : m <= l
    BY <1>1, LeastNumber
  <1>3. CASE m = 0
    <2> DEFINE f == [k \in 0..0 |-> {RootDir}]
    <2>1. f = [k \in 0..0 |-> IF k = 0 THEN {RootDir} ELSE Children(t, f[k - 1], path[k])]
      OBVIOUS
    <2> HIDE DEF f
    <2>2. ListsObjects(t, path, f, 0)
      BY <2>1 DEF ListsObjects
    <2>3. QED
      BY <1>2, <1>3, <2>2
  <1>4. CASE m # 0
    <2>1. m - 1 \in Nat /\ m - 1 \notin Without
      BY <1>2, <1>4
    <2>2. PICK f : ListsObjects(t, path, f, m - 1)
      BY <2>1
    <2> DEFINE g == [k \in 0..m |-> IF k = 0 THEN {RootDir} ELSE Children(t, f[k - 1], path[k])]
    <2>3. \A k \in 0..m - 1 : g[k] = f[k]
      <3>1. \A k \in 0..m - 1 : f[k] = IF k = 0 THEN {RootDir} ELSE Children(t, f[k - 1], path[k])
        BY <2>2 DEF ListsObjects
      <3>2. \A k \in 0..m - 1 : k \in 0..m
        BY <2>1
      <3>3. QED
        BY <3>1, <3>2
    <2>4. \A k \in 0..m : k # 0 => k - 1 \in 0..m - 1
      BY <2>1
    <2>5. \A k \in 0..m : (IF k = 0 THEN {RootDir} ELSE Children(t, f[k - 1], path[k]))
                           = IF k = 0 THEN {RootDir} ELSE Children(t, g[k - 1], path[k])
      <3> HIDE DEF g
      <3>1. QED
        BY <2>3, <2>4
    <2>6. g = [k \in 0..m |-> IF k = 0 THEN {RootDir} ELSE Children(t, g[k - 1], path[k])]
      BY <2>5
    <2> HIDE DEF g
    <2>7. ListsObjects(t, path, g, m)
      BY <2>6 DEF ListsObjects
    <2>8. QED
      BY <1>2, <2>7
  <1>5. QED
    BY <1>3, <1>4

LEMMA AlongThePath ==
  ASSUME NEW t, NEW path, Len(path) \in Nat
  PROVE  /\ ObjectsAlong(t, path)[0] = {RootDir}
         /\ \A k \in 1..Len(path) :
              ObjectsAlong(t, path)[k] = Children(t, ObjectsAlong(t, path)[k - 1], path[k])
  <1> DEFINE F == CHOOSE f : ListsObjects(t, path, f, Len(path))
  <1>1. ListsObjects(t, path, F, Len(path))
    BY ObjectsExist
  <1>2. ObjectsAlong(t, path) = F
    BY DEF ObjectsAlong, ListsObjects, Children
  <1> HIDE DEF F
  <1>3. \A k \in 0..Len(path) :
          F[k] = IF k = 0 THEN {RootDir} ELSE Children(t, F[k - 1], path[k])
    BY <1>1 DEF ListsObjects
  <1>4. 0 \in 0..Len(path) /\ \A k \in 1..Len(path) : k \in 0..Len(path) /\ k # 0
    OBVIOUS
  <1>5. QED
    BY <1>2, <1>3, <1>4

\* The object after the one that was reached.
LEMMA NextAlong ==
  ASSUME NEW t, NEW path, Len(path) \in Nat, NEW n \in 0..Len(path), n < Len(path),
         NEW d, ObjectsAlong(t, path)[n] = {d}
  PROVE  ObjectsAlong(t, path)[n + 1] = Named(SlotsOf(t, d.first), path[n + 1])
  <1>1. n + 1 \in 1..Len(path) /\ (n + 1) - 1 = n
    OBVIOUS
  <1>2. ObjectsAlong(t, path)[n + 1] = Children(t, {d}, path[n + 1])
    <2>1. ObjectsAlong(t, path)[n + 1] =
            Children(t, ObjectsAlong(t, path)[(n + 1) - 1], path[n + 1])
      BY <1>1, AlongThePath
    <2>2. QED
      BY <1>1, <2>1
  <1>3. Children(t, {d}, path[n + 1]) = Named(SlotsOf(t, d.first), path[n + 1])
    BY DEF Children
  <1>4. QED
    BY <1>2, <1>3

\* Once there is nothing, nothing comes after it.
LEMMA NothingAfterNothing ==
  ASSUME NEW t, NEW path, Len(path) \in Nat, NEW n \in 0..Len(path),
         ObjectsAlong(t, path)[n] = {}
  PROVE  ObjectOf(t, path) = {}
  <1> DEFINE Found == {m \in n..Len(path) : ObjectsAlong(t, path)[m] # {}}
  <1>1. SUFFICES ASSUME Found # {} PROVE FALSE
    BY DEF ObjectOf
  <1>2. Found \in SUBSET Nat
    OBVIOUS
  <1>3. PICK m \in Found : \A l \in Found : m <= l
    BY <1>1, <1>2, LeastNumber
  <1>4. m # n /\ m \in n..Len(path)
    BY <1>3
  <1>5. m - 1 \in n..Len(path) /\ ~(m <= m - 1) /\ m \in 1..Len(path)
    BY <1>4
  <1>6. ObjectsAlong(t, path)[m - 1] = {}
    BY <1>3, <1>5
  <1>7. ObjectsAlong(t, path)[m] = Children(t, {}, path[m])
    <2>1. ObjectsAlong(t, path)[m] = Children(t, ObjectsAlong(t, path)[m - 1], path[m])
      BY <1>5, AlongThePath
    <2>2. QED
      BY <1>6, <2>1
  <1>8. Children(t, {}, path[m]) = {}
    BY DEF Children
  <1>9. QED
    BY <1>3, <1>7, <1>8

-----------------------------------------------------------------------------
(***************************************************************************)
(* What is allocated, at each place of the code.                           *)
(***************************************************************************)

JobFields == {"op", "path", "pc", "use", "todo", "obj", "cluster", "offset",
              "entry", "listing", "stat", "lost", "reply"}

\* What a request under way holds; the emptiness check does not own its iterator.
Held(l) == Owned(l) \cup IF l.pc = "next" THEN {"iterator"} ELSE {}

Allocated(h, l) ==
    /\ DOMAIN l = JobFields
    /\ l.pc \in {"idle", "create", "next"} /\ l.use \in {"lookup", "list", "empty"}
    /\ l.op \in {"none", "getattr", "readdir", "rmdir"}
    /\ l.use = "list" => l.op = "readdir"
    /\ l.use = "empty" => l.op = "rmdir"
    /\ l.pc # "idle" => h = Count(Held(l))
    /\ l.pc = "idle" => h = Nothing \/ (l.op = "rmdir" /\ h = Count({"iterator"}))

LEMMA TheKinds ==
  /\ Range(ObjectBlocks) = {"object", "name", "direntry"}
  /\ DOMAIN ObjectBlocks = 1..3
  /\ Kinds = {"object", "name", "direntry", "path", "iterator"}
  <1>1. DOMAIN ObjectBlocks = 1..3 /\ ObjectBlocks[1] = "object"
        /\ ObjectBlocks[2] = "name" /\ ObjectBlocks[3] = "direntry"
    BY DEF ObjectBlocks
  <1>2. \A i \in 1..3 : i = 1 \/ i = 2 \/ i = 3
    OBVIOUS
  <1>3. Range(ObjectBlocks) = {"object", "name", "direntry"}
    BY <1>1, <1>2 DEF Range
  <1>4. QED
    BY <1>1, <1>3 DEF Kinds

\* Neither a path nor an iterator is part of an object.
LEMMA BlocksOfObjects ==
  ASSUME NEW d
  PROVE  "path" \notin Blocks(d) /\ "iterator" \notin Blocks(d)
  BY TheKinds DEF Blocks

\* Freeing what is held leaves the rest.
LEMMA FreeHeld ==
  ASSUME NEW A, NEW B \in SUBSET A
  PROVE  Free(Count(A), B) = Count(A \ B)
  <1>1. \A k \in Kinds : Count(A)[k] - Count(B)[k] = Count(A \ B)[k]
    BY DEF Count
  <1>2. QED
    BY <1>1 DEF Free, Count

LEMMA AllocFree ==
  ASSUME NEW A, NEW B
  PROVE  Free(Alloc(Count(A), B), B) = Count(A)
  <1>1. \A k \in Kinds : Alloc(Count(A), B)[k] = Count(A)[k] + Count(B)[k]
    BY DEF Alloc
  <1>2. \A k \in Kinds : Count(A)[k] \in Int /\ Count(B)[k] \in Int
    BY DEF Count
  <1>3. \A k \in Kinds : Alloc(Count(A), B)[k] - Count(B)[k] = Count(A)[k]
    BY <1>1, <1>2
  <1>4. QED
    BY <1>3 DEF Free, Count

LEMMA AllocMore ==
  ASSUME NEW A, NEW B, A \cap B = {}
  PROVE  Alloc(Count(A), B) = Count(A \cup B)
  <1>1. \A k \in Kinds : Count(A)[k] + Count(B)[k] = Count(A \cup B)[k]
    BY DEF Count
  <1>2. QED
    BY <1>1 DEF Alloc, Count

LEMMA NothingIsHeld == Nothing = Count({})
  BY DEF Nothing, Count

\* A change of other fields.
LEMMA SameAllocated ==
  ASSUME NEW h, NEW l, Allocated(h, l), NEW m, DOMAIN m = JobFields,
         m.pc = l.pc, m.use = l.use, m.op = l.op, m.obj = l.obj
  PROVE  Allocated(h, m)
  BY DEF Allocated, Held, Owned

LEMMA EndFields ==
  ASSUME NEW l, DOMAIN l = JobFields, NEW r
  PROVE  LET m == [l EXCEPT !.pc = "idle", !.reply = r]
         IN  /\ DOMAIN m = JobFields /\ m.pc = "idle" /\ m.reply = r
             /\ m.op = l.op /\ m.path = l.path /\ m.use = l.use /\ m.todo = l.todo
             /\ m.obj = l.obj /\ m.cluster = l.cluster /\ m.offset = l.offset
             /\ m.entry = l.entry /\ m.listing = l.listing /\ m.stat = l.stat
             /\ m.lost = l.lost
  BY DEF JobFields

LEMMA EndAllocated ==
  ASSUME NEW l, Allocated(heap, l), l.pc \in {"create", "next"}, NEW r,
         Finish(l, r), CleanUp(l)
  PROVE  Allocated(heap', j')
  <1>1. /\ DOMAIN l = JobFields /\ l.use \in {"lookup", "list", "empty"}
        /\ l.op \in {"none", "getattr", "readdir", "rmdir"}
        /\ l.use = "list" => l.op = "readdir"
        /\ l.use = "empty" => l.op = "rmdir"
        /\ heap = Count(Held(l))
    BY DEF Allocated
  <1>2. DOMAIN j' = JobFields /\ j'.pc = "idle" /\ j'.op = l.op /\ j'.use = l.use
    BY <1>1, EndFields DEF Finish
  <1>3. heap' = Count(Held(l) \ Owned(l))
    BY <1>1, FreeHeld DEF CleanUp, Held
  <1>4. heap' = Nothing \/ (l.op = "rmdir" /\ heap' = Count({"iterator"}))
    <2>1. CASE l.use = "empty" /\ l.pc = "next"
      <3>1. Held(l) \ Owned(l) = {"iterator"}
        BY <2>1, BlocksOfObjects DEF Held, Owned
      <3>2. QED
        BY <1>1, <1>3, <2>1, <3>1
    <2>2. CASE ~(l.use = "empty" /\ l.pc = "next")
      <3>1. Held(l) \ Owned(l) = {}
        BY <2>2 DEF Held, Owned
      <3>2. QED
        BY <1>3, <3>1, NothingIsHeld
    <2>3. QED
      BY <2>1, <2>2
  <1>5. QED
    BY <1>1, <1>2, <1>4 DEF Allocated

LEMMA FailAllocated ==
  ASSUME NEW l, Allocated(heap, l), l.pc \in {"create", "next"}, NEW code, Fail(l, code)
  PROVE  Allocated(heap', j')
  BY EndAllocated DEF Fail

LEMMA NoMoreAllocated ==
  ASSUME NEW l, Allocated(heap, l), l.pc \in {"create", "next"}, NoMore(l)
  PROVE  Allocated(heap', j')
  BY EndAllocated DEF NoMore

LEMMA InitAllocated ==
  ASSUME DirInit
  PROVE  Allocated(heap, j)
  BY DEF DirInit, NoJob, Allocated, JobFields

LEMMA RequestAllocated ==
  ASSUME NEW op \in {"getattr", "readdir", "rmdir"}, NEW path, Allocated(heap, j),
         Request(op, path)
  PROVE  Allocated(heap', j')
  <1> DEFINE l == [NoJob EXCEPT !.op = op, !.path = path, !.todo = path]
  <1>1. DOMAIN l = JobFields /\ l.op = op /\ l.use = "lookup" /\ l.obj = RootDir
    BY DEF NoJob, JobFields
  <1> HIDE DEF l
  <1>2. CASE /\ j' = [l EXCEPT !.pc = "create"]
             /\ heap' = Alloc(Nothing, {"path"} \cup Blocks(RootDir))
    <2>1. heap' = Count({"path"} \cup Blocks(RootDir))
      <3>1. {} \cup ({"path"} \cup Blocks(RootDir)) = {"path"} \cup Blocks(RootDir)
        OBVIOUS
      <3>2. QED
        BY <1>2, <3>1, NothingIsHeld, AllocMore
    <2>2. DOMAIN j' = JobFields /\ j'.pc = "create" /\ j'.op = op /\ j'.use = "lookup"
          /\ j'.obj = RootDir
      BY <1>1, <1>2 DEF JobFields
    <2>3. Held(j') = {"path"} \cup Blocks(RootDir)
      BY <2>2 DEF Held, Owned
    <2>4. QED
      BY <2>1, <2>2, <2>3 DEF Allocated
  <1>3. CASE Finish(l, "errno") /\ heap' = Nothing
    <2>1. DOMAIN j' = JobFields /\ j'.pc = "idle" /\ j'.op = op /\ j'.use = "lookup"
      BY <1>1, <1>3, EndFields DEF Finish
    <2>2. QED
      BY <1>3, <2>1 DEF Allocated
  <1>4. QED
    BY <1>2, <1>3 DEF Request, l

LEMMA CreateIteratorAllocated ==
  ASSUME Allocated(heap, j), CreateIterator
  PROVE  Allocated(heap', j')
  <1>1. j.pc = "create"
    BY DEF CreateIterator
  <1>2. CASE /\ j' = [j EXCEPT !.pc = "next", !.cluster = j.obj.first, !.offset = 0]
             /\ heap' = Free(Alloc(heap, {"iterator"}),
                             IF j.use = "list" THEN Blocks(j.obj) ELSE {})
    <2>1. DOMAIN j' = JobFields /\ j'.pc = "next" /\ j'.op = j.op /\ j'.use = j.use
          /\ j'.obj = j.obj
      BY <1>2 DEF Allocated, JobFields
    <2>2. heap = Count(Held(j)) /\ j.use \in {"lookup", "list", "empty"}
      BY <1>1 DEF Allocated
    <2>3. "iterator" \notin Held(j)
      BY <1>1, BlocksOfObjects DEF Held, Owned
    <2>4. Alloc(heap, {"iterator"}) = Count(Held(j) \cup {"iterator"})
      BY <2>2, <2>3, AllocMore
    <2> DEFINE given == IF j.use = "list" THEN Blocks(j.obj) ELSE {}
    <2>5. given \in SUBSET (Held(j) \cup {"iterator"})
      BY <1>1 DEF Held, Owned
    <2>6. (Held(j) \cup {"iterator"}) \ given = Held(j')
      BY <1>1, <2>1, <2>2, BlocksOfObjects DEF Held, Owned
    <2> HIDE DEF given
    <2>7. heap' = Count(Held(j'))
      <3>1. Free(Count(Held(j) \cup {"iterator"}), given)
            = Count((Held(j) \cup {"iterator"}) \ given)
        BY <2>5, FreeHeld
      <3>2. QED
        BY <1>2, <2>4, <2>6, <3>1 DEF given
    <2>8. QED
      BY <2>1, <2>7 DEF Allocated
  <1>3. CASE Fail(j, FE_ERRNO)
    BY <1>1, <1>3, FailAllocated
  <1>4. QED
    BY <1>2, <1>3 DEF CreateIterator

LEMMA ResolvedAllocated ==
  ASSUME Allocated(heap, j), Resolved
  PROVE  Allocated(heap', j')
  <1>1. j.pc = "create" /\ j.use = "lookup" /\ DOMAIN j = JobFields
    BY DEF Resolved, Allocated
  <1>2. CASE /\ Finish([j EXCEPT !.stat = fs_object_attrs(j.obj)], "0") /\ CleanUp(j)
    <2> DEFINE m == [j EXCEPT !.stat = fs_object_attrs(j.obj)]
    <2>1. DOMAIN m = JobFields /\ m.pc = j.pc /\ m.use = j.use /\ m.op = j.op
          /\ m.obj = j.obj
      BY <1>1 DEF JobFields
    <2>2. CleanUp(m)
      BY <1>2, <2>1 DEF CleanUp, Owned
    <2> HIDE DEF m
    <2>3. Allocated(heap, m)
      BY <2>1, SameAllocated
    <2>4. QED
      BY <1>1, <1>2, <2>1, <2>2, <2>3, EndAllocated DEF m
  <1>3. CASE \E r : Finish(j, r) /\ CleanUp(j)
    BY <1>1, <1>3, EndAllocated
  <1>4. heap = Count(Held(j)) /\ Free(heap, {"path"}) = Count(Blocks(j.obj))
    <2>1. heap = Count(Held(j)) /\ Held(j) = {"path"} \cup Blocks(j.obj)
      BY <1>1 DEF Allocated, Held, Owned
    <2>2. ({"path"} \cup Blocks(j.obj)) \ {"path"} = Blocks(j.obj)
      BY BlocksOfObjects
    <2>3. Free(Count({"path"} \cup Blocks(j.obj)), {"path"})
          = Count(({"path"} \cup Blocks(j.obj)) \ {"path"})
      BY FreeHeld
    <2>4. QED
      BY <2>1, <2>2, <2>3
  <1>5. CASE /\ heap' = Free(heap, {"path"})
             /\ \/ j.op = "rmdir" /\ j' = [j EXCEPT !.use = "empty"]
                \/ /\ j.op = "readdir"
                   /\ j' = [j EXCEPT !.use = "list",
                             !.listing = IF j.obj = RootDir THEN DotNames ELSE <<>>]
    <2>1. /\ DOMAIN j' = JobFields /\ j'.pc = j.pc /\ j'.op = j.op /\ j'.obj = j.obj
          /\ \/ j'.op = "rmdir" /\ j'.use = "empty"
             \/ j'.op = "readdir" /\ j'.use = "list"
      BY <1>1, <1>5 DEF JobFields
    <2>2. Held(j') = Blocks(j.obj)
      BY <1>1, <2>1 DEF Held, Owned
    <2>3. QED
      BY <1>1, <1>4, <1>5, <2>1, <2>2 DEF Allocated
  <1>6. CASE Fail(j, FE_ERRNO)
    BY <1>1, <1>6, FailAllocated
  <1>7. QED
    BY <1>2, <1>3, <1>5, <1>6 DEF Resolved

LEMMA NextClusterAllocated ==
  ASSUME Allocated(heap, j), NextCluster
  PROVE  Allocated(heap', j')
  <1>1. j.pc = "next" /\ DOMAIN j = JobFields
    BY DEF NextCluster, Allocated
  <1>2. CASE \E code : Fail(j, code)
    BY <1>1, <1>2, FailAllocated
  <1>3. CASE NoMore([j EXCEPT !.cluster = 0, !.offset = 0, !.entry = 0])
    <2> DEFINE m == [j EXCEPT !.cluster = 0, !.offset = 0, !.entry = 0]
    <2>1. DOMAIN m = JobFields /\ m.pc = j.pc /\ m.use = j.use /\ m.op = j.op
          /\ m.obj = j.obj
      BY <1>1 DEF JobFields
    <2> HIDE DEF m
    <2>2. Allocated(heap, m)
      BY <2>1, SameAllocated
    <2>3. QED
      BY <1>1, <1>3, <2>1, <2>2, NoMoreAllocated DEF m
  <1>4. CASE \E next : /\ UNCHANGED heap
                       /\ \/ j' = [j EXCEPT !.entry = next]
                          \/ j' = [j EXCEPT !.cluster = next, !.offset = 0, !.entry = 0]
    <2>1. DOMAIN j' = JobFields /\ j'.pc = j.pc /\ j'.use = j.use /\ j'.op = j.op
          /\ j'.obj = j.obj
      BY <1>1, <1>4 DEF JobFields
    <2>2. QED
      BY <1>4, <2>1, SameAllocated
  <1>5. QED
    BY <1>2, <1>3, <1>4 DEF NextCluster

\* The next directory on the path takes the place of the one before.
LEMMA ObjectsChange ==
  ASSUME NEW d, NEW e
  PROVE  Free(Alloc(Count({"path", "iterator"} \cup Blocks(d)), Blocks(e)),
              {"iterator"} \cup Blocks(d))
         = Count({"path"} \cup Blocks(e))
  <1> DEFINE before == {"path", "iterator"} \cup Blocks(d)
             given  == {"iterator"} \cup Blocks(d)
             after  == {"path"} \cup Blocks(e)
             in(set, k) == IF k \in set THEN 1 ELSE 0
  <1>1. ASSUME NEW k \in Kinds
        PROVE  in(before, k) + in(Blocks(e), k) - in(given, k) = in(after, k)
    <2>1. CASE k \in {"path", "iterator"}
      <3>1. k \notin Blocks(d) /\ k \notin Blocks(e)
        BY <2>1, BlocksOfObjects
      <3>2. QED
        BY <2>1, <3>1
    <2>2. CASE k \notin {"path", "iterator"}
      BY <2>2
    <2>3. QED
      BY <2>1, <2>2
  <1> HIDE DEF before, given, after
  <1>2. Free(Alloc(Count(before), Blocks(e)), given)
        = [k \in Kinds |-> in(before, k) + in(Blocks(e), k) - in(given, k)]
    BY DEF Free, Alloc, Count
  <1>3. Count(after) = [k \in Kinds |-> in(after, k)]
    BY DEF Count
  <1> HIDE DEF in
  <1>4. Free(Alloc(Count(before), Blocks(e)), given) = Count(after)
    BY <1>1, <1>2, <1>3
  <1>5. QED
    BY <1>4 DEF before, given, after

LEMMA ReadEntryAllocated ==
  ASSUME Allocated(heap, j), ReadEntry
  PROVE  Allocated(heap', j')
  <1> DEFINE l == [j EXCEPT !.offset = @ + 1]
  <1>1. j.pc = "next" /\ DOMAIN j = JobFields
    BY DEF ReadEntry, Allocated
  <1>2. DOMAIN l = JobFields /\ l.pc = j.pc /\ l.use = j.use /\ l.op = j.op
        /\ l.obj = j.obj
    BY <1>1 DEF JobFields
  <1> HIDE DEF l
  <1>3. Allocated(heap, l) /\ l.pc = "next"
    BY <1>1, <1>2, SameAllocated
  <1>4. CASE \E code : Fail(j, code)
    BY <1>1, <1>4, FailAllocated
  <1>5. CASE NoMore([l EXCEPT !.cluster = 0])
    <2> DEFINE m == [l EXCEPT !.cluster = 0]
    <2>1. DOMAIN m = JobFields /\ m.pc = l.pc /\ m.use = l.use /\ m.op = l.op
          /\ m.obj = l.obj
      BY <1>2 DEF JobFields
    <2> HIDE DEF m
    <2>2. Allocated(heap, m)
      BY <1>3, <2>1, SameAllocated
    <2>3. QED
      BY <1>3, <1>5, <2>1, <2>2, NoMoreAllocated DEF m
  <1>6. CASE j' = l /\ UNCHANGED heap
    BY <1>3, <1>6
  <1>7. ASSUME NEW e, Deliver(l, e) PROVE Allocated(heap', j')
    <2>1. CASE l.use = "lookup" /\ Compare(l, e)
      <3>1. CASE j' = l /\ UNCHANGED heap
        BY <1>3, <3>1
      <3>2. CASE /\ j' = [l EXCEPT !.pc = "create", !.obj = e, !.todo = Tail(@)]
                 /\ heap' = Free(Alloc(heap, Blocks(e)), {"iterator"} \cup Blocks(l.obj))
        <4>1. DOMAIN j' = JobFields /\ j'.pc = "create" /\ j'.use = "lookup"
              /\ j'.op = l.op /\ j'.obj = e
          BY <1>2, <2>1, <3>2 DEF JobFields
        <4>2. heap = Count({"path", "iterator"} \cup Blocks(l.obj))
          <5>1. Held(l) = {"path", "iterator"} \cup Blocks(l.obj)
            BY <1>3, <2>1 DEF Held, Owned
          <5>2. QED
            BY <1>3, <5>1 DEF Allocated
        <4>3. heap' = Count({"path"} \cup Blocks(e))
          BY <3>2, <4>2, ObjectsChange
        <4>4. Held(j') = {"path"} \cup Blocks(e)
          BY <4>1 DEF Held, Owned
        <4>5. QED
          BY <1>3, <4>1, <4>3, <4>4 DEF Allocated
      <3>3. QED
        BY <2>1, <3>1, <3>2 DEF Compare
    <2>2. CASE l.use = "list" /\ Fill(l, e)
      <3>1. CASE /\ j' = [l EXCEPT !.listing = Append(@, fat32_direntry_short_name(e))]
                 /\ UNCHANGED heap
        <4>1. DOMAIN j' = JobFields /\ j'.pc = l.pc /\ j'.use = l.use /\ j'.op = l.op
              /\ j'.obj = l.obj
          BY <1>2, <3>1 DEF JobFields
        <4>2. QED
          BY <1>3, <3>1, <4>1, SameAllocated
      <3>2. CASE Fail(l, FE_ERRNO)
        BY <1>3, <3>2, FailAllocated
      <3>3. QED
        BY <2>2, <3>1, <3>2 DEF Fill
    <2>3. CASE Finish(l, "ENOTEMPTY") /\ CleanUp(l)
      BY <1>3, <2>3, EndAllocated
    <2>4. QED
      BY <1>7, <2>1, <2>2, <2>3 DEF Deliver
  <1>8. CASE NoChild(l)
    <2>1. CASE Finish(l, "died") /\ heap' = Nothing
      <3>1. DOMAIN j' = JobFields /\ j'.pc = "idle" /\ j'.use = l.use /\ j'.op = l.op
        BY <1>2, <2>1, EndFields DEF Finish
      <3>2. QED
        BY <1>3, <2>1, <3>1 DEF Allocated
    <2>2. ASSUME NEW r, NEW made,
                 Finish([l EXCEPT !.lost = TRUE], r),
                 heap' = Free(Free(Alloc(heap, made), made), Owned(l))
          PROVE  Allocated(heap', j')
      <3> DEFINE m == [l EXCEPT !.lost = TRUE]
      <3>1. DOMAIN m = JobFields /\ m.pc = l.pc /\ m.use = l.use /\ m.op = l.op
            /\ m.obj = l.obj
        BY <1>2 DEF JobFields
      <3> HIDE DEF m
      <3>2. Allocated(heap, m)
        BY <1>3, <3>1, SameAllocated
      <3>3. Free(Alloc(heap, made), made) = heap
        BY <1>3, AllocFree DEF Allocated
      <3>4. Owned(m) = Owned(l)
        BY <3>1 DEF Owned
      <3>5. Finish(m, r) /\ CleanUp(m)
        BY <2>2, <3>3, <3>4 DEF CleanUp, m
      <3>6. QED
        BY <1>3, <3>1, <3>2, <3>5, EndAllocated
    <2>3. QED
      BY <1>8, <2>1, <2>2 DEF NoChild
  <1>9. QED
    BY <1>4, <1>5, <1>6, <1>7, <1>8 DEF ReadEntry, l

LEMMA NextAllocated ==
  ASSUME Allocated(heap, j), [DirNext]_dirvars
  PROVE  Allocated(heap, j)'
  <1>1. ASSUME NEW r \in Requests, Request(r[1], r[2]) PROVE Allocated(heap', j')
    <2>1. r[1] \in {"getattr", "readdir", "rmdir"}
      BY <1>1, DirIterAssumption
    <2>2. QED
      BY <1>1, <2>1, RequestAllocated
  <1>2. CASE CreateIterator
    BY <1>2, CreateIteratorAllocated
  <1>3. CASE Resolved
    BY <1>3, ResolvedAllocated
  <1>4. CASE NextCluster
    BY <1>4, NextClusterAllocated
  <1>5. CASE ReadEntry
    BY <1>5, ReadEntryAllocated
  <1>6. CASE UNCHANGED dirvars
    BY <1>6 DEF dirvars
  <1>7. QED
    BY <1>1, <1>2, <1>3, <1>4, <1>5, <1>6 DEF DirNext, DirStep

\* However a request ends, whichever access failed and whichever block of an
\* object, path or iterator could not be allocated, nothing of it remains but
\* the iterator of rmdir's emptiness check.
THEOREM DirectoriesLeakNothing == DirSpec => []NothingLeaked
  <1>1. Allocated(heap, j) => NothingLeaked
    <2>1. \A k \in Kinds : Nothing[k] = 0 /\ Count({"iterator"})[k] \in {0, 1}
                          /\ (k # "iterator" => Count({"iterator"})[k] = 0)
      BY DEF Nothing, Count
    <2>2. "iterator" \in Kinds
      BY TheKinds
    <2>3. QED
      BY <2>1, <2>2 DEF Allocated, NothingLeaked
  <1>2. QED
    BY <1>1, InitAllocated, NextAllocated, PTL DEF DirSpec

-----------------------------------------------------------------------------
(***************************************************************************)
(* Where the request is: what of the path it has resolved, and how much of *)
(* the directory its iterator has read.                                    *)
(***************************************************************************)

\* What can be found: the root, or an entry whose directory is one.
IsObject(d) ==
    \/ d = RootDir
    \/ Sound(d) /\ Visible(d) /\ d.name # Stored(DotNames[1])

LEMMA ObjectFields ==
  ASSUME NEW d, IsObject(d)
  PROVE  /\ d \in Direntry \cup {RootDir}
         /\ is_directory(d) <=> d.kind \notin {"file", "marked"}
         /\ is_directory(d) => d.first \in DOMAIN Content
         /\ ~is_directory(d) => d \in Direntry /\ d.size \in Nat
  <1>1. CASE d = RootDir
    BY <1>1, DirIterAssumption DEF RootDir, is_directory
  <1>2. CASE Sound(d) /\ Visible(d) /\ d.name # Stored(DotNames[1])
    <2>1. d \in Direntry /\ d.kind \in {"file", "dir", "marked"}
      BY <1>2 DEF Sound, Visible
    <2>2. d.size \in Nat
      BY <2>1 DEF Direntry
    <2>3. d.kind = "dir" => d.first \in DOMAIN Content
      BY <1>2 DEF Sound
    <2>4. QED
      BY <2>1, <2>2, <2>3 DEF is_directory
  <1>3. QED
    BY <1>1, <1>2 DEF IsObject

GoodPath(t, path) ==
    /\ path \in Seq(Tokens)
    /\ \A k \in 1..Len(path) :
        /\ path[k] # DotNames[1]
        /\ \E n \in Names : path[k] = fat32_direntry_short_name([name |-> n])
    /\ \A k \in 1..Len(path) - 1 : \A d \in ObjectsAlong(t, path)[k] : is_directory(d)

\* The first n tokens lead to the object, and the others are to do.
Reached(t, l, n) ==
    /\ n \in 0..Len(l.path)
    /\ l.todo = SubSeq(l.path, n + 1, Len(l.path))
    /\ ObjectsAlong(t, l.path)[n] = {l.obj}

OnPath(t, l) ==
    /\ GoodPath(t, l.path)
    /\ \E n : Reached(t, l, n)
    /\ IsObject(l.obj)
    /\ l.use # "lookup" => is_directory(l.obj) /\ l.todo = <<>>

Listing(obj) == IF obj = RootDir THEN DotNames ELSE <<>>

\* What the user knows of the slots that were read.
Passed(l, slots, p) ==
    /\ l.use = "lookup" => NotNamed(slots, p, Head(l.todo))
    /\ l.use = "list" => \E list \in Seq(Tokens) :
                           l.listing = Listing(l.obj) \o list /\ Listed(list, slots, p)
    /\ l.use = "empty" => \A i \in SeenIn(slots, p) : slots[i].dot

Iterates(t, l) ==
    /\ is_directory(l.obj)
    /\ l.use = "lookup" => l.todo # <<>>
    /\ l.entry # 0 => /\ l.entry = FAT32_FAT_ENTRY_BAD /\ l.offset = ClusterSlots
    /\ \E p : /\ HasRead(t, l.obj.first, l.cluster, l.offset, p)
              /\ NoEnd(SlotsOf(t, l.obj.first), p)
              /\ Passed(l, SlotsOf(t, l.obj.first), p)

\* The answer is the right one: the properties, of the job l.
Answered(t, l) ==
    /\ l.op = "getattr" =>
        /\ l.reply = "0" =>
            /\ ObjectOf(t, l.path) = {l.obj}
            /\ l.stat.type = IF l.obj.kind \in {"file", "marked"} THEN "file" ELSE "directory"
            /\ l.stat.type = "file" =>
                l.stat.size = l.obj.size /\ l.stat.blocks * ClusterBytes >= l.obj.size
        /\ l.reply = "ENOENT" /\ ~l.lost => ObjectOf(t, l.path) = {}
    /\ l.op = "readdir" /\ l.reply = "0" =>
        \E d \in ObjectOf(t, l.path) :
            LET dots  == IF d = RootDir THEN Len(DotNames) ELSE 0
                names == SubSeq(l.listing, dots + 1, Len(l.listing))
                slots == SlotsOf(t, d.first)
            IN  /\ SubSeq(l.listing, 1, dots) = SubSeq(DotNames, 1, dots)
                /\ Lists(names, slots)
                /\ ~l.lost => Len(names) = Cardinality(EntriesIn(slots))
    /\ l.op = "rmdir" /\ l.use = "empty" =>
        LET slots == SlotsOf(t, l.obj.first)
            holds == {i \in EntriesIn(slots) : ~slots[i].dot}
        IN  /\ l.reply = "0" /\ ~l.lost => holds = {}
            /\ l.reply = "ENOTEMPTY" => holds # {}

DirReplies ==
    {"none", "0", "errno", "EINVAL", "ENOENT", "ENOTDIR", "EPERM", "ENOTEMPTY", "died"}

Typed(t, l) ==
    /\ t \in Tables
    /\ l.obj \in Direntry \cup {RootDir}
    /\ l.offset \in 0..ClusterSlots
    /\ l.listing \in Seq(Tokens)
    /\ l.reply \in DirReplies

Correct(t, l) ==
    /\ Typed(t, l)
    /\ l.pc = "idle" => Answered(t, l)
    /\ l.pc # "idle" => OnPath(t, l) /\ l.op # "none"
    /\ l.pc = "create" => l.entry = 0 /\ (l.use = "list" => l.listing = Listing(l.obj))
    /\ l.pc = "next" => Iterates(t, l)

-----------------------------------------------------------------------------
LEMMA TheTokensToDo ==
  ASSUME NEW t, NEW l, GoodPath(t, l.path), NEW n, Reached(t, l, n)
  PROVE  /\ Len(l.path) \in Nat /\ n \in 0..Len(l.path)
         /\ l.todo = <<>> <=> n = Len(l.path)
         /\ n < Len(l.path) => /\ n + 1 \in 1..Len(l.path)
                               /\ Head(l.todo) = l.path[n + 1]
                               /\ Tail(l.todo) = SubSeq(l.path, n + 2, Len(l.path))
  <1>1. /\ l.path \in Seq(Tokens) /\ Len(l.path) \in Nat /\ n \in 0..Len(l.path)
        /\ l.todo = SubSeq(l.path, n + 1, Len(l.path))
    BY DEF GoodPath, Reached
  <1>2. CASE n = Len(l.path)
    <2>1. n + 1 \in Int /\ Len(l.path) \in Int /\ Len(l.path) < n + 1
      BY <1>1, <1>2
    <2>2. l.todo = <<>>
      BY <1>1, <2>1, SubSeqEmpty
    <2>3. QED
      BY <1>1, <1>2, <2>2
  <1>3. CASE n # Len(l.path)
    <2>1. n + 1 \in 1..Len(l.path) /\ Len(l.path) \in n + 1..Len(l.path)
      BY <1>1, <1>3
    <2>2. /\ Head(l.todo) = l.path[n + 1]
          /\ Tail(l.todo) = SubSeq(l.path, (n + 1) + 1, Len(l.path))
      BY <1>1, <2>1, HeadTailOfSubSeq
    <2>3. l.todo # <<>>
      <3>1. \A i \in n + 1..Len(l.path) : i \in 1..Len(l.path)
        BY <1>1, <2>1
      <3>2. \A i \in n + 1..Len(l.path) : l.path[i] \in Tokens
        BY <1>1, <3>1, ElementOfSeq
      <3>3. n + 1 \in Int /\ Len(l.path) \in Int /\ n + 1 <= Len(l.path)
        BY <1>1, <2>1
      <3>4. Len(l.todo) = Len(l.path) - (n + 1) + 1
        BY <1>1, <3>2, <3>3, SubSeqProperties
      <3>5. Len(l.todo) # 0 /\ Len(<<>>) = 0
        BY <1>1, <3>3, <3>4
      <3>6. QED
        BY <3>5
    <2>4. (n + 1) + 1 = n + 2
      BY <1>1
    <2>5. QED
      BY <1>1, <1>3, <2>1, <2>2, <2>3, <2>4
  <1>4. QED
    BY <1>2, <1>3

\* With tokens to do, the object is a directory.
LEMMA OnTheWay ==
  ASSUME NEW t, NEW l, OnPath(t, l), l.todo # <<>>
  PROVE  is_directory(l.obj)
  <1>1. PICK n : Reached(t, l, n)
    BY DEF OnPath
  <1>2. GoodPath(t, l.path)
    BY DEF OnPath
  <1>3. Len(l.path) \in Nat /\ n \in 0..Len(l.path) /\ n # Len(l.path)
    BY <1>1, <1>2, TheTokensToDo
  <1>4. CASE n = 0
    <2>1. {l.obj} = {RootDir}
      BY <1>1, <1>3, <1>4, AlongThePath DEF Reached
    <2>2. l.obj = RootDir
      BY <2>1
    <2>3. QED
      BY <2>2 DEF is_directory, RootDir
  <1>5. CASE n # 0
    <2>1. n \in 1..Len(l.path) - 1
      BY <1>3, <1>5
    <2>2. l.obj \in ObjectsAlong(t, l.path)[n]
      BY <1>1 DEF Reached
    <2>3. QED
      BY <1>2, <2>1, <2>2 DEF GoodPath
  <1>6. QED
    BY <1>4, <1>5

\* No other name is stored as that of the parent.
LEMMA NotTheParent ==
  ASSUME NEW token, token # DotNames[1],
         \E n \in Names : token = fat32_direntry_short_name([name |-> n])
  PROVE  Stored(token) # Stored(DotNames[1])
  <1>1. SUFFICES ASSUME Stored(token) = Stored(DotNames[1]) PROVE FALSE
    OBVIOUS
  <1>2. PICK n \in Names : token = fat32_direntry_short_name([name |-> n])
    OBVIOUS
  <1> DEFINE e == [name |-> n]
  <1>3. e.name = n /\ e.name \in Names
    OBVIOUS
  <1> HIDE DEF e
  <1>4. Stored(token) = n
    <2>1. Stored(fat32_direntry_short_name(e)) = e.name
      BY <1>3, StoredShortName
    <2>2. QED
      BY <1>2, <1>3, <2>1 DEF e
  <1>5. n = Stored(Dots(2)) /\ n \in DotEntries
    BY <1>1, <1>4, DotNamesAre
  <1>6. PICK k \in {1, 2} : fat32_direntry_short_name(e) = Dots(k) /\ n = Stored(Dots(k))
    BY <1>3, <1>5, DotEntriesAreNamed
  <1>7. k # 2
    BY <1>2, <1>6, DotNamesAre DEF e
  <1>8. n = Stored(Dots(1))
    BY <1>6, <1>7
  <1>9. 2 \in 1..BaseSize
    BY DirIterAssumption
  <1>10. Stored(Dots(1)).base[2] = Space /\ Stored(Dots(2)).base[2] = Dot
    <2>1. Stored(Dots(1)).base[2] = IF 2 <= 1 THEN Dot ELSE Space
      BY <1>9, StoredDots
    <2>2. Stored(Dots(2)).base[2] = IF 2 <= 2 THEN Dot ELSE Space
      BY <1>9, StoredDots
    <2>3. QED
      BY <2>1, <2>2
  <1>11. QED
    BY <1>5, <1>8, <1>10, SpaceIsNotDot

LEMMA DirectorySlots ==
  ASSUME NEW t \in Tables, NEW first \in DOMAIN Content
  PROVE  IsSlots(SlotsOf(t, first))
  BY SlotsAre DEF IsSlots

\* What the iterator passes over, and what it delivers.
LEMMA Suitable ==
  ASSUME NEW e \in Direntry, NEW dots \in BOOLEAN, ~fat32_direntry_is_last(e),
         e.kind # "marked"
  PROVE  suitable_direntry(e, dots) <=> Visible(e) /\ (dots \/ ~e.dot)
  <1>1. e.mark \in {"used", "free", "last"} /\ e.mark # "last"
    BY DEF Direntry, fat32_direntry_is_last
  <1>2. QED
    BY <1>1 DEF suitable_direntry, Visible, fat32_direntry_is_last, fat32_direntry_is_free,
                fat32_direntry_is_directory, fat32_direntry_is_file, fat32_direntry_is_dot

-----------------------------------------------------------------------------
\* The job m is the job l at another place, or with another answer.
SameJob(l, m) ==
    /\ DOMAIN m = JobFields
    /\ m.op = l.op /\ m.path = l.path /\ m.use = l.use /\ m.todo = l.todo
    /\ m.obj = l.obj /\ m.listing = l.listing

LEMMA AnsweredJob ==
  ASSUME NEW t, NEW l, Typed(t, l), NEW m, SameJob(l, m), m.offset = l.offset,
         m.pc = "idle", m.reply \in DirReplies, Answered(t, m)
  PROVE  Correct(t, m)
  <1>1. Typed(t, m)
    BY DEF Typed, SameJob
  <1>2. QED
    BY <1>1 DEF Correct

\* Nothing is promised of an error but of these.
LEMMA ErrorsPromiseNothing ==
  ASSUME NEW t, NEW m, m.reply \notin {"0", "ENOENT", "ENOTEMPTY"}
  PROVE  Answered(t, m)
  BY DEF Answered

LEMMA FailCorrect ==
  ASSUME NEW l, DOMAIN l = JobFields, Typed(table, l), NEW code, Fail(l, code),
         UNCHANGED table
  PROVE  Correct(table', j')
  <1>1. j' = [l EXCEPT !.pc = "idle", !.reply = reply_of(code)]
    BY DEF Fail, Finish
  <1>2. SameJob(l, j') /\ j'.pc = "idle" /\ j'.reply = reply_of(code) /\ j'.offset = l.offset
    BY <1>1, EndFields DEF SameJob
  <1>3. reply_of(code) \in {"EINVAL", "errno"}
    BY DEF reply_of
  <1>4. j'.reply \in DirReplies /\ j'.reply \notin {"0", "ENOENT", "ENOTEMPTY"}
    BY <1>2, <1>3 DEF DirReplies
  <1>5. Answered(table, j')
    BY <1>4, ErrorsPromiseNothing
  <1>6. Correct(table, j')
    BY <1>2, <1>4, <1>5, AnsweredJob
  <1>7. QED
    BY <1>6

\* The end of the directory says what there is to say, and an object that was
\* lost what it may.
LEMMA AnswerAtTheEnd ==
  ASSUME NEW t, NEW l, Typed(t, l), OnPath(t, l), is_directory(l.obj),
         l.use \in {"lookup", "list", "empty"},
         l.use = "list" => l.op = "readdir",
         l.use = "empty" => l.op = "rmdir",
         l.use = "lookup" => l.todo # <<>>,
         NEW p \in Nat, NoEnd(SlotsOf(t, l.obj.first), p),
         Passed(l, SlotsOf(t, l.obj.first), p),
         NEW m, SameJob(l, m), m.reply = IF l.use = "lookup" THEN "ENOENT" ELSE "0",
         \/ DOMAIN SlotsOf(t, l.obj.first) = 1..p
         \/ /\ p + 1 \in DOMAIN SlotsOf(t, l.obj.first)
            /\ SlotsOf(t, l.obj.first)[p + 1].mark = "last" \/ m.lost
  PROVE  Answered(t, m)
  <1> DEFINE slots == SlotsOf(t, l.obj.first)
  <1>1. /\ t \in Tables /\ l.obj.first \in DOMAIN Content
        /\ GoodPath(t, l.path)
    BY ObjectFields DEF Typed, OnPath
  <1>2. IsSlots(slots)
    BY <1>1, DirectorySlots
  <1>3. PICK n : Reached(t, l, n)
    BY DEF OnPath
  <1>4. /\ Len(l.path) \in Nat /\ n \in 0..Len(l.path)
        /\ l.todo = <<>> <=> n = Len(l.path)
        /\ n < Len(l.path) => n + 1 \in 1..Len(l.path) /\ Head(l.todo) = l.path[n + 1]
    BY <1>1, <1>3, TheTokensToDo
  <1> HIDE DEF slots
  <1>5. /\ NoEnd(slots, p) /\ Passed(l, slots, p)
        /\ 1..p \subseteq DOMAIN slots
        /\ ~m.lost => \/ DOMAIN slots = 1..p
                      \/ p + 1 \in DOMAIN slots /\ slots[p + 1].mark = "last"
    <2>1. DOMAIN slots = 1..p \/ p + 1 \in DOMAIN slots
      BY DEF slots
    <2>2. 1..p \subseteq DOMAIN slots
      BY <1>2, <2>1 DEF IsSlots
    <2>3. QED
      BY <2>2 DEF slots
  <1>6. m.op = l.op /\ m.path = l.path /\ m.use = l.use /\ m.obj = l.obj /\ m.listing = l.listing
    BY DEF SameJob
  <1>7. CASE l.use = "lookup"
    <2>1. n < Len(l.path) /\ m.reply = "ENOENT"
      BY <1>4, <1>7
    <2>2. ASSUME ~m.lost PROVE ObjectOf(t, l.path) = {}
      <3>1. NotNamed(slots, p, l.path[n + 1])
        BY <1>4, <1>5, <1>7, <2>1 DEF Passed
      <3>2. Named(slots, l.path[n + 1]) = {}
        BY <1>2, <1>5, <2>2, <3>1, NothingNamed
      <3>3. ObjectsAlong(t, l.path)[n] = {l.obj}
        BY <1>3 DEF Reached
      <3>4. Len(l.path) \in Nat /\ n \in 0..Len(l.path) /\ n < Len(l.path)
        BY <1>4, <2>1
      <3>5. ObjectsAlong(t, l.path)[n + 1] = Named(SlotsOf(t, l.obj.first), l.path[n + 1])
        BY <3>3, <3>4, NextAlong
      <3>6. ObjectsAlong(t, l.path)[n + 1] = {}
        BY <3>2, <3>5 DEF slots
      <3>7. n + 1 \in 0..Len(l.path)
        BY <1>4, <2>1
      <3>8. QED
        BY <1>4, <3>6, <3>7, NothingAfterNothing
    <2>3. QED
      BY <1>6, <1>7, <2>1, <2>2 DEF Answered
  <1>8. CASE l.use # "lookup"
    <2>1. ObjectOf(t, l.path) = {l.obj}
      BY <1>3, <1>4, <1>8 DEF OnPath, Reached, ObjectOf
    <2>2. m.reply = "0"
      BY <1>8
    <2>3. CASE l.use = "list"
      <3>1. PICK list \in Seq(Tokens) :
              l.listing = Listing(l.obj) \o list /\ Listed(list, slots, p)
        BY <1>5, <2>3 DEF Passed
      <3> DEFINE dots == IF l.obj = RootDir THEN Len(DotNames) ELSE 0
      <3>2. DotNames \in Seq(Tokens) /\ <<>> \in Seq(Tokens) /\ Len(<<>>) = 0
        BY DEF DotNames, Tokens
      <3>3. /\ Listing(l.obj) \in Seq(Tokens) /\ Len(Listing(l.obj)) = dots
            /\ Listing(l.obj) = SubSeq(DotNames, 1, dots)
        <4>1. CASE l.obj = RootDir
          <5>1. SubSeq(DotNames, 1, Len(DotNames)) = DotNames
            BY <3>2, SubSeqFull
          <5>2. QED
            BY <3>2, <4>1, <5>1 DEF Listing
        <4>2. CASE l.obj # RootDir
          <5>1. SubSeq(DotNames, 1, 0) = <<>>
            BY SubSeqEmpty
          <5>2. QED
            BY <3>2, <4>2, <5>1 DEF Listing
        <4>3. QED
          BY <4>1, <4>2
      <3> HIDE DEF dots
      <3>4. /\ SubSeq(l.listing, 1, dots) = SubSeq(DotNames, 1, dots)
            /\ SubSeq(l.listing, dots + 1, Len(l.listing)) = list
        BY SMTT(30), <3>1, <3>3, ConcatCuts
      <3>5. Lists(list, slots) /\ (~m.lost => Len(list) = Cardinality(EntriesIn(slots)))
        BY <1>2, <1>5, <3>1, FirstListed, AllListed
      <3>6. \E d \in ObjectOf(t, m.path) :
              LET k     == IF d = RootDir THEN Len(DotNames) ELSE 0
                  names == SubSeq(m.listing, k + 1, Len(m.listing))
              IN  /\ SubSeq(m.listing, 1, k) = SubSeq(DotNames, 1, k)
                  /\ Lists(names, SlotsOf(t, d.first))
                  /\ ~m.lost => Len(names) = Cardinality(EntriesIn(SlotsOf(t, d.first)))
        <4>1. /\ SubSeq(m.listing, 1, dots) = SubSeq(DotNames, 1, dots)
              /\ SubSeq(m.listing, dots + 1, Len(m.listing)) = list
              /\ Lists(list, SlotsOf(t, l.obj.first))
              /\ ~m.lost => Len(list) = Cardinality(EntriesIn(SlotsOf(t, l.obj.first)))
          BY <1>6, <3>4, <3>5 DEF slots
        <4>2. l.obj \in ObjectOf(t, m.path)
          BY <1>6, <2>1
        <4>3. WITNESS l.obj \in ObjectOf(t, m.path)
        <4>4. QED
          BY <4>1 DEF dots
      <3>7. QED
        BY <1>6, <2>3, <3>6 DEF Answered
    <2>4. CASE l.use = "empty"
      <3>1. ~m.lost => EntriesIn(slots) = SeenIn(slots, p)
        BY <1>2, <1>5, EntriesAreSeen
      <3>2. ~m.lost => {i \in EntriesIn(slots) : ~slots[i].dot} = {}
        BY <1>5, <2>4, <3>1 DEF Passed
      <3>3. QED
        BY <1>6, <2>2, <2>4, <3>2 DEF Answered, slots
    <2>5. QED
      BY <1>8, <2>3, <2>4
  <1>9. QED
    BY <1>7, <1>8

-----------------------------------------------------------------------------
LEMMA InitCorrect ==
  ASSUME DirInit
  PROVE  Correct(table, j)
  <1>1. ClusterSlots \in Nat \ {0}
    BY DirIterAssumption
  <1>2. /\ j.pc = "idle" /\ j.op = "none" /\ j.obj = RootDir /\ j.offset = 0
        /\ j.listing = <<>> /\ j.reply = "none" /\ table \in Tables
    BY DEF DirInit, NoJob
  <1>3. Typed(table, j)
    BY <1>1, <1>2 DEF Typed, DirReplies
  <1>4. Answered(table, j)
    BY <1>2, ErrorsPromiseNothing
  <1>5. QED
    BY <1>2, <1>3, <1>4 DEF Correct

LEMMA RequestCorrect ==
  ASSUME NEW op \in {"getattr", "readdir", "rmdir"}, NEW path \in Seq(Tokens),
         Correct(table, j), Request(op, path)
  PROVE  Correct(table', j')
  <1> DEFINE l == [NoJob EXCEPT !.op = op, !.path = path, !.todo = path]
  <1>1. /\ DOMAIN l = JobFields /\ l.op = op /\ l.use = "lookup" /\ l.path = path
        /\ l.todo = path /\ l.obj = RootDir /\ l.offset = 0 /\ l.entry = 0
        /\ l.listing = <<>> /\ l.reply = "none"
    BY DEF NoJob, JobFields
  <1> HIDE DEF l
  <1>2. table' = table /\ table \in Tables
    BY DEF Request, Correct, Typed
  <1>3. Typed(table, l)
    BY <1>1, <1>2, DirIterAssumption DEF Typed, DirReplies
  <1>4. CASE j' = [l EXCEPT !.pc = "create"]
    <2>1. /\ SameJob(l, j') /\ j'.pc = "create" /\ j'.entry = 0 /\ j'.offset = 0
          /\ j'.reply = "none"
      BY <1>1, <1>4 DEF SameJob, JobFields
    <2>2. Typed(table', j')
      BY <1>2, <1>3, <1>1, <2>1 DEF Typed, SameJob
    <2>3. GoodPath(table, path)
      <3>1. Len(path) \in Nat /\ DOMAIN path = 1..Len(path)
        BY LenProperties
      <3>2. QED
        BY <3>1 DEF Request, Resolvable, GoodPath
    <2>4. Reached(table, j', 0)
      <3>1. Len(path) \in Nat /\ SubSeq(path, 1, Len(path)) = path
        BY SubSeqFull
      <3>2. ObjectsAlong(table, path)[0] = {RootDir}
        BY <3>1, AlongThePath
      <3>3. 0 \in 0..Len(path) /\ 0 + 1 = 1
        BY <3>1
      <3>4. QED
        BY <1>1, <2>1, <3>1, <3>2, <3>3 DEF Reached, SameJob
    <2>5. OnPath(table', j')
      BY <1>1, <1>2, <2>1, <2>3, <2>4 DEF OnPath, SameJob, IsObject
    <2>6. QED
      BY <1>1, <2>1, <2>2, <2>5 DEF Correct, SameJob
  <1>5. CASE Finish(l, "errno")
    <2>1. SameJob(l, j') /\ j'.pc = "idle" /\ j'.reply = "errno" /\ j'.offset = l.offset
      BY <1>1, <1>5, EndFields DEF SameJob, Finish
    <2>2. j'.reply \in DirReplies /\ Answered(table, j')
      BY <2>1, ErrorsPromiseNothing DEF DirReplies
    <2>3. QED
      BY <1>2, <1>3, <2>1, <2>2, AnsweredJob
  <1>6. QED
    BY <1>4, <1>5 DEF Request, l

LEMMA CreateIteratorCorrect ==
  ASSUME Allocated(heap, j), Correct(table, j), CreateIterator
  PROVE  Correct(table', j')
  <1>1. /\ j.pc = "create" /\ table' = table
        /\ j.use # "lookup" \/ j.todo # <<>>
    BY DEF CreateIterator
  <1>2. /\ DOMAIN j = JobFields /\ Typed(table, j) /\ OnPath(table, j) /\ j.op # "none"
        /\ j.entry = 0 /\ (j.use = "list" => j.listing = Listing(j.obj))
    BY <1>1 DEF Allocated, Correct
  <1>3. CASE Fail(j, FE_ERRNO)
    BY <1>1, <1>2, <1>3, FailCorrect
  <1>4. CASE j' = [j EXCEPT !.pc = "next", !.cluster = j.obj.first, !.offset = 0]
    <2>1. /\ SameJob(j, j') /\ j'.pc = "next" /\ j'.cluster = j.obj.first /\ j'.offset = 0
          /\ j'.entry = 0 /\ j'.reply = j.reply
      BY <1>2, <1>4 DEF SameJob, JobFields
    <2>2. is_directory(j.obj) /\ j.obj.first \in DOMAIN Content /\ table \in Tables
      <3>1. is_directory(j.obj)
        BY <1>1, <1>2, OnTheWay DEF OnPath
      <3>2. QED
        BY <1>2, <3>1, ObjectFields DEF OnPath, Typed
    <2>3. Typed(table, j')
      BY <1>2, <2>1, DirIterAssumption DEF Typed, SameJob
    <2>4. OnPath(table, j')
      BY <1>2, <2>1 DEF OnPath, SameJob, Reached
    <2> DEFINE slots == SlotsOf(table, j.obj.first)
    <2>5. HasRead(table, j.obj.first, j.obj.first, 0, 0)
      BY <2>2, ReadingBegins
    <2> HIDE DEF slots
    <2>6. SeenIn(slots, 0) = {} /\ NoEnd(slots, 0)
      BY DEF SeenIn, NoEnd
    <2>7. Passed(j', slots, 0)
      <3>1. NotNamed(slots, 0, Head(j'.todo)) /\ \A i \in SeenIn(slots, 0) : slots[i].dot
        BY <2>6 DEF NotNamed
      <3>2. j.use = "list" => /\ j'.listing = Listing(j'.obj) \o <<>>
                              /\ Listed(<<>>, slots, 0) /\ <<>> \in Seq(Tokens)
        <4>1. DotNames \in Seq(Tokens) /\ <<>> \in Seq(Tokens)
          BY DEF DotNames, Tokens
        <4>2. Listing(j.obj) \in Seq(Tokens)
          BY <4>1 DEF Listing
        <4>3. Listing(j.obj) \o <<>> = Listing(j.obj)
          BY <4>2, ConcatEmptySeq
        <4>4. QED
          BY <1>2, <2>1, <4>1, <4>3, NothingListed DEF SameJob
      <3>3. QED
        BY <2>1, <3>1, <3>2 DEF Passed, SameJob
    <2>8. Iterates(table, j')
      BY <1>1, <2>1, <2>2, <2>5, <2>6, <2>7 DEF Iterates, SameJob, slots
    <2>9. QED
      BY <1>1, <1>2, <2>1, <2>3, <2>4, <2>8 DEF Correct, SameJob
  <1>5. QED
    BY <1>3, <1>4 DEF CreateIterator

\* The blocks of a file hold it.
LEMMA BlocksHold ==
  ASSUME NEW size \in Nat
  PROVE  ((size + ClusterBytes + 1) \div ClusterBytes) * ClusterBytes >= size
  <1> DEFINE a == size + ClusterBytes + 1
             q == a \div ClusterBytes
             r == a % ClusterBytes
  <1>1. ClusterBytes \in Nat \ {0} /\ a \in Nat
    BY DirIterAssumption
  <1> HIDE DEF a
  <1>2. q \in Nat /\ r \in 0..ClusterBytes - 1 /\ a = q * ClusterBytes + r
    BY <1>1, QuotientAndRemainder
  <1> HIDE DEF q, r
  <1>3. q * ClusterBytes \in Nat
    BY <1>1, <1>2
  <1>4. a = size + ClusterBytes + 1
    BY DEF a
  <1>5. q * ClusterBytes >= size
    BY <1>1, <1>2, <1>3, <1>4
  <1>6. QED
    BY <1>5 DEF q, a

LEMMA ResolvedCorrect ==
  ASSUME Allocated(heap, j), Correct(table, j), Resolved
  PROVE  Correct(table', j')
  <1>1. /\ j.pc = "create" /\ j.use = "lookup" /\ j.todo = <<>> /\ table' = table
        /\ DOMAIN j = JobFields
    BY DEF Resolved, Allocated
  <1>2. /\ Typed(table, j) /\ OnPath(table, j) /\ j.op # "none" /\ j.entry = 0
    BY <1>1 DEF Correct
  <1>3. ObjectOf(table, j.path) = {j.obj}
    <2>1. PICK n : Reached(table, j, n)
      BY <1>2 DEF OnPath
    <2>2. n = Len(j.path)
      BY <1>1, <1>2, <2>1, TheTokensToDo DEF OnPath
    <2>3. QED
      BY <2>1, <2>2 DEF Reached, ObjectOf
  <1>4. CASE j.op = "getattr" /\ Finish([j EXCEPT !.stat = fs_object_attrs(j.obj)], "0")
    <2> DEFINE m == [j EXCEPT !.stat = fs_object_attrs(j.obj)]
    <2>1. SameJob(j, m) /\ m.stat = fs_object_attrs(j.obj) /\ m.offset = j.offset
      BY <1>1 DEF SameJob, JobFields
    <2> HIDE DEF m
    <2>2. /\ SameJob(j, j') /\ j'.pc = "idle" /\ j'.reply = "0" /\ j'.offset = j.offset
          /\ j'.stat = fs_object_attrs(j.obj)
      BY <1>4, <2>1, EndFields DEF SameJob, Finish, m
    <2>3. IsObject(j.obj)
      BY <1>2 DEF OnPath
    <2>4. /\ j'.stat.type = IF j.obj.kind \in {"file", "marked"} THEN "file" ELSE "directory"
          /\ j'.stat.type = "file" => j'.stat.size = j.obj.size
                                     /\ j'.stat.blocks * ClusterBytes >= j.obj.size
      <3>1. CASE is_directory(j.obj)
        BY <2>2, <2>3, <3>1, ObjectFields DEF fs_object_attrs
      <3>2. CASE ~is_directory(j.obj)
        <4>1. j.obj.size \in Nat /\ j.obj.kind \in {"file", "marked"}
          BY <2>3, <3>2, ObjectFields
        <4>2. /\ j'.stat.type = "file" /\ j'.stat.size = j.obj.size
              /\ j'.stat.blocks = (j.obj.size + ClusterBytes + 1) \div ClusterBytes
          BY <2>2, <3>2 DEF fs_object_attrs
        <4>3. QED
          BY <4>1, <4>2, BlocksHold
      <3>3. QED
        BY <3>1, <3>2
    <2>5. Answered(table, j')
      <3>1. /\ j'.op = "getattr" /\ j'.reply = "0" /\ j'.path = j.path /\ j'.obj = j.obj
        BY <1>4, <2>2 DEF SameJob
      <3>2. QED
        BY <1>3, <2>4, <3>1 DEF Answered
    <2>6. j'.reply \in DirReplies
      BY <2>2 DEF DirReplies
    <2>7. QED
      BY <1>1, <1>2, <2>2, <2>5, <2>6, AnsweredJob
  <1>5. CASE \E r \in {"ENOTDIR", "EPERM"} : Finish(j, r)
    <2>1. PICK r \in {"ENOTDIR", "EPERM"} : Finish(j, r)
      BY <1>5
    <2>2. SameJob(j, j') /\ j'.pc = "idle" /\ j'.reply = r /\ j'.offset = j.offset
      BY <1>1, <2>1, EndFields DEF SameJob, Finish
    <2>3. j'.reply \in DirReplies /\ Answered(table, j')
      BY <2>2, ErrorsPromiseNothing DEF DirReplies
    <2>4. QED
      BY <1>1, <1>2, <2>2, <2>3, AnsweredJob
  <1>6. CASE is_directory(j.obj) /\ j' = [j EXCEPT !.use = "empty"]
    <2>1. /\ j'.pc = j.pc /\ j'.op = j.op /\ j'.use = "empty" /\ j'.entry = j.entry
          /\ j'.path = j.path /\ j'.todo = j.todo /\ j'.obj = j.obj /\ j'.reply = j.reply
          /\ j'.offset = j.offset /\ j'.listing = j.listing
      BY <1>1, <1>6 DEF JobFields
    <2>2. Typed(table, j') /\ OnPath(table, j')
      BY <1>1, <1>2, <1>6, <2>1 DEF Typed, OnPath, Reached
    <2>3. QED
      BY <1>1, <1>2, <2>1, <2>2 DEF Correct
  <1>7. CASE /\ is_directory(j.obj)
             /\ j' = [j EXCEPT !.use = "list",
                       !.listing = IF j.obj = RootDir THEN DotNames ELSE <<>>]
    <2>1. /\ j'.pc = j.pc /\ j'.op = j.op /\ j'.use = "list" /\ j'.entry = j.entry
          /\ j'.path = j.path /\ j'.todo = j.todo /\ j'.obj = j.obj /\ j'.reply = j.reply
          /\ j'.offset = j.offset /\ j'.listing = Listing(j.obj)
      BY <1>1, <1>7 DEF JobFields, Listing
    <2>2. Listing(j.obj) \in Seq(Tokens)
      <3>1. DotNames \in Seq(Tokens) /\ <<>> \in Seq(Tokens)
        BY DEF DotNames, Tokens
      <3>2. QED
        BY <3>1 DEF Listing
    <2>3. Typed(table, j') /\ OnPath(table, j')
      BY <1>1, <1>2, <1>7, <2>1, <2>2 DEF Typed, OnPath, Reached
    <2>4. QED
      BY <1>1, <1>2, <2>1, <2>3 DEF Correct
  <1>8. CASE Fail(j, FE_ERRNO)
    BY <1>1, <1>2, <1>8, FailCorrect
  <1>9. QED
    BY <1>4, <1>5, <1>6, <1>7, <1>8 DEF Resolved

\* The mark of a bad cluster is not the number of one.
BadIsNoCluster == \A t \in Tables : FAT32_FAT_ENTRY_BAD \notin DOMAIN t

LEMMA NextClusterCorrect ==
  ASSUME BadIsNoCluster, Allocated(heap, j), Correct(table, j), NextCluster
  PROVE  Correct(table', j')
  <1> DEFINE slots == SlotsOf(table, j.obj.first)
             c == IF j.entry = 0 THEN j.cluster ELSE j.entry
             e == table[c]
             next == fat32_fat_entry_to_cluster(e)
  <1>1. /\ j.pc = "next" /\ j.offset = ClusterSlots /\ table' = table
        /\ DOMAIN j = JobFields
        /\ j.use \in {"lookup", "list", "empty"}
        /\ j.use = "list" => j.op = "readdir"
        /\ j.use = "empty" => j.op = "rmdir"
    BY DEF NextCluster, Allocated
  <1>2. /\ Typed(table, j) /\ OnPath(table, j) /\ j.op # "none" /\ Iterates(table, j)
        /\ table \in Tables
    BY <1>1 DEF Correct, Typed
  <1>3. is_directory(j.obj) /\ j.obj.first \in DOMAIN Content
    BY <1>2, ObjectFields DEF OnPath, Iterates
  <1>4. PICK p : /\ HasRead(table, j.obj.first, j.cluster, ClusterSlots, p)
                 /\ NoEnd(slots, p) /\ Passed(j, slots, p)
    BY <1>1, <1>2 DEF Iterates
  <1>5. /\ j.cluster \in DOMAIN Content /\ p \in Nat
        /\ Ends(table[j.cluster]) => DOMAIN slots = 1..p
        /\ ~Ends(table[j.cluster]) => HasRead(table, j.obj.first, table[j.cluster].value, 0, p)
    BY <1>2, <1>3, <1>4, ClusterIsRead
  <1>6. c \in DOMAIN table => j.entry = 0 /\ c = j.cluster
    BY <1>2 DEF Iterates, BadIsNoCluster
  <1> HIDE DEF slots
  <1>7. CASE \E code : Fail(j, code)
    BY <1>1, <1>2, <1>7, FailCorrect
  <1>8. CASE c \in DOMAIN table /\ fat32_fat_entry_is_bad(e) /\ j' = [j EXCEPT !.entry = next]
    <2>1. /\ SameJob(j, j') /\ j'.pc = j.pc /\ j'.offset = j.offset /\ j'.cluster = j.cluster
          /\ j'.entry = next /\ j'.reply = j.reply
      BY <1>1, <1>8 DEF SameJob, JobFields
    <2>2. next = FAT32_FAT_ENTRY_BAD
      BY <1>8 DEF fat32_fat_entry_is_bad, fat32_fat_entry_to_cluster
    <2>3. Typed(table, j') /\ OnPath(table, j')
      BY <1>2, <2>1 DEF Typed, OnPath, Reached, SameJob
    <2>4. Passed(j', slots, p)
      BY <1>4, <2>1 DEF Passed, SameJob
    <2>5. Iterates(table, j')
      BY <1>1, <1>2, <1>4, <2>1, <2>2, <2>4 DEF Iterates, SameJob, slots
    <2>6. QED
      BY <1>1, <1>2, <2>1, <2>3, <2>5 DEF Correct, SameJob
  <1>9. CASE /\ c \in DOMAIN table /\ ~fat32_fat_entry_is_bad(e) /\ fat32_fat_entry_is_null(e)
             /\ NoMore([j EXCEPT !.cluster = 0, !.offset = 0, !.entry = 0])
    <2> DEFINE m == [j EXCEPT !.cluster = 0, !.offset = 0, !.entry = 0]
    <2>1. SameJob(j, m) /\ m.offset = 0
      BY <1>1 DEF SameJob, JobFields
    <2> HIDE DEF m
    <2>2. /\ SameJob(j, j') /\ j'.pc = "idle" /\ j'.offset = 0
          /\ j'.reply = IF j.use = "lookup" THEN "ENOENT" ELSE "0"
      BY <1>9, <2>1, EndFields DEF SameJob, NoMore, Finish, m
    <2>3. DOMAIN slots = 1..p
      BY <1>5, <1>6, <1>9 DEF Ends
    <2>4. Answered(table, j')
      BY <1>1, <1>2, <1>3, <1>4, <1>5, <2>2, <2>3, AnswerAtTheEnd DEF Iterates, slots
    <2>5. Typed(table, m)
      BY <1>2, <2>1, DirIterAssumption DEF Typed, SameJob, m, JobFields
    <2>6. SameJob(m, j') /\ j'.reply \in DirReplies
      BY <2>1, <2>2 DEF SameJob, DirReplies
    <2>7. QED
      BY <1>1, <2>1, <2>2, <2>4, <2>5, <2>6, AnsweredJob
  <1>10. CASE /\ c \in DOMAIN table /\ ~fat32_fat_entry_is_bad(e) /\ ~fat32_fat_entry_is_null(e)
              /\ j' = [j EXCEPT !.cluster = next, !.offset = 0, !.entry = 0]
    <2>1. /\ SameJob(j, j') /\ j'.pc = j.pc /\ j'.offset = 0 /\ j'.cluster = next
          /\ j'.entry = 0 /\ j'.reply = j.reply
      BY <1>1, <1>10 DEF SameJob, JobFields
    <2>2. HasRead(table, j.obj.first, next, 0, p)
      BY <1>5, <1>6, <1>10 DEF Ends, fat32_fat_entry_to_cluster
    <2>3. Typed(table, j') /\ OnPath(table, j')
      <3>1. Typed(table, j')
        BY <1>2, <2>1, DirIterAssumption DEF Typed, SameJob
      <3>2. OnPath(table, j')
        BY <1>2, <2>1 DEF OnPath, Reached, SameJob
      <3>3. QED
        BY <3>1, <3>2
    <2>4. Passed(j', slots, p)
      BY <1>4, <2>1 DEF Passed, SameJob
    <2>5. Iterates(table, j')
      BY <1>2, <1>3, <1>4, <2>1, <2>2, <2>4 DEF Iterates, SameJob, slots
    <2>6. QED
      BY <1>1, <1>2, <2>1, <2>3, <2>5 DEF Correct, SameJob
  <1>11. QED
    BY <1>7, <1>8, <1>9, <1>10 DEF NextCluster

\* A slot is read and the search or the listing goes on.
LEMMA PassedNext ==
  ASSUME NEW t \in Tables, NEW l, NEW slots, IsSlots(slots),
         l.use \in {"lookup", "list", "empty"},
         NEW p \in Nat, NoEnd(slots, p), Passed(l, slots, p),
         p + 1 \in DOMAIN slots, slots[p + 1].mark # "last",
         \/ ~Visible(slots[p + 1])
         \/ l.use = "lookup" /\ slots[p + 1].name # Stored(Head(l.todo))
         \/ l.use = "empty" /\ slots[p + 1].dot,
         NEW m, SameJob(l, m)
  PROVE  Passed(m, slots, p + 1)
  <1>1. SeenIn(slots, p + 1) = IF Visible(slots[p + 1]) THEN SeenIn(slots, p) \cup {p + 1}
                               ELSE SeenIn(slots, p)
    BY NextIsSeen
  <1>2. m.use = l.use /\ m.todo = l.todo /\ m.listing = l.listing /\ m.obj = l.obj
    BY DEF SameJob
  <1>3. CASE ~Visible(slots[p + 1])
    <2>1. SeenIn(slots, p + 1) = SeenIn(slots, p)
      BY <1>1, <1>3
    <2>2. QED
      BY <1>2, <2>1 DEF Passed, NotNamed, Listed
  <1>4. CASE Visible(slots[p + 1]) /\ l.use = "lookup" /\ slots[p + 1].name # Stored(Head(l.todo))
    <2>1. SeenIn(slots, p + 1) = SeenIn(slots, p) \cup {p + 1}
      BY <1>1, <1>4
    <2>2. QED
      BY <1>2, <1>4, <2>1 DEF Passed, NotNamed
  <1>5. CASE Visible(slots[p + 1]) /\ l.use = "empty" /\ slots[p + 1].dot
    <2>1. SeenIn(slots, p + 1) = SeenIn(slots, p) \cup {p + 1}
      BY <1>1, <1>5
    <2>2. QED
      BY <1>2, <1>5, <2>1 DEF Passed
  <1>6. QED
    BY <1>3, <1>4, <1>5

LEMMA ReadEntryCorrect ==
  ASSUME NoMarked, Allocated(heap, j), Correct(table, j), ReadEntry
  PROVE  Correct(table', j')
  <1> DEFINE slots == SlotsOf(table, j.obj.first)
             e == Content[j.cluster][j.offset + 1]
             l == [j EXCEPT !.offset = @ + 1]
  <1>1. /\ j.pc = "next" /\ j.offset < ClusterSlots /\ table' = table
        /\ DOMAIN j = JobFields
        /\ j.use \in {"lookup", "list", "empty"}
        /\ j.use = "list" => j.op = "readdir"
        /\ j.use = "empty" => j.op = "rmdir"
    BY DEF ReadEntry, Allocated
  <1>2. /\ Typed(table, j) /\ OnPath(table, j) /\ j.op # "none" /\ Iterates(table, j)
        /\ table \in Tables /\ j.offset \in 0..ClusterSlots /\ ClusterSlots \in Nat
    BY <1>1, DirIterAssumption DEF Correct, Typed
  <1>3. is_directory(j.obj) /\ j.obj.first \in DOMAIN Content
    BY <1>2, ObjectFields DEF OnPath, Iterates
  <1>4. PICK p : /\ HasRead(table, j.obj.first, j.cluster, j.offset, p)
                 /\ NoEnd(slots, p) /\ Passed(j, slots, p)
    BY <1>2 DEF Iterates
  <1>5. /\ p \in Nat /\ p + 1 \in DOMAIN slots /\ slots[p + 1] = e
        /\ HasRead(table, j.obj.first, j.cluster, j.offset + 1, p + 1)
    <2>1. HasRead(table, j.obj.first, j.cluster, j.offset, p) /\ j.offset < ClusterSlots
      BY <1>1, <1>4
    <2>2. table \in Tables /\ j.offset \in 0..ClusterSlots /\ j.obj.first \in DOMAIN Content
      BY <1>2, <1>3
    <2>3. QED
      BY <2>1, <2>2, SlotIsRead
  <1>6. IsSlots(slots) /\ Sound(slots[p + 1])
    BY <1>2, <1>3, <1>5, DirectorySlots DEF IsSlots
  <1> HIDE DEF slots
  <1>7. e \in Direntry /\ Sound(e) /\ e.name \in Names /\ e.kind # "marked"
    BY <1>5, <1>6 DEF Sound, Direntry
  <1> HIDE DEF e
  <1>8. /\ SameJob(j, l) /\ l.pc = "next" /\ l.offset = j.offset + 1 /\ l.cluster = j.cluster
        /\ l.entry = j.entry /\ l.reply = j.reply
    BY <1>1 DEF SameJob, JobFields
  <1> HIDE DEF l
  <1>9. /\ l.offset \in 0..ClusterSlots /\ j.entry = 0
        /\ Typed(table, l) /\ OnPath(table, l) /\ DOMAIN l = JobFields
    <2>1. l.offset \in 0..ClusterSlots /\ j.entry = 0
      BY <1>1, <1>2, <1>8 DEF Iterates
    <2>2. Typed(table, l)
      BY <1>2, <1>8, <2>1 DEF Typed, SameJob
    <2>3. OnPath(table, l)
      BY <1>2, <1>8 DEF OnPath, Reached, SameJob
    <2>4. QED
      BY <1>8, <2>1, <2>2, <2>3 DEF SameJob
  <1>10. ASSUME NEW m, SameJob(l, m) \/ (m.use = "list" /\ m.todo = l.todo /\ m.use = l.use
                                        /\ m.obj = l.obj /\ m.path = l.path /\ m.op = l.op),
                m.pc = "next", m.offset = l.offset, m.cluster = l.cluster,
                m.entry = l.entry, m.reply = l.reply, m.listing \in Seq(Tokens),
                NoEnd(slots, p + 1), Passed(m, slots, p + 1)
         PROVE  Correct(table, m)
    <2>1. m.todo = l.todo /\ m.use = l.use /\ m.obj = l.obj /\ m.path = l.path /\ m.op = l.op
      BY <1>10 DEF SameJob
    <2>2. Typed(table, m)
      BY <1>9, <1>10, <2>1 DEF Typed
    <2>3. OnPath(table, m)
      BY <1>9, <2>1 DEF OnPath, Reached
    <2>4. Iterates(table, m)
      BY <1>2, <1>3, <1>5, <1>8, <1>9, <1>10, <2>1 DEF Iterates, SameJob, slots
    <2>5. QED
      BY <1>2, <1>8, <1>10, <2>1, <2>2, <2>3, <2>4 DEF Correct, SameJob
  <1>11. CASE \E code : Fail(j, code)
    BY <1>1, <1>2, <1>11, FailCorrect
  <1>12. CASE fat32_direntry_is_last(e) /\ NoMore([l EXCEPT !.cluster = 0])
    <2> DEFINE m == [l EXCEPT !.cluster = 0]
    <2>1. SameJob(j, m) /\ m.offset = l.offset /\ m.reply = l.reply
      BY <1>8, <1>9 DEF SameJob, JobFields
    <2> HIDE DEF m
    <2>2. /\ SameJob(j, j') /\ j'.pc = "idle" /\ j'.offset = m.offset
          /\ j'.reply = IF j.use = "lookup" THEN "ENOENT" ELSE "0"
      BY <1>12, <2>1, EndFields DEF SameJob, NoMore, Finish, m
    <2>3. slots[p + 1].mark = "last"
      BY <1>5, <1>12 DEF fat32_direntry_is_last
    <2>4. Answered(table, j')
      BY <1>1, <1>2, <1>3, <1>4, <1>5, <2>2, <2>3, AnswerAtTheEnd DEF Iterates, slots
    <2>5. Typed(table, m)
      BY <1>8, <1>9, <2>1 DEF Typed, SameJob
    <2>6. SameJob(m, j') /\ j'.reply \in DirReplies
      BY <2>1, <2>2 DEF SameJob, DirReplies
    <2>7. QED
      BY <1>1, <2>2, <2>4, <2>5, <2>6, AnsweredJob
  <1>13. ASSUME ~fat32_direntry_is_last(e)
         PROVE  NoEnd(slots, p + 1) /\ slots[p + 1].mark # "last"
    BY <1>4, <1>5, <1>6, <1>13, NextIsSeen DEF fat32_direntry_is_last
  <1>14. l.listing \in Seq(Tokens)
    BY <1>9 DEF Typed
  <1>15. CASE ~suitable_direntry(e, j.use # "empty") /\ j' = l
    <2>1. ~fat32_direntry_is_last(e)
      BY <1>15 DEF suitable_direntry
    <2>2. ~Visible(e) \/ (j.use = "empty" /\ e.dot)
      <3>1. (j.use # "empty") \in BOOLEAN
        OBVIOUS
      <3>2. e.dot \in BOOLEAN
        BY <1>7 DEF Direntry
      <3>3. QED
        BY <1>7, <1>15, <2>1, <3>1, <3>2, Suitable
    <2>3. Passed(l, slots, p + 1)
      BY <1>1, <1>2, <1>4, <1>5, <1>6, <1>8, <1>13, <2>1, <2>2, PassedNext
    <2>4. SameJob(l, l)
      BY <1>9 DEF SameJob
    <2>5. Correct(table, l)
      BY <1>8, <1>10, <1>13, <1>14, <2>1, <2>3, <2>4
    <2>6. QED
      BY <1>1, <1>15, <2>5
  <1>16. CASE /\ ~fat32_direntry_is_last(e) /\ suitable_direntry(e, j.use # "empty")
              /\ Deliver(l, e)
    <2>1. Visible(e) /\ (j.use = "empty" => ~e.dot)
      <3>1. (j.use # "empty") \in BOOLEAN
        OBVIOUS
      <3>2. QED
        BY <1>7, <1>16, <3>1, Suitable
    <2>2. NoEnd(slots, p + 1) /\ slots[p + 1].mark # "last" /\ Visible(slots[p + 1])
      BY <1>5, <1>13, <1>16, <2>1
    <2>3. CASE l.use = "lookup" /\ Compare(l, e)
      <3>1. PICK n : Reached(table, j, n)
        BY <1>2 DEF OnPath
      <3>2. j.use = "lookup" /\ j.todo # <<>> /\ l.todo = j.todo
        BY <1>2, <1>8, <2>3 DEF SameJob, Iterates
      <3>3. /\ Len(j.path) \in Nat /\ n \in 0..Len(j.path) /\ n < Len(j.path)
            /\ n + 1 \in 1..Len(j.path)
            /\ Head(j.todo) = j.path[n + 1]
            /\ Tail(j.todo) = SubSeq(j.path, n + 2, Len(j.path))
        <4>1. GoodPath(table, j.path)
          BY <1>2 DEF OnPath
        <4>2. /\ Len(j.path) \in Nat /\ n \in 0..Len(j.path)
              /\ j.todo = <<>> <=> n = Len(j.path)
              /\ n < Len(j.path) => /\ n + 1 \in 1..Len(j.path)
                                    /\ Head(j.todo) = j.path[n + 1]
                                    /\ Tail(j.todo) = SubSeq(j.path, n + 2, Len(j.path))
          BY <3>1, <4>1, TheTokensToDo
        <4>3. n < Len(j.path)
          BY <3>2, <4>2
        <4>4. QED
          BY <4>2, <4>3
      <3>4. /\ Head(j.todo) # DotNames[1]
            /\ \E name \in Names :
                 Head(j.todo) = fat32_direntry_short_name([name |-> name])
        BY <1>2, <3>3 DEF OnPath, GoodPath
      <3>5. fat32_direntry_short_name(e) = Head(j.todo) <=> e.name = Stored(Head(j.todo))
        BY <1>7, <3>4, TokensName
      <3>6. CASE fat32_direntry_short_name(e) # Head(l.todo) /\ j' = l
        <4>1. slots[p + 1].name # Stored(Head(j.todo))
          BY <1>5, <3>2, <3>5, <3>6
        <4>2. Passed(l, slots, p + 1)
          BY <1>1, <1>2, <1>4, <1>5, <1>6, <1>8, <2>2, <3>2, <4>1, PassedNext
        <4>3. SameJob(l, l)
          BY <1>9 DEF SameJob
        <4>4. Correct(table, l)
          BY <1>8, <1>10, <1>14, <2>2, <4>2, <4>3
        <4>5. QED
          BY <1>1, <3>6, <4>4
      <3>7. CASE /\ fat32_direntry_short_name(e) = Head(l.todo)
                 /\ j' = [l EXCEPT !.pc = "create", !.obj = e, !.todo = Tail(@)]
        <4>1. /\ j'.pc = "create" /\ j'.op = j.op /\ j'.path = j.path /\ j'.use = "lookup"
              /\ j'.todo = Tail(j.todo) /\ j'.obj = e /\ j'.offset = l.offset
              /\ j'.listing = l.listing /\ j'.entry = 0 /\ j'.reply = l.reply
          BY <1>8, <1>9, <2>3, <3>2, <3>7 DEF SameJob, JobFields
        <4>2. slots[p + 1].name = Stored(Head(j.todo)) /\ e.name = Stored(Head(j.todo))
          BY <1>5, <3>2, <3>5, <3>7
        <4>3. NotNamed(slots, p, Head(j.todo))
          BY <1>4, <3>2 DEF Passed
        <4>4. Named(slots, Head(j.todo)) = {e}
          BY <1>4, <1>5, <1>6, <2>2, <4>2, <4>3, FirstNamed
        <4>5. ObjectsAlong(table, j.path)[n + 1] = {e}
          <5>1. ObjectsAlong(table, j.path)[n] = {j.obj}
            BY <3>1 DEF Reached
          <5>2. Len(j.path) \in Nat /\ n \in 0..Len(j.path) /\ n < Len(j.path)
            BY <3>3
          <5>3. ObjectsAlong(table, j.path)[n + 1]
                  = Named(SlotsOf(table, j.obj.first), j.path[n + 1])
            BY <5>1, <5>2, NextAlong
          <5>4. ObjectsAlong(table, j.path)[n + 1] = Named(slots, j.path[n + 1])
            BY <5>3 DEF slots
          <5>5. QED
            BY <3>3, <4>4, <5>4
        <4>6. Reached(table, j', n + 1)
          <5>1. n + 1 \in 0..Len(j.path) /\ (n + 1) + 1 = n + 2
            BY <3>3
          <5>2. QED
            BY <3>3, <4>1, <4>5, <5>1 DEF Reached
        <4>7. IsObject(e)
          BY <1>7, <2>1, <3>4, <4>2, NotTheParent DEF IsObject
        <4>8. OnPath(table, j')
          BY <1>2, <4>1, <4>6, <4>7 DEF OnPath
        <4>9. Typed(table, j')
          BY <1>7, <1>9, <4>1 DEF Typed
        <4>10. QED
          BY <1>1, <1>2, <4>1, <4>8, <4>9 DEF Correct
      <3>8. QED
        BY <2>3, <3>6, <3>7 DEF Compare
    <2>4. CASE l.use = "list" /\ Fill(l, e)
      <3> DEFINE short == fat32_direntry_short_name(e)
      <3>1. CASE Fail(l, FE_ERRNO)
        BY <1>1, <1>9, <3>1, FailCorrect
      <3>2. CASE j' = [l EXCEPT !.listing = Append(@, short)]
        <4>1. /\ j'.pc = l.pc /\ j'.op = l.op /\ j'.path = l.path /\ j'.use = l.use
              /\ j'.todo = l.todo /\ j'.obj = l.obj /\ j'.offset = l.offset
              /\ j'.listing = Append(l.listing, short) /\ j'.entry = l.entry
              /\ j'.reply = l.reply /\ j'.cluster = l.cluster
          BY <1>9, <3>2 DEF JobFields
        <4>2. short \in Tokens /\ Stored(short) = e.name
          BY <1>7, NameParts, StoredShortName DEF Tokens
        <4> HIDE DEF short
        <4>3. PICK list \in Seq(Tokens) :
                l.listing = Listing(l.obj) \o list /\ Listed(list, slots, p)
          BY <1>4, <1>8, <2>4 DEF Passed, SameJob
        <4>4. Listed(Append(list, short), slots, p + 1) /\ Append(list, short) \in Seq(Tokens)
          BY <1>4, <1>5, <1>6, <2>2, <4>2, <4>3, OneMoreListed, AppendProperties
        <4>5. Append(l.listing, short) = Listing(l.obj) \o Append(list, short)
          <5>1. Listing(l.obj) \in Seq(Tokens) /\ <<short>> \in Seq(Tokens)
            <6>1. DotNames \in Seq(Tokens) /\ <<>> \in Seq(Tokens)
              BY DEF DotNames, Tokens
            <6>2. QED
              BY <4>2, <6>1 DEF Listing
          <5>2. Append(l.listing, short) = l.listing \o <<short>>
            BY <1>14, <4>2, AppendIsConcat
          <5>3. Append(list, short) = list \o <<short>>
            BY <4>2, <4>3, AppendIsConcat
          <5>4. (Listing(l.obj) \o list) \o <<short>> = Listing(l.obj) \o (list \o <<short>>)
            BY <4>3, <5>1, ConcatAssociative
          <5>5. QED
            BY <4>3, <5>2, <5>3, <5>4
        <4>6. Passed(j', slots, p + 1)
          BY <2>4, <4>1, <4>4, <4>5 DEF Passed
        <4>7. j'.listing \in Seq(Tokens)
          BY <1>14, <4>1, <4>2, AppendProperties
        <4>8. Correct(table, j')
          BY <1>8, <1>10, <2>2, <2>4, <4>1, <4>6, <4>7
        <4>9. QED
          BY <1>1, <4>8
      <3>3. QED
        BY <2>4, <3>1, <3>2 DEF Fill
    <2>5. CASE l.use = "empty" /\ Finish(l, "ENOTEMPTY")
      <3>1. /\ SameJob(l, j') /\ j'.pc = "idle" /\ j'.offset = l.offset
            /\ j'.reply = "ENOTEMPTY"
        BY <1>9, <2>5, EndFields DEF SameJob, Finish
      <3>2. j'.op = "rmdir" /\ j'.obj = j.obj /\ j.use = "empty"
        BY <1>1, <1>8, <2>5, <3>1 DEF SameJob
      <3>3. p + 1 \in EntriesIn(slots)
        <4>1. /\ SeenIn(slots, p + 1) = SeenIn(slots, p) \cup {p + 1}
              /\ SeenIn(slots, p + 1) \subseteq EntriesIn(slots)
          BY <1>4, <1>5, <1>6, <2>2, NextIsSeen
        <4>2. QED
          BY <4>1
      <3>4. ~slots[p + 1].dot
        BY <1>5, <2>1, <3>2
      <3>5. Answered(table, j')
        BY <3>1, <3>2, <3>3, <3>4 DEF Answered, slots
      <3>6. QED
        BY <1>1, <1>9, <3>1, <3>5, AnsweredJob DEF DirReplies
    <2>6. QED
      BY <1>16, <2>3, <2>4, <2>5 DEF Deliver
  <1>17. CASE ~fat32_direntry_is_last(e) /\ NoChild(l)
    <2>1. CASE Finish(l, "died")
      <3>1. SameJob(l, j') /\ j'.pc = "idle" /\ j'.reply = "died" /\ j'.offset = l.offset
        BY <1>9, <2>1, EndFields DEF SameJob, Finish
      <3>2. j'.reply \in DirReplies /\ Answered(table, j')
        BY <3>1, ErrorsPromiseNothing DEF DirReplies
      <3>3. QED
        BY <1>1, <1>9, <3>1, <3>2, AnsweredJob
    <2>2. CASE Finish([l EXCEPT !.lost = TRUE], IF l.use = "lookup" THEN "ENOENT" ELSE "0")
      <3> DEFINE m == [l EXCEPT !.lost = TRUE]
      <3>1. SameJob(j, m) /\ m.offset = l.offset /\ m.lost
        BY <1>8, <1>9 DEF SameJob, JobFields
      <3> HIDE DEF m
      <3>2. /\ SameJob(j, j') /\ SameJob(l, j') /\ j'.pc = "idle" /\ j'.offset = l.offset
            /\ j'.reply = (IF j.use = "lookup" THEN "ENOENT" ELSE "0") /\ j'.lost
        BY <1>8, <2>2, <3>1, EndFields DEF SameJob, Finish, m
      <3>3. Answered(table, j')
        BY <1>1, <1>2, <1>3, <1>4, <1>5, <3>2, AnswerAtTheEnd DEF Iterates, slots
      <3>4. j'.reply \in DirReplies
        BY <3>2 DEF DirReplies
      <3>5. QED
        BY <1>1, <1>9, <3>2, <3>3, <3>4, AnsweredJob
    <2>3. QED
      BY <1>17, <2>1, <2>2 DEF NoChild
  <1>18. QED
    BY <1>11, <1>12, <1>15, <1>16, <1>17 DEF ReadEntry, l, e

-----------------------------------------------------------------------------
RequestInv == Allocated(heap, j) /\ Correct(table, j)

LEMMA NextRequestInv ==
  ASSUME BadIsNoCluster, NoMarked, RequestInv, [DirNext]_dirvars
  PROVE  RequestInv'
  <1>1. Allocated(heap, j) /\ Correct(table, j)
    BY DEF RequestInv
  <1>2. Allocated(heap', j')
    BY <1>1, NextAllocated
  <1>3. Correct(table', j')
    <2>1. ASSUME NEW r \in Requests, Request(r[1], r[2]) PROVE Correct(table', j')
      <3>1. r[1] \in {"getattr", "readdir", "rmdir"} /\ r[2] \in Seq(Tokens)
        BY <2>1, DirIterAssumption DEF Tokens
      <3>2. QED
        BY <1>1, <2>1, <3>1, RequestCorrect
    <2>2. CASE CreateIterator
      BY <1>1, <2>2, CreateIteratorCorrect
    <2>3. CASE Resolved
      BY <1>1, <2>3, ResolvedCorrect
    <2>4. CASE NextCluster
      BY <1>1, <2>4, NextClusterCorrect
    <2>5. CASE ReadEntry
      BY <1>1, <2>5, ReadEntryCorrect
    <2>6. CASE UNCHANGED dirvars
      BY <1>1, <2>6 DEF dirvars
    <2>7. QED
      BY <2>1, <2>2, <2>3, <2>4, <2>5, <2>6 DEF DirNext, DirStep
  <1>4. QED
    BY <1>2, <1>3 DEF RequestInv

\* The inductive invariant of the requests on directories.
THEOREM DirectoriesInvariant ==
  ASSUME BadIsNoCluster, NoMarked
  PROVE  DirSpec => []RequestInv
  <1>1. DirInit => RequestInv
    BY InitAllocated, InitCorrect DEF RequestInv
  <1>2. RequestInv /\ [DirNext]_dirvars => RequestInv'
    BY NextRequestInv
  <1>3. QED
    BY <1>1, <1>2, PTL DEF DirSpec

\* The types of a request's locals.
THEOREM TypesOfDirectories ==
  ASSUME BadIsNoCluster, NoMarked
  PROVE  DirSpec => []DirTypeOK
  <1>1. ASSUME RequestInv PROVE DirTypeOK
    <2>1. Allocated(heap, j) /\ Typed(table, j)
      BY <1>1 DEF RequestInv, Correct
    <2>2. \A blocks : Count(blocks) \in [Kinds -> {0, 1}]
      BY DEF Count
    <2>3. heap \in [Kinds -> {0, 1}]
      BY <2>1, <2>2, NothingIsHeld DEF Allocated
    <2>4. QED
      BY <2>1, <2>3 DEF Allocated, Typed, DirReplies, DirTypeOK
  <1>2. QED
    BY <1>1, DirectoriesInvariant, PTL

\* fat32_fs_get_object finds what the path names, with the attributes of that
\* object, and says ENOENT only of what is not there or for want of memory.
THEOREM PathsFindTheirObjects ==
  ASSUME BadIsNoCluster, NoMarked
  PROVE  DirSpec => []FindsTheObject
  <1>1. RequestInv => FindsTheObject
    BY DEF RequestInv, Correct, Answered, FindsTheObject, Done
  <1>2. QED
    BY <1>1, DirectoriesInvariant, PTL

\* fat32_readdir lists the directory, each entry once, in order: all of them, or
\* the first ones for want of memory.
THEOREM ListingsHaveTheEntries ==
  ASSUME BadIsNoCluster, NoMarked
  PROVE  DirSpec => []ListsTheDirectory
  <1>1. RequestInv => ListsTheDirectory
    BY DEF RequestInv, Correct, Answered, ListsTheDirectory, Done
  <1>2. QED
    BY <1>1, DirectoriesInvariant, PTL

\* fat32_fs_object_is_empty_directory says "not empty" only of what is not, and
\* "empty" only of what is or for want of memory.
THEOREM EmptyChecksAreRight ==
  ASSUME BadIsNoCluster, NoMarked
  PROVE  DirSpec => []EmptyMeansEmpty
  <1>1. RequestInv => EmptyMeansEmpty
    BY DEF RequestInv, Correct, Answered, EmptyMeansEmpty, Done
  <1>2. QED
    BY <1>1, DirectoriesInvariant, PTL
=============================================================================
