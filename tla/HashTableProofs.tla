-------------------------- MODULE HashTableProofs --------------------------
(***************************************************************************)
(* Proofs about HashTable, for any keys and values, any number of lists,   *)
(* any hash function, and any allocation failing: no freed memory is       *)
(* touched, none is lost, and the lists implement AbstractMap.             *)
(*                                                                         *)
(* What the lists are is said without following links: every node in the   *)
(* table has a list (its home) and a place in it (its rank), and the link  *)
(* of a node is the node one place further.                                *)
(***************************************************************************)
EXTENDS HashTable, FiniteSetTheorems, WellFoundedInduction, TLAPS

Indices == 0..Size - 1

-----------------------------------------------------------------------------
(***************************************************************************)
(* Lists in general: N are the nodes in them, first[i] the first node of   *)
(* the i-th list, next[n] the node after n.                                *)
(***************************************************************************)
Lists(N, first, next, home, rank) ==
    /\ NULL \notin N
    /\ first \in [Indices -> N \cup {NULL}] /\ next \in [N -> N \cup {NULL}]
    /\ home \in [N -> Indices] /\ rank \in [N -> Nat]
    /\ \A i \in Indices : first[i] # NULL => home[first[i]] = i /\ rank[first[i]] = 0
    /\ \A n \in N : next[n] # NULL => home[next[n]] = home[n] /\ rank[next[n]] = rank[n] + 1
    /\ \A n \in N : rank[n] = 0 => first[home[n]] = n
    /\ \A n \in N : rank[n] > 0 => \E p \in N : next[p] = n
    /\ \A m, n \in N : home[m] = home[n] /\ rank[m] = rank[n] => m = n
    /\ \A n \in N : \A k \in 0..rank[n] : \E q \in N : home[q] = home[n] /\ rank[q] = k

\* The table is empty if all its lists are.
LEMMA NoHeadsNoNodes ==
  ASSUME NEW N, NEW first, NEW next, NEW home, NEW rank,
         Lists(N, first, next, home, rank), \A i \in Indices : first[i] = NULL
  PROVE  N = {}
  <1> SUFFICES ASSUME NEW n \in N
               PROVE  FALSE
    OBVIOUS
  <1>1. rank[n] \in Nat
    BY DEF Lists
  <1>2. 0 \in 0..rank[n]
    BY <1>1
  <1>3. PICK q \in N : home[q] = home[n] /\ rank[q] = 0
    BY <1>2 DEF Lists
  <1>4. first[home[q]] = q /\ home[q] \in Indices /\ q # NULL
    BY <1>3 DEF Lists
  <1>5. QED
    BY <1>4

\* No node is between a node and the next one.
LEMMA NothingBetween ==
  ASSUME NEW N, NEW first, NEW next, NEW home, NEW rank,
         Lists(N, first, next, home, rank),
         NEW p \in N, NEW n \in N, home[n] = home[p], rank[n] > rank[p]
  PROVE  next[p] # NULL /\ rank[n] >= rank[next[p]]
  <1>1. rank[n] \in Nat /\ rank[p] \in Nat
    BY DEF Lists
  <1>2. rank[p] + 1 \in 0..rank[n]
    BY <1>1
  <1>3. PICK q \in N : home[q] = home[n] /\ rank[q] = rank[p] + 1
    BY <1>2 DEF Lists
  <1>4. rank[q] > 0
    BY <1>1, <1>3
  <1>5. PICK s \in N : next[s] = q
    BY <1>4 DEF Lists
  <1>6. q # NULL
    BY DEF Lists
  <1>7. home[q] = home[s] /\ rank[q] = rank[s] + 1 /\ rank[s] \in Nat
    BY <1>5, <1>6 DEF Lists
  <1>8. rank[s] = rank[p]
    BY <1>1, <1>3, <1>7
  <1>9. s = p
    <2>1. \A m, l \in N : home[m] = home[l] /\ rank[m] = rank[l] => m = l
      BY DEF Lists
    <2>2. QED
      BY <1>3, <1>7, <1>8, <2>1
  <1>10. QED
    BY <1>1, <1>3, <1>5, <1>6, <1>9

\* The first node of a list is before all others of it.
LEMMA FirstOfList ==
  ASSUME NEW N, NEW first, NEW next, NEW home, NEW rank,
         Lists(N, first, next, home, rank), NEW n \in N
  PROVE  /\ first[home[n]] # NULL
         /\ rank[n] >= rank[first[home[n]]]
  <1>1. rank[n] \in Nat /\ 0 \in 0..rank[n]
    BY DEF Lists
  <1>2. PICK q \in N : home[q] = home[n] /\ rank[q] = 0
    BY <1>1 DEF Lists
  <1>3. first[home[n]] = q /\ q # NULL
    BY <1>2 DEF Lists
  <1>4. QED
    BY <1>1, <1>2, <1>3

\* Taking the node x out of its list; before it is "prev" or the array.
Removed(first, next, home, x) ==
    [first |-> [i \in Indices |-> IF first[i] = x THEN next[x] ELSE first[i]],
     next  |-> [n \in DOMAIN next \ {x} |-> IF next[n] = x THEN next[x] ELSE next[n]],
     home  |-> [n \in DOMAIN next \ {x} |-> home[n]]]

LEMMA RemoveNode ==
  ASSUME NEW N, NEW first, NEW next, NEW home, NEW rank,
         Lists(N, first, next, home, rank), NEW x \in N
  PROVE  \E lower :
           Lists(N \ {x}, Removed(first, next, home, x).first,
                 Removed(first, next, home, x).next,
                 Removed(first, next, home, x).home, lower)
  <1> DEFINE M == N \ {x}
             F == [i \in Indices |-> IF first[i] = x THEN next[x] ELSE first[i]]
             X == [n \in M |-> IF next[n] = x THEN next[x] ELSE next[n]]
             H == [n \in M |-> home[n]]
             after(n) == home[n] = home[x] /\ rank[n] > rank[x]
             R == [n \in M |-> IF after(n) THEN rank[n] - 1 ELSE rank[n]]
  <1>1. /\ NULL \notin N /\ first \in [Indices -> N \cup {NULL}]
        /\ next \in [N -> N \cup {NULL}] /\ home \in [N -> Indices] /\ rank \in [N -> Nat]
        /\ home[x] \in Indices /\ rank[x] \in Nat
    BY DEF Lists
  <1>2. /\ \A i \in Indices : first[i] # NULL => home[first[i]] = i /\ rank[first[i]] = 0
        /\ \A n \in N : next[n] # NULL => home[next[n]] = home[n] /\ rank[next[n]] = rank[n] + 1
    BY DEF Lists
  <1>3. \A m, n \in N : home[m] = home[n] /\ rank[m] = rank[n] => m = n
    BY DEF Lists
  <1>4. \A n \in N : home[n] = home[x] /\ rank[n] > rank[x] =>
           next[x] # NULL /\ rank[n] >= rank[next[x]]
    BY NothingBetween
  <1>5. next[x] # x /\ next[x] \in M \cup {NULL} /\ (next[x] # NULL => after(next[x]))
    BY <1>1, <1>2
  <1>6. F \in [Indices -> M \cup {NULL}] /\ X \in [M -> M \cup {NULL}]
    BY <1>1, <1>5
  <1>7. H \in [M -> Indices] /\ R \in [M -> Nat]
    <2>1. \A n \in M : rank[n] \in Nat /\ (after(n) => rank[n] - 1 \in Nat)
      BY <1>1
    <2>2. QED
      BY <1>1, <2>1
  <1>8. \A i \in Indices : F[i] # NULL => H[F[i]] = i /\ R[F[i]] = 0
    <2> SUFFICES ASSUME NEW i \in Indices, F[i] # NULL
                 PROVE  home[F[i]] = i /\ R[F[i]] = 0 /\ F[i] \in M
      BY <1>6
    <2>1. CASE first[i] = x
      <3>1. home[x] = i /\ rank[x] = 0
        BY <1>1, <1>2, <2>1
      <3>2. F[i] = next[x] /\ next[x] # NULL
        BY <2>1
      <3>3. home[next[x]] = i /\ rank[next[x]] = 0 + 1 /\ next[x] \in M /\ after(next[x])
        BY <1>1, <1>2, <1>5, <3>1, <3>2
      <3>4. QED
        BY <3>2, <3>3
    <2>2. CASE first[i] # x
      <3>1. F[i] = first[i] /\ first[i] \in M
        BY <1>1, <2>2
      <3>2. home[first[i]] = i /\ rank[first[i]] = 0
        BY <1>2, <3>1
      <3>3. ~after(first[i])
        BY <1>1, <3>2
      <3>4. QED
        BY <3>1, <3>2, <3>3
    <2>3. QED
      BY <2>1, <2>2
  <1>9. \A n \in M : X[n] # NULL => H[X[n]] = H[n] /\ R[X[n]] = R[n] + 1
    <2> SUFFICES ASSUME NEW n \in M, X[n] # NULL
                 PROVE  home[X[n]] = home[n] /\ R[X[n]] = R[n] + 1 /\ X[n] \in M
      BY <1>6
    <2>0. rank[n] \in Nat /\ R[n] = IF after(n) THEN rank[n] - 1 ELSE rank[n]
      BY <1>1
    <2>1. CASE next[n] = x
      <3>1. home[x] = home[n] /\ rank[x] = rank[n] + 1
        BY <1>1, <1>2, <2>1
      <3>2. X[n] = next[x] /\ next[x] # NULL /\ next[x] \in M
        BY <1>5, <2>1
      <3>3. home[next[x]] = home[x] /\ rank[next[x]] = rank[x] + 1 /\ after(next[x])
        BY <1>2, <1>5, <3>2
      <3>4. ~after(n)
        BY <2>0, <3>1
      <3>5. R[next[x]] = rank[next[x]] - 1
        BY <3>2, <3>3
      <3>6. QED
        BY <2>0, <3>1, <3>2, <3>3, <3>4, <3>5
    <2>2. CASE next[n] # x
      <3>1. X[n] = next[n] /\ next[n] \in M
        BY <1>1, <2>2
      <3>2. home[next[n]] = home[n] /\ rank[next[n]] = rank[n] + 1
        BY <1>2, <3>1
      <3>3. after(next[n]) <=> after(n)
        <4>1. CASE home[n] = home[x] /\ rank[n] <= rank[x]
          <5>1. rank[n] # rank[x]
            BY <1>3, <4>1
          <5>2. rank[next[n]] # rank[x]
            BY <1>3, <3>1, <3>2, <4>1
          <5>3. QED
            BY <1>1, <2>0, <3>2, <4>1, <5>1, <5>2
        <4>2. CASE ~ (home[n] = home[x] /\ rank[n] <= rank[x])
          BY <1>1, <2>0, <3>2, <4>2
        <4>3. QED
          BY <4>1, <4>2
      <3>4. R[next[n]] = IF after(next[n]) THEN rank[next[n]] - 1 ELSE rank[next[n]]
        BY <3>1
      <3>5. QED
        BY <1>1, <2>0, <3>1, <3>2, <3>3, <3>4
    <2>3. QED
      BY <2>1, <2>2
  <1> USE <1>1
  <1>10. \A n \in M : R[n] = 0 => F[H[n]] = n
    <2> SUFFICES ASSUME NEW n \in M, R[n] = 0
                 PROVE  F[home[n]] = n
      OBVIOUS
    <2>0. rank[n] \in Nat /\ R[n] = IF after(n) THEN rank[n] - 1 ELSE rank[n]
      OBVIOUS
    <2>1. CASE after(n)
      <3>1. rank[n] = 1 /\ rank[x] = 0
        BY <2>0, <2>1
      <3>2. first[home[x]] = x
        BY <3>1 DEF Lists
      <3>3. next[x] # NULL /\ home[next[x]] = home[x] /\ rank[next[x]] = rank[x] + 1
        BY <1>2, <1>4, <2>1
      <3>4. next[x] = n
        BY <1>3, <1>5, <2>1, <3>1, <3>3
      <3>5. QED
        BY <2>1, <3>2, <3>4
    <2>2. CASE ~after(n)
      <3>1. rank[n] = 0
        BY <2>0, <2>2
      <3>2. first[home[n]] = n
        BY <3>1 DEF Lists
      <3>3. QED
        BY <3>2
    <2>3. QED
      BY <2>1, <2>2
  <1>11. \A n \in M : R[n] > 0 => \E p \in M : X[p] = n
    <2> SUFFICES ASSUME NEW n \in M, R[n] > 0
                 PROVE  \E p \in M : X[p] = n
      OBVIOUS
    <2>0. rank[n] \in Nat /\ R[n] = IF after(n) THEN rank[n] - 1 ELSE rank[n]
      OBVIOUS
    <2>1. rank[n] > 0
      BY <2>0
    <2>2. PICK p \in N : next[p] = n
      BY <2>1 DEF Lists
    <2>3. CASE p # x
      <3>1. X[p] = n
        BY <2>2, <2>3
      <3>2. QED
        BY <2>3, <3>1
    <2>4. CASE p = x
      <3>1. home[n] = home[x] /\ rank[n] = rank[x] + 1
        BY <1>2, <2>2, <2>4
      <3>2. after(n) /\ rank[x] > 0
        BY <2>0, <3>1
      <3>3. PICK q \in N : next[q] = x
        BY <3>2 DEF Lists
      <3>4. q # x
        BY <1>5, <3>3
      <3>5. X[q] = n
        BY <2>2, <2>4, <3>3, <3>4
      <3>6. QED
        BY <3>4, <3>5
    <2>5. QED
      BY <2>3, <2>4
  <1>12. \A m, n \in M : H[m] = H[n] /\ R[m] = R[n] => m = n
    <2> SUFFICES ASSUME NEW m \in M, NEW n \in M, home[m] = home[n], R[m] = R[n]
                 PROVE  rank[m] = rank[n]
      BY <1>3
    <2>1. /\ rank[m] \in Nat /\ R[m] = IF after(m) THEN rank[m] - 1 ELSE rank[m]
          /\ rank[n] \in Nat /\ R[n] = IF after(n) THEN rank[n] - 1 ELSE rank[n]
      OBVIOUS
    <2>2. home[m] = home[x] => rank[m] # rank[x] /\ rank[n] # rank[x]
      BY <1>3
    <2>3. QED
      BY <2>1, <2>2
  <1>13. \A n \in M : \A k \in 0..R[n] : \E q \in M : H[q] = H[n] /\ R[q] = k
    <2> SUFFICES ASSUME NEW n \in M, NEW k \in 0..R[n]
                 PROVE  \E q \in M : home[q] = home[n] /\ R[q] = k
      OBVIOUS
    <2>0. rank[n] \in Nat /\ R[n] = IF after(n) THEN rank[n] - 1 ELSE rank[n]
      OBVIOUS
    <2>1. CASE after(n) /\ k >= rank[x]
      <3>1. k + 1 \in 0..rank[n] /\ k + 1 > rank[x] /\ k \in Nat
        BY <2>0, <2>1
      <3>2. PICK q \in N : home[q] = home[n] /\ rank[q] = k + 1
        BY <3>1 DEF Lists
      <3>3. q # x /\ after(q)
        BY <2>1, <3>1, <3>2
      <3>4. R[q] = k
        BY <3>1, <3>2, <3>3
      <3>5. QED
        BY <3>2, <3>3, <3>4
    <2>2. CASE ~ (after(n) /\ k >= rank[x])
      <3>1. k \in 0..rank[n] /\ k \in Nat
        BY <2>0
      <3>2. PICK q \in N : home[q] = home[n] /\ rank[q] = k
        BY <3>1 DEF Lists
      <3>3. home[n] = home[x] => k < rank[x]
        <4>1. CASE home[n] = home[x] /\ ~after(n)
          <5>1. rank[n] # rank[x]
            BY <1>3, <4>1
          <5>2. QED
            BY <2>0, <3>1, <4>1, <5>1
        <4>2. CASE ~ (home[n] = home[x] /\ ~after(n))
          BY <2>2, <3>1, <4>2
        <4>3. QED
          BY <4>1, <4>2
      <3>4. q # x /\ ~after(q)
        BY <3>1, <3>2, <3>3
      <3>5. R[q] = k
        BY <3>2, <3>4
      <3>6. QED
        BY <3>2, <3>4, <3>5
    <2>3. QED
      BY <2>1, <2>2
  <1>14. DOMAIN next = N /\ NULL \notin M
    OBVIOUS
  <1> HIDE DEF F, X, H, R
  <1>15. Lists(M, F, X, H, R)
    BY <1>6, <1>7, <1>8, <1>9, <1>10, <1>11, <1>12, <1>13, <1>14 DEF Lists
  <1>16. QED
    BY <1>14, <1>15 DEF Removed, F, X, H

\* Putting the node x before the i-th list.
Added(first, next, home, i, x) ==
    [first |-> [first EXCEPT ![i] = x],
     next  |-> [n \in DOMAIN next \cup {x} |-> IF n = x THEN first[i] ELSE next[n]],
     home  |-> [n \in DOMAIN next \cup {x} |-> IF n = x THEN i ELSE home[n]]]

LEMMA AddNode ==
  ASSUME NEW N, NEW first, NEW next, NEW home, NEW rank,
         Lists(N, first, next, home, rank), NEW i \in Indices, NEW x, x \notin N, x # NULL
  PROVE  \E higher :
           Lists(N \cup {x}, Added(first, next, home, i, x).first,
                 Added(first, next, home, i, x).next,
                 Added(first, next, home, i, x).home, higher)
  <1> DEFINE M == N \cup {x}
             F == [first EXCEPT ![i] = x]
             X == [n \in M |-> IF n = x THEN first[i] ELSE next[n]]
             H == [n \in M |-> IF n = x THEN i ELSE home[n]]
             R == [n \in M |-> IF n = x THEN 0 ELSE IF home[n] = i THEN rank[n] + 1
                               ELSE rank[n]]
  <1>1. /\ NULL \notin N /\ first \in [Indices -> N \cup {NULL}]
        /\ next \in [N -> N \cup {NULL}] /\ home \in [N -> Indices] /\ rank \in [N -> Nat]
    BY DEF Lists
  <1>2. /\ \A j \in Indices : first[j] # NULL => home[first[j]] = j /\ rank[first[j]] = 0
        /\ \A n \in N : next[n] # NULL => home[next[n]] = home[n] /\ rank[next[n]] = rank[n] + 1
    BY DEF Lists
  <1>3. \A m, n \in N : home[m] = home[n] /\ rank[m] = rank[n] => m = n
    BY DEF Lists
  <1>4. \A n \in N : /\ n # x /\ X[n] = next[n] /\ H[n] = home[n]
                     /\ R[n] = IF home[n] = i THEN rank[n] + 1 ELSE rank[n]
    OBVIOUS
  <1>5. X[x] = first[i] /\ H[x] = i /\ R[x] = 0 /\ F[i] = x
    BY <1>1
  <1>6. F \in [Indices -> M \cup {NULL}] /\ X \in [M -> M \cup {NULL}]
    BY <1>1
  <1>7. H \in [M -> Indices] /\ R \in [M -> Nat]
    <2>1. \A n \in N : rank[n] \in Nat /\ rank[n] + 1 \in Nat
      BY <1>1
    <2>2. QED
      BY <1>1, <2>1
  <1>8. \A j \in Indices : F[j] # NULL => H[F[j]] = j /\ R[F[j]] = 0
    <2> SUFFICES ASSUME NEW j \in Indices, F[j] # NULL
                 PROVE  H[F[j]] = j /\ R[F[j]] = 0
      OBVIOUS
    <2>1. CASE j = i
      BY <1>5, <2>1
    <2>2. CASE j # i
      <3>1. F[j] = first[j] /\ first[j] \in N
        BY <1>1, <2>2
      <3>2. home[first[j]] = j /\ rank[first[j]] = 0
        BY <1>2, <3>1
      <3>3. QED
        BY <1>4, <2>2, <3>1, <3>2
    <2>3. QED
      BY <2>1, <2>2
  <1>9. \A n \in M : X[n] # NULL => H[X[n]] = H[n] /\ R[X[n]] = R[n] + 1
    <2> SUFFICES ASSUME NEW n \in M, X[n] # NULL
                 PROVE  H[X[n]] = H[n] /\ R[X[n]] = R[n] + 1
      OBVIOUS
    <2>1. CASE n = x
      <3>1. X[n] = first[i] /\ first[i] \in N /\ H[n] = i /\ R[n] = 0
        BY <1>1, <1>5, <2>1
      <3>2. home[first[i]] = i /\ rank[first[i]] = 0
        BY <1>2, <3>1
      <3>3. QED
        BY <1>4, <3>1, <3>2
    <2>2. CASE n # x
      <3>1. n \in N /\ X[n] = next[n] /\ next[n] \in N /\ rank[n] \in Nat
        BY <1>1, <1>4, <2>2
      <3>2. home[next[n]] = home[n] /\ rank[next[n]] = rank[n] + 1
        BY <1>2, <3>1
      <3>3. QED
        BY <1>4, <3>1, <3>2
    <2>3. QED
      BY <2>1, <2>2
  <1>10. \A n \in M : R[n] = 0 => F[H[n]] = n
    <2> SUFFICES ASSUME NEW n \in N, R[n] = 0
                 PROVE  F[home[n]] = n
      BY <1>4, <1>5
    <2>1. rank[n] \in Nat /\ home[n] \in Indices
      BY <1>1
    <2>2. home[n] # i /\ rank[n] = 0
      BY <1>4, <2>1
    <2>3. first[home[n]] = n
      BY <2>2 DEF Lists
    <2>4. QED
      BY <1>1, <2>1, <2>2, <2>3
  <1>11. \A n \in M : R[n] > 0 => \E p \in M : X[p] = n
    <2> SUFFICES ASSUME NEW n \in N, R[n] > 0
                 PROVE  \E p \in M : X[p] = n
      BY <1>5
    <2>1. rank[n] \in Nat
      BY <1>1
    <2>2. CASE rank[n] = 0
      <3>1. home[n] = i
        BY <1>4, <2>2
      <3>2. first[i] = n
        BY <2>2, <3>1 DEF Lists
      <3>3. QED
        BY <1>5, <3>2
    <2>3. CASE rank[n] # 0
      <3>1. rank[n] > 0
        BY <2>1, <2>3
      <3>2. PICK p \in N : next[p] = n
        BY <3>1 DEF Lists
      <3>3. QED
        BY <1>4, <3>2
    <2>4. QED
      BY <2>2, <2>3
  <1>12. \A m, n \in M : H[m] = H[n] /\ R[m] = R[n] => m = n
    <2> SUFFICES ASSUME NEW m \in M, NEW n \in M, H[m] = H[n], R[m] = R[n]
                 PROVE  m = n
      OBVIOUS
    <2>1. \A l \in N : rank[l] \in Nat /\ (home[l] = i => R[l] # 0)
      BY <1>1, <1>4
    <2>2. CASE m = x \/ n = x
      BY <1>4, <1>5, <2>1, <2>2
    <2>3. CASE m # x /\ n # x
      <3>1. home[m] = home[n] /\ m \in N /\ n \in N
        BY <1>4, <2>3
      <3>2. rank[m] = rank[n]
        BY <1>4, <2>1, <3>1
      <3>3. QED
        BY <1>3, <3>1, <3>2
    <2>4. QED
      BY <2>2, <2>3
  <1>13. \A n \in M : \A k \in 0..R[n] : \E q \in M : H[q] = H[n] /\ R[q] = k
    <2> SUFFICES ASSUME NEW n \in M, NEW k \in 0..R[n]
                 PROVE  \E q \in M : H[q] = H[n] /\ R[q] = k
      OBVIOUS
    <2>1. CASE n = x
      BY <1>5, <2>1
    <2>2. CASE n # x
      <3>0. n \in N /\ rank[n] \in Nat /\ k \in Nat
        BY <1>1, <1>7, <2>2
      <3>1. CASE home[n] = i /\ k = 0
        BY <1>4, <1>5, <3>0, <3>1
      <3>2. CASE home[n] = i /\ k # 0
        <4>1. k - 1 \in 0..rank[n]
          BY <1>4, <3>0, <3>2
        <4>2. PICK q \in N : home[q] = home[n] /\ rank[q] = k - 1
          BY <3>0, <4>1 DEF Lists
        <4>3. R[q] = k
          BY <1>4, <3>0, <3>2, <4>2
        <4>4. QED
          BY <1>4, <3>0, <4>2, <4>3
      <3>3. CASE home[n] # i
        <4>1. k \in 0..rank[n]
          BY <1>4, <3>0, <3>3
        <4>2. PICK q \in N : home[q] = home[n] /\ rank[q] = k
          BY <3>0, <4>1 DEF Lists
        <4>3. QED
          BY <1>4, <3>0, <3>3, <4>2
      <3>4. QED
        BY <3>1, <3>2, <3>3
    <2>3. QED
      BY <2>1, <2>2
  <1>14. DOMAIN next = N /\ NULL \notin M
    BY <1>1
  <1> HIDE DEF F, X, H, R
  <1>15. Lists(M, F, X, H, R)
    BY <1>6, <1>7, <1>8, <1>9, <1>10, <1>11, <1>12, <1>13, <1>14 DEF Lists
  <1>16. QED
    BY <1>14, <1>15 DEF Added, F, X, H

-----------------------------------------------------------------------------
(***************************************************************************)
(* Memory: what malloc returns is not in use, and what a step adds to and  *)
(* takes from the memory.                                                  *)
(***************************************************************************)
Kinds == {"node", "key", "value"}

Names == (Kinds \X Nat) \cup {NULL}

Nodes == Block("node")

LEMMA LeastNumber ==
  ASSUME NEW S \in SUBSET Nat, S # {}
  PROVE  \E n \in S : \A m \in S : n <= m
  <1>1. IsWellFoundedOn(OpToRel(<, Nat), Nat)
    BY NatLessThanWellFounded
  <1>2. PICK n \in S : \A m \in S : ~ (<<m, n>> \in OpToRel(<, Nat))
    BY <1>1, WFMin
  <1>3. \A m \in S : ~ (m < n)
    BY <1>2 DEF OpToRel
  <1>4. QED
    BY <1>3

LEMMA NewIsFree ==
  ASSUME IsFiniteSet(DOMAIN mem), NEW kind \in Kinds
  PROVE  New(kind) \notin DOMAIN mem /\ New(kind) \in {kind} \X Nat
  <1> DEFINE B == Block(kind)
             c == Cardinality(B)
             S == {i \in 1..c + 1 : <<kind, i>> \notin DOMAIN mem}
             g == [i \in 1..c + 1 |-> <<kind, i>>]
  <1>1. IsFiniteSet(B) /\ c \in Nat
    BY FS_Subset, FS_CardinalityType DEF Block
  <1>2. S # {}
    <2>1. SUFFICES ASSUME S = {} PROVE FALSE
      OBVIOUS
    <2>2. \A i \in 1..c + 1 : <<kind, i>> \in B
      BY <2>1 DEF Block
    <2>3. g \in [1..c + 1 -> B] /\ \A i, j \in 1..c + 1 : g[i] = g[j] => i = j
      BY <2>2
    <2>4. IsFiniteSet(1..c + 1) /\ Cardinality(1..c + 1) = c + 1
      BY <1>1, FS_Interval
    <2> HIDE DEF g, B
    <2>5. c < Cardinality(1..c + 1)
      BY <1>1, <2>4
    <2>6. \E i, j \in 1..c + 1 : i # j /\ g[i] = g[j]
      BY <1>1, <2>3, <2>4, <2>5, FS_PigeonHole
    <2>7. QED
      BY <2>3, <2>6
  <1>3. New(kind) = <<kind, Min(S)>> /\ S \in SUBSET Nat
    BY <1>1 DEF New
  <1> HIDE DEF S
  <1>4. \E i \in S : \A j \in S : i <= j
    BY <1>2, <1>3, LeastNumber
  <1>5. Min(S) \in S
    BY <1>4 DEF Min
  <1>6. Min(S) \in Nat /\ <<kind, Min(S)>> \notin DOMAIN mem
    BY <1>1, <1>3, <1>5 DEF S
  <1>7. QED
    BY <1>3, <1>6

\* The blocks that are allocated, and those of a kind.
MemoryType ==
    /\ IsFiniteSet(DOMAIN mem)
    /\ DOMAIN mem \subseteq {Table, Array} \cup (Kinds \X Nat)

LEMMA BlocksOfAKind ==
  ASSUME MemoryType, NEW kind \in Kinds, NEW b \in Block(kind)
  PROVE  b \in {kind} \X Nat /\ b # NULL /\ b # Table /\ b # Array /\ b \in DOMAIN mem
  BY DEF MemoryType, Block, Kinds, Table, Array, NULL

\* A new block of a kind, in a memory whose old blocks now hold m.
Grows(m, kind, x, content) ==
    /\ MemoryType'
    /\ x \notin DOMAIN mem /\ x \in {kind} \X Nat
    /\ DOMAIN mem' = DOMAIN mem \cup {x}
    /\ mem'[x] = content
    /\ \A b \in DOMAIN mem : mem'[b] = m[b]
    /\ Block(kind)' = Block(kind) \cup {x}
    /\ \A k \in Kinds \ {kind} : Block(k)' = Block(k)

LEMMA Allocated ==
  ASSUME MemoryType, NEW m, DOMAIN m = DOMAIN mem, NEW kind \in Kinds, NEW content,
         NEW x, x = New(kind), mem' = With(m, x, content)
  PROVE  Grows(m, kind, x, content)
  <1>1. x \notin DOMAIN mem /\ x \in {kind} \X Nat
    BY NewIsFree DEF MemoryType
  <1>2. DOMAIN mem' = DOMAIN mem \cup {x} /\ mem'[x] = content
    BY DEF With
  <1>3. \A b \in DOMAIN mem : mem'[b] = m[b]
    BY <1>1 DEF With
  <1>4. IsFiniteSet(DOMAIN mem \cup {x})
    BY FS_AddElement DEF MemoryType
  <1>5. MemoryType'
    BY <1>1, <1>2, <1>4 DEF MemoryType
  <1>6. x[1] = kind
    BY <1>1
  <1>7. Block(kind)' = Block(kind) \cup {x}
    BY <1>2, <1>6 DEF Block
  <1>8. \A k \in Kinds \ {kind} : Block(k)' = Block(k)
    BY <1>2, <1>6 DEF Block
  <1>9. QED
    BY <1>1, <1>2, <1>3, <1>5, <1>7, <1>8 DEF Grows

LEMMA Released ==
  ASSUME MemoryType, NEW blocks, DOMAIN mem' = DOMAIN mem \ blocks
  PROVE  /\ MemoryType'
         /\ \A k \in Kinds : Block(k)' = Block(k) \ blocks
  <1>1. IsFiniteSet(DOMAIN mem \ blocks)
    BY FS_Subset DEF MemoryType
  <1>2. MemoryType'
    BY <1>1 DEF MemoryType
  <1>3. QED
    BY <1>2 DEF Block

-----------------------------------------------------------------------------
(***************************************************************************)
(* The invariant.  The table holds all nodes but the one being inserted;   *)
(* a node whose key and value were just deallocated no longer holds them.  *)
(***************************************************************************)
InTable == Nodes \ {call.node}

Holders == Nodes \ {n \in {call.current} : call.pc = "unlink"}

Kept == InTable \cap Holders

\* The lists as the rest of the call will find them: freed up to an index,
\* or no longer with the old node in front.
Heads ==
    [i \in Indices |->
        IF table = NULL \/ (call.fn = "free" /\ i < call.index) THEN NULL
        ELSE IF call.pc = "free" /\ i = call.index THEN call.current
        ELSE IF call.pc = "link" /\ i = call.index THEN call.list
        ELSE mem[Array][i]]

Nexts == [n \in InTable |-> mem[n].next]

CallType ==
    [fn : {"none", "insert", "lookup", "delete", "free"},
     pc : {"idle", "node", "key", "value", "cleanup", "walk", "found", "unlink", "link",
           "list", "free"},
     key : Keys \cup {NoValue}, value : Values \cup {NoValue},
     given : Names, node : Names, list : Names, prev : Names, current : Names,
     index : 0..Size]

Mapping == [Keys -> Values \cup {NoValue}]

MemInv ==
    /\ MemoryType
    /\ \A n \in Nodes : mem[n] \in [key : Names, value : Names, next : Names]
    /\ \A k \in Block("key") : mem[k] \in Keys
    /\ \A v \in Block("value") : mem[v] \in Values
    /\ table = Table => {Table, Array} \subseteq DOMAIN mem /\ mem[Array] \in [Indices -> Names]

TypeInv ==
    /\ value_cloner \in BOOLEAN
    /\ table \in {NULL, Table}
    /\ call \in CallType
    /\ before \in Mapping

\* What each call does, and what it is about.
ProtocolInv ==
    /\ table = NULL \/ call.fn = "none" => call = NoCall
    /\ call.fn = "insert" =>
        /\ call.pc \in {"node", "key", "value", "cleanup", "walk", "found", "unlink", "link"}
        /\ call.key \in Keys /\ call.value \in Values /\ call.index = index_of(call.key)
    /\ call.fn = "lookup" => call.pc = "walk"
    /\ call.fn = "delete" => call.pc \in {"walk", "found", "unlink"}
    /\ call.fn \in {"lookup", "delete"} =>
        call.key \in Keys /\ call.value = NoValue /\ call.index = index_of(call.key)
    /\ call.fn = "free" =>
        /\ call.pc \in {"list", "free"} /\ call.key = NoValue /\ call.value = NoValue
        /\ call.pc = "free" => call.index < Size
    /\ call.fn # "insert" => call.node = NULL /\ call.given = NULL

\* Every key is held by one node, every value by one node or the caller.
HoldInv ==
    /\ \A n \in Holders :
        /\ mem[n].key \in Block("key") \cup {NULL}
        /\ mem[n].value \in Block("value") \cup {NULL}
    /\ \A n \in Kept : mem[n].key # NULL /\ mem[n].value # NULL /\ mem[n].value # call.given
    /\ \A m, n \in Holders :
        /\ mem[m].key = mem[n].key /\ mem[m].key # NULL => m = n
        /\ mem[m].value = mem[n].value /\ mem[m].value # NULL => m = n
    /\ \A k \in Block("key") : \E n \in Holders : mem[n].key = k
    /\ \A v \in Block("value") : v = call.given \/ \E n \in Holders : mem[n].value = v

\* The node being inserted, as far as it is there.
PendingInv ==
    /\ call.given \in Block("value") \cup {NULL}
    /\ call.node \in Nodes \cup {NULL}
    /\ call.pc = "node" => call.node = NULL
    /\ call.pc \in {"node", "key", "value"} => call.prev = NULL
    /\ call.fn = "insert" /\ call.pc \notin {"node", "cleanup"} => call.node # NULL
    /\ call.node # NULL =>
        /\ mem[call.node].next = NULL
        /\ call.pc = "key" => mem[call.node].key = NULL
        /\ call.pc \in {"key", "value", "cleanup"} => mem[call.node].value = NULL
        /\ call.pc \in {"value", "walk", "found", "unlink", "link"} =>
            mem[call.node].key \in Block("key") /\ key_of(call.node) = call.key
        /\ call.pc \in {"walk", "found", "unlink", "link"} =>
            /\ mem[call.node].value \in Block("value")
            /\ mem[mem[call.node].value] = call.value
            /\ call.given \in {NULL, mem[call.node].value}
    /\ call.given # NULL => mem[call.given] = call.value
    /\ call.fn = "insert" => (call.given # NULL <=> ~value_cloner)

KeysInv == \A m, n \in Kept : key_of(m) = key_of(n) => m = n

\* The nodes are in the lists of their keys, and the walk through a list
\* has not passed the node it is looking for.
Position(home, rank) ==
    /\ \A n \in Kept : index_of(key_of(n)) = home[n]
    /\ call.pc \in {"walk", "found", "unlink"} =>
        /\ call.list = Heads[call.index]
        /\ call.current \in InTable \cup {NULL}
        /\ call.prev \in InTable \cup {NULL}
        /\ call.prev = NULL => call.current = call.list
        /\ call.prev # NULL => home[call.prev] = call.index /\ mem[call.prev].next = call.current
        /\ call.current # NULL => home[call.current] = call.index
    /\ call.pc = "walk" =>
        \A n \in Kept : key_of(n) = call.key =>
            call.current # NULL /\ rank[n] >= rank[call.current]
    /\ call.pc \in {"found", "unlink"} => call.current # NULL
    /\ call.pc = "found" => key_of(call.current) = call.key
    /\ call.pc \in {"unlink", "link"} => \A n \in Kept : key_of(n) # call.key

Shape(home, rank) == Lists(InTable, Heads, Nexts, home, rank) /\ Position(home, rank)

ListInv == \E home, rank : Shape(home, rank)

\* The nodes stand for the mapping f.
Represents(f) ==
    /\ \A n \in Kept : f[key_of(n)] = mem[mem[n].value]
    /\ \A k \in Keys : f[k] # NoValue => \E n \in Kept : key_of(n) = k

BeforeInv ==
    /\ call.pc \in {"node", "key", "value", "cleanup", "walk", "found"} => Represents(before)
    /\ call.pc \in {"unlink", "link"} => Represents([before EXCEPT ![call.key] = NoValue])

HashInv ==
    /\ TypeInv /\ MemInv /\ ProtocolInv /\ HoldInv /\ PendingInv
    /\ KeysInv /\ ListInv /\ BeforeInv

-----------------------------------------------------------------------------
(***************************************************************************)
(* Steps that read the memory only.                                        *)
(***************************************************************************)
LEMMA IndexOfKey ==
  ASSUME NEW key \in Keys
  PROVE  index_of(key) \in Indices
  <1>1. Hash[key] \in Nat /\ Size \in Nat /\ Size > 0
    BY HashTableAssumption
  <1>2. \A h, s \in Nat : s > 0 => h % s \in 0..s - 1
    OBVIOUS
  <1>3. QED
    BY <1>1, <1>2 DEF index_of, Indices

LEMMA NullIsNoBlock == NULL \notin Kinds \X Nat /\ NULL # Table /\ NULL # Array /\ Table # Array
  BY DEF NULL, Kinds, Table, Array

LEMMA NoCallType == NoCall \in CallType
  BY HashTableAssumption DEF NoCall, CallType, Names

ReadOnly ==
    /\ mem' = mem /\ value_cloner' = value_cloner
    /\ call'.node = call.node /\ call'.given = call.given
    /\ call.pc # "unlink" /\ call'.pc # "unlink"

LEMMA SameMemory ==
  ASSUME HashInv, ReadOnly
  PROVE  /\ Nodes' = Nodes /\ InTable' = InTable /\ Kept' = Kept /\ Holders' = Holders
         /\ Nexts' = Nexts
         /\ \A n : key_of(n)' = key_of(n)
         /\ HoldInv' /\ KeysInv'
         /\ \A f : Represents(f)' <=> Represents(f)
  <1>1. Nodes' = Nodes /\ InTable' = InTable /\ Holders' = Holders
    BY DEF ReadOnly, Nodes, InTable, Holders, Block
  <1>2. Kept' = Kept /\ Nexts' = Nexts
    BY <1>1 DEF ReadOnly, Kept, Nexts
  <1>3. \A n : key_of(n)' = key_of(n)
    BY DEF ReadOnly, key_of
  <1>4. \A kind : Block(kind)' = Block(kind)
    BY DEF ReadOnly, Block
  <1>5. HoldInv'
    BY <1>1, <1>2, <1>4 DEF HashInv, HoldInv, ReadOnly
  <1>6. KeysInv'
    BY <1>2, <1>3 DEF HashInv, KeysInv
  <1>7. \A f : Represents(f)' <=> Represents(f)
    BY <1>2, <1>3 DEF Represents, ReadOnly
  <1>8. QED
    BY <1>1, <1>2, <1>3, <1>5, <1>6, <1>7

LEMMA ReadingKeepsInv ==
  ASSUME HashInv, ReadOnly, TypeInv', table' = Table => table = Table,
         Heads' = Heads, ProtocolInv', PendingInv', BeforeInv',
         \A home, rank : Shape(home, rank) => Position(home, rank)'
  PROVE  HashInv'
  <1>1. /\ InTable' = InTable /\ Nexts' = Nexts /\ Nodes' = Nodes
        /\ HoldInv' /\ KeysInv'
    BY SameMemory
  <1>2. \A kind : Block(kind)' = Block(kind)
    BY DEF ReadOnly, Block
  <1>3. MemInv'
    BY <1>1, <1>2 DEF HashInv, MemInv, MemoryType, ReadOnly
  <1>4. PICK home, rank : Shape(home, rank)
    BY DEF HashInv, ListInv
  <1>5. Position(home, rank)'
    BY <1>4
  <1>6. Lists(InTable, Heads, Nexts, home, rank)'
    BY <1>1, <1>4 DEF Shape, Lists
  <1>7. ListInv'
    BY <1>5, <1>6 DEF ListInv, Shape
  <1>8. QED
    BY <1>1, <1>3, <1>7 DEF HashInv

-----------------------------------------------------------------------------
(***************************************************************************)
(* Between the calls: what is found by following the links.                *)
(***************************************************************************)
LEMMA AtRest ==
  ASSUME HashInv, Idle
  PROVE  /\ call = NoCall
         /\ InTable = Nodes /\ Holders = Nodes /\ Kept = Nodes
         /\ \A i \in Indices : Heads[i] = IF table = NULL THEN NULL ELSE mem[Array][i]
  <1>1. call \in CallType /\ ProtocolInv /\ call.pc = "idle"
    BY DEF HashInv, TypeInv, Idle
  <1>2. call.fn \in {"none", "insert", "lookup", "delete", "free"}
    BY <1>1 DEF CallType
  <1>3. call = NoCall
    BY <1>1, <1>2 DEF ProtocolInv
  <1>4. call.node = NULL /\ call.pc = "idle" /\ call.fn = "none"
    BY <1>3 DEF NoCall
  <1>5. NULL \notin Nodes
    BY BlocksOfAKind DEF HashInv, MemInv, Nodes, Kinds
  <1>6. InTable = Nodes /\ Holders = Nodes /\ Kept = Nodes
    BY <1>4, <1>5 DEF InTable, Holders, Kept
  <1>7. QED
    BY <1>3, <1>4, <1>6 DEF Heads

\* The i-th node of a list, by its place.
Placed(N, home, rank, index, i) ==
    IF \E n \in N : home[n] = index /\ rank[n] = i
    THEN CHOOSE n \in N : home[n] = index /\ rank[n] = i
    ELSE NULL

LEMMA PlaceOfNode ==
  ASSUME NEW N, NEW first, NEW next, NEW home, NEW rank,
         Lists(N, first, next, home, rank), NEW n \in N
  PROVE  Placed(N, home, rank, home[n], rank[n]) = n
  BY DEF Placed, Lists

LEMMA PlacesFollowLinks ==
  ASSUME NEW N, NEW first, NEW next, NEW home, NEW rank,
         Lists(N, first, next, home, rank), NEW index \in Indices
  PROVE  /\ Placed(N, home, rank, index, 0) = first[index]
         /\ \A i \in Nat :
              Placed(N, home, rank, index, i + 1) =
                IF Placed(N, home, rank, index, i) = NULL THEN NULL
                ELSE next[Placed(N, home, rank, index, i)]
         /\ \A i \in Nat :
              LET n == Placed(N, home, rank, index, i)
              IN  n # NULL => n \in N /\ home[n] = index /\ rank[n] = i
  <1> DEFINE P(i) == Placed(N, home, rank, index, i)
  <1>1. /\ NULL \notin N /\ first \in [Indices -> N \cup {NULL}]
        /\ next \in [N -> N \cup {NULL}] /\ home \in [N -> Indices] /\ rank \in [N -> Nat]
    BY DEF Lists
  <1>2. \A i : P(i) # NULL => P(i) \in N /\ home[P(i)] = index /\ rank[P(i)] = i
    BY DEF Placed
  <1>3. \A n \in N : home[n] = index => P(rank[n]) = n
    BY PlaceOfNode
  <1>4. P(0) = first[index]
    <2>1. CASE first[index] = NULL
      <3>1. \A n \in N : home[n] = index => rank[n] # 0
        BY <1>1, <2>1 DEF Lists
      <3>2. QED
        BY <2>1, <3>1 DEF Placed
    <2>2. CASE first[index] # NULL
      <3>1. home[first[index]] = index /\ rank[first[index]] = 0 /\ first[index] \in N
        BY <1>1, <2>2 DEF Lists
      <3>2. QED
        BY <1>3, <3>1
    <2>3. QED
      BY <2>1, <2>2
  <1>5. ASSUME NEW i \in Nat
        PROVE  P(i + 1) = IF P(i) = NULL THEN NULL ELSE next[P(i)]
    <2>1. CASE P(i) = NULL
      <3>1. \A n \in N : home[n] = index => rank[n] # i + 1
        <4>1. SUFFICES ASSUME NEW n \in N, home[n] = index, rank[n] = i + 1
                       PROVE  FALSE
          OBVIOUS
        <4>2. i \in 0..rank[n]
          BY <4>1
        <4>3. PICK q \in N : home[q] = home[n] /\ rank[q] = i
          BY <4>2 DEF Lists
        <4>4. P(i) = q
          BY <1>3, <4>1, <4>3
        <4>5. QED
          BY <1>1, <2>1, <4>4
      <3>2. QED
        BY <2>1, <3>1 DEF Placed
    <2>2. CASE P(i) # NULL
      <3>0. P(i) \in N /\ home[P(i)] = index /\ rank[P(i)] = i
        BY <1>2, <2>2
      <3>1. CASE next[P(i)] # NULL
        <4>1. next[P(i)] \in N /\ home[next[P(i)]] = index /\ rank[next[P(i)]] = i + 1
          BY <1>1, <3>0, <3>1 DEF Lists
        <4>2. QED
          BY <1>3, <2>2, <4>1
      <3>2. CASE next[P(i)] = NULL
        <4>1. SUFFICES ASSUME P(i + 1) # NULL PROVE FALSE
          BY <2>2, <3>2
        <4>2. P(i + 1) \in N /\ home[P(i + 1)] = index /\ rank[P(i + 1)] = i + 1
          BY <1>2, <4>1
        <4>3. rank[P(i + 1)] > 0
          BY <4>2
        <4>4. PICK p \in N : next[p] = P(i + 1)
          BY <4>2, <4>3 DEF Lists
        <4>5. home[P(i + 1)] = home[p] /\ rank[P(i + 1)] = rank[p] + 1 /\ rank[p] \in Nat
          BY <4>1, <4>4 DEF Lists
        <4>6. rank[p] = i
          BY <4>2, <4>5
        <4>7. p = P(i)
          BY <1>3, <4>2, <4>5, <4>6
        <4>8. QED
          BY <3>2, <4>1, <4>4, <4>7
      <3>3. QED
        BY <3>1, <3>2
    <2>3. QED
      BY <2>1, <2>2
  <1>6. QED
    BY <1>2, <1>4, <1>5

\* There are as many places as nodes, at most.
LEMMA RanksAreBounded ==
  ASSUME NEW N, IsFiniteSet(N), NEW first, NEW next, NEW home, NEW rank,
         Lists(N, first, next, home, rank), NEW n \in N
  PROVE  rank[n] \in 0..Cardinality(N)
  <1> DEFINE g == [k \in 0..rank[n] |-> CHOOSE q \in N : home[q] = home[n] /\ rank[q] = k]
  <1>1. rank[n] \in Nat /\ Cardinality(N) \in Nat
    BY FS_CardinalityType DEF Lists
  <1>2. \A k \in 0..rank[n] : g[k] \in N /\ rank[g[k]] = k
    <2> TAKE k \in 0..rank[n]
    <2>1. \E q \in N : home[q] = home[n] /\ rank[q] = k
      BY DEF Lists
    <2>2. QED
      BY <2>1
  <1>3. g \in [0..rank[n] -> N]
    BY <1>2
  <1> HIDE DEF g
  <1>4. \A i, j \in 0..rank[n] : g[i] = g[j] => i = j
    BY <1>2
  <1>5. g \in Injection(0..rank[n], N)
    BY <1>3, <1>4 DEF Injection, IsInjective
  <1>6. Cardinality(0..rank[n]) <= Cardinality(N)
    BY <1>5, FS_Injection
  <1>7. Cardinality(0..rank[n]) = rank[n] + 1
    <2>1. Cardinality(0..rank[n]) = IF 0 > rank[n] THEN 0 ELSE rank[n] - 0 + 1
      BY <1>1, FS_Interval, SMTT(30)
    <2>2. QED
      BY <1>1, <2>1
  <1>8. QED
    BY <1>1, <1>6, <1>7

\* Following the links of a list visits its nodes in their order.
LEMMA VisitedInOrder ==
  ASSUME HashInv, Idle, table = Table, NEW home, NEW rank, Shape(home, rank),
         NEW index \in Indices
  PROVE  Visited(index) = [i \in 0..Cardinality(Nodes) |-> Placed(Nodes, home, rank, index, i)]
  <1> DEFINE c == Cardinality(Block("node"))
             P(i) == Placed(Nodes, home, rank, index, i)
             W == [i \in 0..c |-> P(i)]
             v == Visited(index)
             Different == {i \in 0..c : v[i] # P(i)}
  <1>1. Lists(Nodes, Heads, Nexts, home, rank) /\ InTable = Nodes
    BY AtRest DEF Shape
  <1>2. IsFiniteSet(Nodes) /\ c \in Nat /\ NULL \notin DOMAIN mem
    <2>1. IsFiniteSet(DOMAIN mem) /\ Nodes \subseteq DOMAIN mem
      BY DEF HashInv, MemInv, MemoryType, Nodes, Block
    <2>2. NULL \notin DOMAIN mem
      BY NullIsNoBlock DEF HashInv, MemInv, MemoryType
    <2>3. QED
      BY <2>1, <2>2, FS_Subset, FS_CardinalityType DEF Nodes
  <1>3. P(0) = mem[Array][index]
    <2>1. Heads[index] = mem[Array][index]
      BY AtRest DEF Table, NULL
    <2>2. QED
      BY <1>1, <2>1, PlacesFollowLinks
  <1>4. \A i \in Nat : P(i + 1) = next_of(P(i))
    <2> TAKE i \in Nat
    <2>1. P(i + 1) = IF P(i) = NULL THEN NULL ELSE Nexts[P(i)]
      BY <1>1, PlacesFollowLinks
    <2>2. P(i) # NULL => P(i) \in Nodes
      BY DEF Placed
    <2>3. P(i) # NULL => P(i) \in DOMAIN mem /\ Nexts[P(i)] = mem[P(i)].next
      BY <1>1, <2>2 DEF Nexts, Nodes, Block
    <2>4. QED
      BY <1>2, <2>1, <2>3 DEF next_of
  <1> HIDE DEF P
  <1>5. \A i \in 0..c : W[i] = IF i = 0 THEN mem[Array][index] ELSE next_of(W[i - 1])
    <2> TAKE i \in 0..c
    <2>1. CASE i = 0
      BY <1>3, <2>1
    <2>2. CASE i # 0
      <3>1. i - 1 \in 0..c /\ i - 1 \in Nat /\ (i - 1) + 1 = i
        BY <1>2, <2>2
      <3>2. P((i - 1) + 1) = next_of(P(i - 1))
        BY <1>4, <3>1
      <3>3. QED
        BY <2>2, <3>1, <3>2
    <2>3. QED
      BY <2>1, <2>2
  <1>6. W = [i \in 0..c |-> W[i]]
    OBVIOUS
  <1> HIDE DEF W
  <1>7. W = [i \in 0..c |-> IF i = 0 THEN mem[Array][index] ELSE next_of(W[i - 1])]
    BY <1>5, <1>6
  <1>8. v = [i \in 0..c |-> IF i = 0 THEN mem[Array][index] ELSE next_of(v[i - 1])]
    BY <1>7 DEF Visited
  <1> HIDE DEF v
  <1>9. \A i \in 0..c : v[i] = IF i = 0 THEN mem[Array][index] ELSE next_of(v[i - 1])
    BY <1>8
  <1>10. Different = {}
    <2>1. SUFFICES ASSUME Different # {} PROVE FALSE
      OBVIOUS
    <2>2. Different \in SUBSET Nat
      OBVIOUS
    <2>3. PICK i \in Different : \A j \in Different : i <= j
      BY <2>1, <2>2, LeastNumber
    <2>4. i \in 0..c /\ v[i] # P(i)
      OBVIOUS
    <2>5. i # 0
      BY <1>3, <1>9, <2>4
    <2>6. i - 1 \in 0..c /\ i - 1 \notin Different /\ i - 1 \in Nat /\ (i - 1) + 1 = i
      BY <1>2, <2>3, <2>4, <2>5
    <2>7. v[i - 1] = P(i - 1)
      BY <2>6
    <2>8. P((i - 1) + 1) = next_of(P(i - 1))
      BY <1>4, <2>6
    <2>9. QED
      BY <1>9, <2>4, <2>5, <2>6, <2>7, <2>8
  <1>11. v = [i \in 0..c |-> P(i)]
    <2>1. \A i \in 0..c : v[i] = P(i)
      BY <1>10
    <2>2. v = [i \in 0..c |-> v[i]]
      BY <1>8
    <2>3. QED
      BY <2>1, <2>2
  <1>12. QED
    BY <1>11 DEF v, P, Nodes

LEMMA NodeHolds ==
  ASSUME HashInv, NEW n \in Kept
  PROVE  /\ n \in Nodes /\ n \in DOMAIN mem
         /\ mem[n] \in [key : Names, value : Names, next : Names]
         /\ mem[n].key \in Block("key") /\ key_of(n) \in Keys
         /\ mem[n].value \in Block("value") /\ mem[mem[n].value] \in Values
  <1>1. n \in Nodes /\ n \in Holders
    BY DEF Kept, InTable
  <1>2. n \in DOMAIN mem
    BY <1>1 DEF Nodes, Block
  <1>3. mem[n].key \in Block("key") /\ mem[n].value \in Block("value")
    BY <1>1 DEF HashInv, HoldInv
  <1>4. QED
    BY <1>1, <1>2, <1>3 DEF HashInv, MemInv, key_of

LEMMA ContentsOfNodes ==
  ASSUME HashInv, Idle, table = Table, NEW key \in Keys
  PROVE  /\ \A n \in Nodes : key_of(n) = key => Contents[key] = mem[mem[n].value]
         /\ (\A n \in Nodes : key_of(n) # key) => Contents[key] = NoValue
  <1> DEFINE w == Visited(index_of(key))
             having == {i \in DOMAIN w : w[i] \in DOMAIN mem /\ key_of(w[i]) = key}
  <1>1. PICK home, rank : Shape(home, rank)
    BY DEF HashInv, ListInv
  <1>2. index_of(key) \in Indices
    BY IndexOfKey
  <1>3. Lists(Nodes, Heads, Nexts, home, rank) /\ Kept = Nodes
    BY <1>1, AtRest DEF Shape
  <1>4. w = [i \in 0..Cardinality(Nodes) |-> Placed(Nodes, home, rank, index_of(key), i)]
    BY <1>1, <1>2, VisitedInOrder
  <1>5. Contents[key] = IF having = {} THEN NoValue ELSE mem[mem[w[Min(having)]].value]
    BY DEF Contents, Table, NULL
  <1> HIDE DEF w
  <1>6. IsFiniteSet(Nodes) /\ NULL \notin DOMAIN mem
    <2>1. IsFiniteSet(DOMAIN mem) /\ Nodes \subseteq DOMAIN mem
      BY DEF HashInv, MemInv, MemoryType, Nodes, Block
    <2>2. NULL \notin DOMAIN mem
      BY NullIsNoBlock DEF HashInv, MemInv, MemoryType
    <2>3. QED
      BY <2>1, <2>2, FS_Subset
  <1>7. \A i \in having : /\ i \in Nat /\ w[i] \in Nodes /\ rank[w[i]] = i
                          /\ key_of(w[i]) = key
    <2> TAKE i \in having
    <2>1. i \in 0..Cardinality(Nodes) /\ w[i] = Placed(Nodes, home, rank, index_of(key), i)
      BY <1>4
    <2>2. w[i] # NULL /\ key_of(w[i]) = key
      BY <1>6
    <2>3. QED
      BY <1>2, <1>3, <2>1, <2>2, PlacesFollowLinks
  <1>8. ASSUME NEW n \in Nodes, key_of(n) = key
        PROVE  Contents[key] = mem[mem[n].value]
    <2>1. home[n] = index_of(key)
      BY <1>1, <1>3, <1>8 DEF Shape, Position
    <2>2. rank[n] \in 0..Cardinality(Nodes)
      BY <1>3, <1>6, RanksAreBounded
    <2>3. w[rank[n]] = n
      <3>1. Placed(Nodes, home, rank, home[n], rank[n]) = n
        BY <1>3, PlaceOfNode
      <3>2. QED
        BY <1>4, <2>1, <2>2, <3>1
    <2>4. rank[n] \in having
      BY <1>4, <1>8, <2>2, <2>3 DEF Nodes, Block
    <2>5. \A i \in having : i = rank[n]
      <3> TAKE i \in having
      <3>1. w[i] = n
        BY <1>3, <1>7, <1>8 DEF HashInv, KeysInv
      <3>2. QED
        BY <1>7, <3>1
    <2>6. having = {rank[n]} /\ rank[n] \in Nat
      BY <1>7, <2>4, <2>5
    <2> HIDE DEF having
    <2>7. Min(having) = rank[n]
      BY <2>6 DEF Min
    <2>8. QED
      BY <1>5, <2>3, <2>6, <2>7
  <1>9. ASSUME \A n \in Nodes : key_of(n) # key
        PROVE  Contents[key] = NoValue
    BY <1>5, <1>7, <1>9
  <1>10. QED
    BY <1>8, <1>9

LEMMA ContentsRepresented ==
  ASSUME HashInv, Idle, table = Table
  PROVE  Contents \in Mapping /\ Represents(Contents)
  <1>1. Kept = Nodes
    BY AtRest
  <1>2. \A n \in Nodes : key_of(n) \in Keys /\ mem[mem[n].value] \in Values
    BY <1>1, NodeHolds
  <1>3. \A key \in Keys :
          /\ \A n \in Nodes : key_of(n) = key => Contents[key] = mem[mem[n].value]
          /\ (\A n \in Nodes : key_of(n) # key) => Contents[key] = NoValue
    BY ContentsOfNodes
  <1>4. Contents = [key \in Keys |-> Contents[key]]
    BY DEF Contents
  <1>5. \A key \in Keys : Contents[key] \in Values \cup {NoValue}
    BY <1>2, <1>3
  <1>6. Represents(Contents)
    BY <1>1, <1>2, <1>3 DEF Represents
  <1>7. QED
    BY <1>4, <1>5, <1>6 DEF Mapping

LEMMA OneMappingRepresented ==
  ASSUME HashInv, Idle, table = Table, NEW f \in Mapping, Represents(f)
  PROVE  Contents = f
  <1>1. Kept = Nodes
    BY AtRest
  <1>2. \A key \in Keys : Contents[key] = f[key]
    <2> TAKE key \in Keys
    <2>1. /\ \A n \in Nodes : key_of(n) = key => Contents[key] = mem[mem[n].value]
          /\ (\A n \in Nodes : key_of(n) # key) => Contents[key] = NoValue
      BY ContentsOfNodes
    <2>2. QED
      BY <1>1, <2>1 DEF Represents
  <1>3. Contents = [key \in Keys |-> Contents[key]] /\ f = [key \in Keys |-> f[key]]
    BY DEF Contents, Mapping
  <1>4. QED
    BY <1>2, <1>3

LEMMA HeadsOfShape ==
  ASSUME NEW home, NEW rank, Shape(home, rank)
  PROVE  /\ \A i \in Indices : /\ Heads[i] \in InTable \cup {NULL}
                               /\ Heads[i] # NULL => home[Heads[i]] = i
         /\ \A n \in InTable : /\ mem[n].next \in InTable \cup {NULL}
                               /\ mem[n].next # NULL => home[mem[n].next] = home[n]
         /\ NULL \notin InTable
  <1>1. Lists(InTable, Heads, Nexts, home, rank)
    BY DEF Shape
  <1>2. \A n \in InTable : Nexts[n] = mem[n].next
    BY DEF Nexts
  <1> HIDE DEF Heads, Nexts
  <1>3. /\ NULL \notin InTable
        /\ Heads \in [Indices -> InTable \cup {NULL}] /\ Nexts \in [InTable -> InTable \cup {NULL}]
        /\ \A i \in Indices : Heads[i] # NULL => home[Heads[i]] = i
        /\ \A n \in InTable : Nexts[n] # NULL => home[Nexts[n]] = home[n]
    BY <1>1 DEF Lists
  <1>4. QED
    BY <1>2, <1>3

\* A search starts with the first node of the list of its key.
LEMMA StartOfList ==
  ASSUME NEW home, NEW rank, Shape(home, rank), NEW key \in Keys
  PROVE  LET first == Heads[index_of(key)]
         IN  /\ first \in InTable \cup {NULL}
             /\ first # NULL => home[first] = index_of(key)
             /\ \A n \in Kept : key_of(n) = key => first # NULL /\ rank[n] >= rank[first]
  <1>1. /\ Lists(InTable, Heads, Nexts, home, rank)
        /\ \A n \in Kept : index_of(key_of(n)) = home[n] /\ n \in InTable
    BY DEF Shape, Position, Kept
  <1>2. /\ Heads[index_of(key)] \in InTable \cup {NULL}
        /\ Heads[index_of(key)] # NULL => home[Heads[index_of(key)]] = index_of(key)
    BY HeadsOfShape, IndexOfKey
  <1>3. ASSUME NEW n \in Kept, key_of(n) = key
        PROVE  Heads[index_of(key)] # NULL /\ rank[n] >= rank[Heads[index_of(key)]]
    BY <1>1, <1>3, FirstOfList
  <1>4. QED
    BY <1>2, <1>3

LEMMA SearchKeepsInv ==
  ASSUME HashInv, NEW fn \in {"lookup", "delete"}, NEW key \in Keys, Search(fn, key)
  PROVE  HashInv'
  <1> DEFINE index == index_of(key)
             c == [fn |-> fn, pc |-> "walk", key |-> key, value |-> NoValue,
                   given |-> NULL, node |-> NULL, list |-> mem[Array][index],
                   prev |-> NULL, current |-> mem[Array][index], index |-> index]
  <1>1. /\ Idle /\ table = Table
        /\ call' = c /\ before' = Contents
        /\ mem' = mem /\ value_cloner' = value_cloner /\ table' = table
    BY DEF Search, Called, NoCall
  <1>2. /\ call = NoCall /\ InTable = Nodes /\ Kept = Nodes
        /\ \A i \in Indices : Heads[i] = IF table = NULL THEN NULL ELSE mem[Array][i]
    BY <1>1, AtRest
  <1>3. index \in Indices /\ index \in 0..Size /\ mem[Array][index] \in Names /\ NULL \in Names
    BY <1>1, IndexOfKey, HashTableAssumption DEF HashInv, MemInv, Indices, Names
  <1>4. Contents \in Mapping /\ Represents(Contents)
    BY <1>1, ContentsRepresented
  <1>5. c \in CallType
    <2>1. /\ c.fn \in {"lookup", "delete"} /\ c.pc = "walk" /\ c.key \in Keys
          /\ c.value = NoValue /\ c.given = NULL /\ c.node = NULL /\ c.prev = NULL
          /\ c.list \in Names /\ c.current \in Names /\ c.index \in 0..Size
      BY <1>3
    <2>2. QED
      BY <1>3, <2>1 DEF CallType
  <1> HIDE DEF index
  <1>6. /\ call'.fn = fn /\ call'.pc = "walk" /\ call'.key = key /\ call'.value = NoValue
        /\ call'.given = NULL /\ call'.node = NULL /\ call'.prev = NULL
        /\ call'.list = mem[Array][index] /\ call'.current = mem[Array][index]
        /\ call'.index = index
    BY <1>1
  <1> HIDE DEF c
  <1>7. TypeInv'
    BY <1>1, <1>4, <1>5 DEF HashInv, TypeInv
  <1>8. ReadOnly
    BY <1>1, <1>2, <1>6 DEF ReadOnly, NoCall
  <1>9. Heads' = Heads
    BY <1>1, <1>2, <1>6 DEF Heads, NoCall
  <1>10. ProtocolInv'
    BY <1>1, <1>6 DEF ProtocolInv, index, index_of, Table, NULL
  <1>11. PendingInv'
    BY <1>6 DEF PendingInv
  <1>12. BeforeInv'
    <2>1. Kept' = Kept /\ \A n : key_of(n)' = key_of(n)
      BY <1>8, SameMemory
    <2>2. Represents(before)'
      BY <1>1, <1>4, <2>1 DEF Represents
    <2>3. QED
      BY <1>6, <2>2 DEF BeforeInv
  <1>13. ASSUME NEW home, NEW rank, Shape(home, rank)
         PROVE  Position(home, rank)'
    <2>1. /\ \A n \in Kept : index_of(key_of(n)) = home[n]
          /\ Kept' = Kept /\ InTable' = InTable
          /\ \A n : key_of(n)' = key_of(n)
      BY <1>8, <1>13, SameMemory DEF Shape, Position
    <2>2. Heads[index] = mem[Array][index]
      BY <1>1, <1>2, <1>3 DEF Table, NULL
    <2>3. /\ Heads[index] \in InTable \cup {NULL}
          /\ Heads[index] # NULL => home[Heads[index]] = index
          /\ \A n \in Kept : key_of(n) = key =>
               Heads[index] # NULL /\ rank[n] >= rank[Heads[index]]
      BY <1>13, StartOfList DEF index
    <2>4. QED
      BY <1>6, <1>9, <2>1, <2>2, <2>3 DEF Position, index_of
  <1>14. QED
    BY <1>1, <1>7, <1>8, <1>9, <1>10, <1>11, <1>12, <1>13, ReadingKeepsInv

LEMMA FreeKeepsInv ==
  ASSUME HashInv, hash_table_free
  PROVE  HashInv'
  <1>1. /\ Idle /\ table = Table
        /\ call' = [NoCall EXCEPT !.fn = "free", !.pc = "list"] /\ before' = Contents
        /\ mem' = mem /\ value_cloner' = value_cloner /\ table' = table
    BY DEF hash_table_free, Called
  <1>2. /\ call = NoCall
        /\ \A i \in Indices : Heads[i] = IF table = NULL THEN NULL ELSE mem[Array][i]
    BY <1>1, AtRest
  <1>3. /\ call'.fn = "free" /\ call'.pc = "list" /\ call'.key = NoValue
        /\ call'.value = NoValue /\ call'.given = NULL /\ call'.node = NULL /\ call'.index = 0
    BY <1>1 DEF NoCall
  <1>4. call' \in CallType
    BY <1>1, NoCallType DEF CallType
  <1>5. Contents \in Mapping
    BY <1>1, ContentsRepresented
  <1>6. TypeInv'
    BY <1>1, <1>4, <1>5 DEF HashInv, TypeInv
  <1>7. ReadOnly
    BY <1>1, <1>2, <1>3 DEF ReadOnly, NoCall
  <1>8. Heads' = Heads
    <2>1. \A i \in Indices : ~ (i < 0)
      BY DEF Indices
    <2>2. QED
      BY <1>1, <1>2, <1>3, <2>1 DEF Heads, NoCall
  <1>9. ProtocolInv' /\ PendingInv' /\ BeforeInv'
    BY <1>1, <1>3 DEF ProtocolInv, PendingInv, BeforeInv, Table, NULL
  <1>10. ASSUME NEW home, NEW rank, Shape(home, rank)
         PROVE  Position(home, rank)'
    <2>1. Kept' = Kept /\ \A n : key_of(n)' = key_of(n)
      BY <1>7, SameMemory
    <2>2. QED
      BY <1>3, <1>10, <2>1 DEF Shape, Position, index_of
  <1>11. QED
    BY <1>1, <1>6, <1>7, <1>8, <1>9, <1>10, ReadingKeepsInv

\* Which call is at a place, and that it has a table.
LEMMA WhoseStep ==
  ASSUME HashInv
  PROVE  /\ call.pc \in {"node", "key", "value", "cleanup", "link"} => call.fn = "insert"
         /\ call.pc = "walk" => call.fn \in {"insert", "lookup", "delete"}
         /\ call.pc \in {"found", "unlink"} => call.fn \in {"insert", "delete"}
         /\ call.pc \in {"list", "free"} => call.fn = "free"
         /\ call.pc # "idle" => table = Table /\ call.fn # "none"
  <1>1. call.fn \in {"none", "insert", "lookup", "delete", "free"} /\ table \in {NULL, Table}
    BY DEF HashInv, TypeInv, CallType
  <1>2. NoCall.pc = "idle" /\ NoCall.fn = "none"
    BY DEF NoCall
  <1>3. ProtocolInv
    BY DEF HashInv
  <1>4. QED
    BY <1>1, <1>2, <1>3 DEF ProtocolInv

\* The fields of a call that goes on.
LEMMA CallFields ==
  ASSUME HashInv
  PROVE  /\ call \in CallType
         /\ call.key \in Keys \cup {NoValue} /\ call.value \in Values \cup {NoValue}
         /\ call.given \in Names /\ call.node \in Names /\ call.list \in Names
         /\ call.prev \in Names /\ call.current \in Names /\ call.index \in 0..Size
  BY DEF HashInv, TypeInv, CallType

\* A search of the list of a key is in that list.
LEMMA SearchedList ==
  ASSUME HashInv, call.pc \in {"walk", "found", "unlink", "link", "node", "key", "value"}
  PROVE  call.key \in Keys /\ call.index = index_of(call.key) /\ call.index \in Indices
  <1>1. call.fn \in {"insert", "lookup", "delete"}
    BY WhoseStep
  <1>2. call.key \in Keys /\ call.index = index_of(call.key)
    BY <1>1 DEF HashInv, ProtocolInv
  <1>3. QED
    BY <1>2, IndexOfKey

LEMMA WalkOnKeepsInv ==
  ASSUME HashInv, call.pc = "walk", call.current # NULL, key_of(call.current) # call.key,
         call' = [call EXCEPT !.prev = call.current, !.current = mem[call.current].next],
         UNCHANGED <<mem, value_cloner, table, before>>
  PROVE  HashInv'
  <1>1. call.fn \in {"insert", "lookup", "delete"} /\ call \in CallType
    BY WhoseStep, CallFields
  <1>2. PICK home0, rank0 : Shape(home0, rank0)
    BY DEF HashInv, ListInv
  <1>3. call.current \in InTable /\ mem[call.current].next \in InTable \cup {NULL}
    BY <1>2, HeadsOfShape DEF Shape, Position
  <1>4. mem[call.current].next \in Names
    BY <1>3 DEF HashInv, MemInv, InTable
  <1>5. /\ call'.fn = call.fn /\ call'.pc = call.pc /\ call'.key = call.key
        /\ call'.value = call.value /\ call'.given = call.given /\ call'.node = call.node
        /\ call'.list = call.list /\ call'.index = call.index
        /\ call'.prev = call.current /\ call'.current = mem[call.current].next
    BY <1>1 DEF CallType
  <1>6. call' \in CallType
    BY <1>1, <1>4 DEF CallType
  <1>7. TypeInv' /\ ReadOnly
    BY <1>5, <1>6 DEF HashInv, TypeInv, ReadOnly
  <1>8. Heads' = Heads
    BY <1>1, <1>5 DEF Heads
  <1>9. /\ Kept' = Kept /\ InTable' = InTable /\ Nodes' = Nodes
        /\ \A n : key_of(n)' = key_of(n)
    BY <1>7, SameMemory
  <1>10. \A kind : Block(kind)' = Block(kind)
    BY DEF Block
  <1>11. ProtocolInv'
    BY <1>1, <1>5 DEF HashInv, ProtocolInv, index_of, NoCall
  <1>12. PendingInv'
    BY <1>5, <1>9, <1>10 DEF HashInv, PendingInv
  <1>13. BeforeInv'
    BY <1>5, <1>9 DEF HashInv, BeforeInv, Represents
  <1>14. ASSUME NEW home, NEW rank, Shape(home, rank)
         PROVE  Position(home, rank)'
    <2>1. /\ Lists(InTable, Heads, Nexts, home, rank)
          /\ \A n \in Kept : index_of(key_of(n)) = home[n]
          /\ call.list = Heads[call.index] /\ home[call.current] = call.index
          /\ \A n \in Kept : key_of(n) = call.key => rank[n] >= rank[call.current]
      BY <1>14 DEF Shape, Position
    <2>2. /\ NULL \notin InTable
          /\ mem[call.current].next # NULL => home[mem[call.current].next] = call.index
      BY <1>3, <1>14, <2>1, HeadsOfShape
    <2>3. Nexts[call.current] = mem[call.current].next
      BY <1>3 DEF Nexts
    <2>4. ASSUME NEW n \in Kept, key_of(n) = call.key
          PROVE  /\ mem[call.current].next # NULL
                 /\ rank[n] >= rank[mem[call.current].next]
      <3>1. home[n] = home[call.current] /\ n \in InTable /\ n # call.current
        BY <2>1, <2>4, SearchedList DEF Kept
      <3>2. rank[n] \in Nat /\ rank[call.current] \in Nat /\ rank[n] # rank[call.current]
        BY <1>3, <2>1, <3>1 DEF Lists
      <3>3. rank[n] > rank[call.current]
        BY <2>1, <2>4, <3>2
      <3>4. QED
        BY <1>3, <2>1, <2>3, <3>1, <3>3, NothingBetween
    <2>5. QED
      BY <1>3, <1>5, <1>8, <1>9, <2>1, <2>2, <2>4 DEF Position, index_of
  <1>15. QED
    BY <1>7, <1>8, <1>11, <1>12, <1>13, <1>14, ReadingKeepsInv

LEMMA FindKeepsInv ==
  ASSUME HashInv, call.pc = "walk", call.fn # "lookup",
         call.current # NULL, key_of(call.current) = call.key,
         call' = [call EXCEPT !.pc = "found"],
         UNCHANGED <<mem, value_cloner, table, before>>
  PROVE  HashInv'
  <1>1. call.fn \in {"insert", "delete"} /\ call \in CallType
    BY WhoseStep, CallFields
  <1>2. /\ call'.fn = call.fn /\ call'.pc = "found" /\ call'.key = call.key
        /\ call'.value = call.value /\ call'.given = call.given /\ call'.node = call.node
        /\ call'.list = call.list /\ call'.index = call.index
        /\ call'.prev = call.prev /\ call'.current = call.current
    BY <1>1 DEF CallType
  <1>3. call' \in CallType
    BY <1>1 DEF CallType
  <1>4. TypeInv' /\ ReadOnly
    BY <1>2, <1>3 DEF HashInv, TypeInv, ReadOnly
  <1>5. Heads' = Heads
    BY <1>1, <1>2 DEF Heads
  <1>6. /\ Kept' = Kept /\ InTable' = InTable /\ Nodes' = Nodes
        /\ \A n : key_of(n)' = key_of(n)
    BY <1>4, SameMemory
  <1>7. \A kind : Block(kind)' = Block(kind)
    BY DEF Block
  <1>8. ProtocolInv'
    BY <1>1, <1>2 DEF HashInv, ProtocolInv, index_of, NoCall
  <1>9. PendingInv'
    BY <1>2, <1>6, <1>7 DEF HashInv, PendingInv
  <1>10. BeforeInv'
    BY <1>2, <1>6 DEF HashInv, BeforeInv, Represents
  <1>11. ASSUME NEW home, NEW rank, Shape(home, rank)
         PROVE  Position(home, rank)'
    BY <1>2, <1>5, <1>6, <1>11 DEF Shape, Position, index_of
  <1>12. QED
    BY <1>4, <1>5, <1>8, <1>9, <1>10, <1>11, ReadingKeepsInv

\* A search that returns leaves the table as it is.
LEMMA SearchReturns ==
  ASSUME HashInv, call.fn \in {"lookup", "delete"}, call.pc = "walk", call' = NoCall,
         UNCHANGED <<mem, value_cloner, table, before>>
  PROVE  HashInv' /\ Represents(before)'
  <1>1. call.node = NULL /\ call.given = NULL /\ table = Table
    BY WhoseStep DEF HashInv, ProtocolInv
  <1>2. TypeInv' /\ ReadOnly
    BY <1>1, NoCallType DEF HashInv, TypeInv, ReadOnly, NoCall
  <1>3. Heads' = Heads
    BY <1>1 DEF Heads, NoCall, Table, NULL
  <1>4. /\ Kept' = Kept
        /\ \A n : key_of(n)' = key_of(n)
    BY <1>2, SameMemory
  <1>5. ProtocolInv' /\ PendingInv' /\ BeforeInv'
    BY DEF ProtocolInv, PendingInv, BeforeInv, NoCall
  <1>6. ASSUME NEW home, NEW rank, Shape(home, rank)
        PROVE  Position(home, rank)'
    BY <1>4, <1>6 DEF Shape, Position, index_of, NoCall
  <1>7. Represents(before)'
    BY <1>4 DEF HashInv, BeforeInv, Represents
  <1>8. QED
    BY <1>2, <1>3, <1>5, <1>6, <1>7, ReadingKeepsInv

LEMMA EndOfListKeepsInv ==
  ASSUME HashInv, call.pc = "walk", call.current = NULL, call.fn = "insert",
         call' = [call EXCEPT !.pc = "link"],
         UNCHANGED <<mem, value_cloner, table, before>>
  PROVE  HashInv'
  <1>1. call \in CallType /\ call.index \in Indices
    BY CallFields, SearchedList
  <1>2. /\ call'.fn = call.fn /\ call'.pc = "link" /\ call'.key = call.key
        /\ call'.value = call.value /\ call'.given = call.given /\ call'.node = call.node
        /\ call'.list = call.list /\ call'.index = call.index
    BY <1>1 DEF CallType
  <1>3. call' \in CallType
    BY <1>1 DEF CallType
  <1>4. TypeInv' /\ ReadOnly
    BY <1>2, <1>3 DEF HashInv, TypeInv, ReadOnly
  <1>5. PICK home0, rank0 : Shape(home0, rank0)
    BY DEF HashInv, ListInv
  <1>6. call.list = Heads[call.index] /\ \A n \in Kept : key_of(n) # call.key
    BY <1>5 DEF Shape, Position
  <1>7. Heads' = Heads
    BY <1>1, <1>2, <1>6 DEF Heads
  <1>8. /\ Kept' = Kept /\ InTable' = InTable /\ Nodes' = Nodes
        /\ \A n : key_of(n)' = key_of(n)
    BY <1>4, SameMemory
  <1>9. \A kind : Block(kind)' = Block(kind)
    BY DEF Block
  <1>10. ProtocolInv'
    BY <1>2 DEF HashInv, ProtocolInv, index_of, NoCall
  <1>11. PendingInv'
    BY <1>2, <1>8, <1>9 DEF HashInv, PendingInv
  <1>12. BeforeInv'
    <2>1. Represents(before) /\ before \in Mapping
      BY DEF HashInv, BeforeInv, TypeInv
    <2>2. \A n \in Kept : key_of(n) \in Keys
      BY NodeHolds
    <2>3. Represents([before EXCEPT ![call.key] = NoValue])
      <3>1. \A k \in Keys : [before EXCEPT ![call.key] = NoValue][k]
                               = IF k = call.key THEN NoValue ELSE before[k]
        BY <2>1 DEF Mapping
      <3>2. QED
        BY <1>6, <2>1, <2>2, <3>1 DEF Represents
    <2>4. QED
      BY <1>2, <1>8, <2>3 DEF BeforeInv, Represents
  <1>13. ASSUME NEW home, NEW rank, Shape(home, rank)
         PROVE  Position(home, rank)'
    BY <1>2, <1>6, <1>8, <1>13 DEF Shape, Position, index_of
  <1>14. QED
    BY <1>4, <1>7, <1>10, <1>11, <1>12, <1>13, ReadingKeepsInv

\* An allocation that fails ends the insertion.
LEMMA FailureKeepsInv ==
  ASSUME HashInv, call.pc \in {"node", "key", "value"},
         call' = [call EXCEPT !.pc = "cleanup"],
         UNCHANGED <<mem, value_cloner, table, before>>
  PROVE  HashInv'
  <1>1. call \in CallType /\ call.fn = "insert"
    BY CallFields, WhoseStep
  <1>2. /\ call'.fn = call.fn /\ call'.pc = "cleanup" /\ call'.key = call.key
        /\ call'.value = call.value /\ call'.given = call.given /\ call'.node = call.node
        /\ call'.list = call.list /\ call'.index = call.index
    BY <1>1 DEF CallType
  <1>3. call' \in CallType
    BY <1>1 DEF CallType
  <1>4. TypeInv' /\ ReadOnly
    BY <1>2, <1>3 DEF HashInv, TypeInv, ReadOnly
  <1>5. Heads' = Heads
    BY <1>1, <1>2 DEF Heads
  <1>6. /\ Kept' = Kept /\ InTable' = InTable /\ Nodes' = Nodes
        /\ \A n : key_of(n)' = key_of(n)
    BY <1>4, SameMemory
  <1>7. \A kind : Block(kind)' = Block(kind)
    BY DEF Block
  <1>8. ProtocolInv'
    BY <1>1, <1>2 DEF HashInv, ProtocolInv, index_of, NoCall
  <1>9. PendingInv'
    BY <1>1, <1>2, <1>6, <1>7 DEF HashInv, PendingInv
  <1>10. BeforeInv'
    BY <1>2, <1>6 DEF HashInv, BeforeInv, Represents
  <1>11. ASSUME NEW home, NEW rank, Shape(home, rank)
         PROVE  Position(home, rank)'
    BY <1>2, <1>6, <1>11 DEF Shape, Position, index_of
  <1>12. QED
    BY <1>4, <1>5, <1>8, <1>9, <1>10, <1>11, ReadingKeepsInv

\* hash_table_free goes from list to list.
LEMMA NextListKeepsInv ==
  ASSUME HashInv, NextList
  PROVE  HashInv'
  <1>1. /\ call.pc = "list" /\ call.index < Size
        /\ call' = [call EXCEPT !.pc = "free", !.current = mem[Array][call.index]]
        /\ UNCHANGED <<mem, value_cloner, table, before>>
    BY DEF NextList, Go
  <1>2. call \in CallType /\ call.fn = "free" /\ table = Table
    BY <1>1, CallFields, WhoseStep
  <1>3. call.index \in Indices /\ mem[Array][call.index] \in Names
    BY <1>1, <1>2, HashTableAssumption DEF HashInv, MemInv, Indices, CallType
  <1>4. /\ call'.fn = call.fn /\ call'.pc = "free" /\ call'.key = call.key
        /\ call'.value = call.value /\ call'.given = call.given /\ call'.node = call.node
        /\ call'.index = call.index /\ call'.current = mem[Array][call.index]
    BY <1>1, <1>2 DEF CallType
  <1>5. call' \in CallType
    BY <1>1, <1>2, <1>3 DEF CallType
  <1>6. TypeInv' /\ ReadOnly
    BY <1>1, <1>4, <1>5 DEF HashInv, TypeInv, ReadOnly
  <1>7. Heads' = Heads
    <2>1. \A i \in Indices : ~ (i < i)
      BY DEF Indices
    <2>2. QED
      BY <1>1, <1>2, <1>3, <1>4, <2>1 DEF Heads, Table, NULL
  <1>8. /\ Kept' = Kept /\ \A n : key_of(n)' = key_of(n)
    BY <1>6, SameMemory
  <1>9. ProtocolInv'
    BY <1>1, <1>2, <1>4 DEF HashInv, ProtocolInv, NoCall, Table, NULL
  <1>10. PendingInv' /\ BeforeInv'
    BY <1>2, <1>4, <1>9 DEF PendingInv, ProtocolInv, BeforeInv
  <1>11. ASSUME NEW home, NEW rank, Shape(home, rank)
         PROVE  Position(home, rank)'
    BY <1>4, <1>8, <1>11 DEF Shape, Position, index_of
  <1>12. QED
    BY <1>1, <1>6, <1>7, <1>9, <1>10, <1>11, ReadingKeepsInv

LEMMA ListFreedKeepsInv ==
  ASSUME HashInv, ListFreed
  PROVE  HashInv'
  <1>1. /\ call.pc = "free" /\ call.current = NULL
        /\ call' = [call EXCEPT !.pc = "list", !.index = call.index + 1]
        /\ UNCHANGED <<mem, value_cloner, table, before>>
    BY DEF ListFreed, Go
  <1>2. call \in CallType /\ call.fn = "free" /\ table = Table
    BY <1>1, CallFields, WhoseStep
  <1>3. call.index < Size /\ call.index \in Nat /\ Size \in Nat
    BY <1>1, <1>2, HashTableAssumption DEF HashInv, ProtocolInv, CallType
  <1>4. /\ call'.fn = call.fn /\ call'.pc = "list" /\ call'.key = call.key
        /\ call'.value = call.value /\ call'.given = call.given /\ call'.node = call.node
        /\ call'.index = call.index + 1
    BY <1>1, <1>2 DEF CallType
  <1>5. call.index + 1 \in 0..Size
    BY <1>3
  <1>6. call' \in CallType
    BY <1>1, <1>2, <1>5 DEF CallType
  <1>7. TypeInv' /\ ReadOnly
    BY <1>1, <1>4, <1>6 DEF HashInv, TypeInv, ReadOnly
  <1>8. Heads' = Heads
    <2>1. \A i \in Indices : i < call.index + 1 <=> i < call.index \/ i = call.index
      BY <1>3 DEF Indices
    <2>2. \A i \in Indices : ~ (call.index < call.index)
      BY <1>3
    <2>3. QED
      BY <1>1, <1>2, <1>4, <2>1, <2>2 DEF Heads
  <1>9. /\ Kept' = Kept /\ \A n : key_of(n)' = key_of(n)
    BY <1>7, SameMemory
  <1>10. ProtocolInv'
    BY <1>1, <1>2, <1>4 DEF HashInv, ProtocolInv, NoCall, Table, NULL
  <1>11. PendingInv' /\ BeforeInv'
    BY <1>2, <1>4, <1>10 DEF PendingInv, ProtocolInv, BeforeInv
  <1>12. ASSUME NEW home, NEW rank, Shape(home, rank)
         PROVE  Position(home, rank)'
    BY <1>4, <1>9, <1>12 DEF Shape, Position, index_of
  <1>13. QED
    BY <1>1, <1>7, <1>8, <1>10, <1>11, <1>12, ReadingKeepsInv

\* Once all the lists are empty, no node, key or value is left.
LEMMA NothingLeft ==
  ASSUME HashInv, call.fn # "insert", call.pc # "unlink",
         \A i \in Indices : Heads[i] = NULL
  PROVE  Nodes = {} /\ Block("key") = {} /\ Block("value") = {}
  <1>1. call.node = NULL /\ call.given = NULL
    BY DEF HashInv, ProtocolInv
  <1>2. PICK home, rank : Shape(home, rank)
    BY DEF HashInv, ListInv
  <1>3. InTable = {}
    <2>1. Lists(InTable, Heads, Nexts, home, rank)
      BY <1>2 DEF Shape
    <2> HIDE DEF InTable, Heads, Nexts
    <2>2. QED
      BY <2>1, NoHeadsNoNodes
  <1>4. NULL \notin Nodes /\ NULL \notin Block("key") /\ NULL \notin Block("value")
    BY BlocksOfAKind DEF HashInv, MemInv, Nodes, Kinds
  <1>5. Nodes = {}
    BY <1>1, <1>3, <1>4 DEF InTable
  <1>6. Holders = {}
    BY <1>5 DEF Holders
  <1>7. QED
    BY <1>1, <1>4, <1>5, <1>6 DEF HashInv, HoldInv

LEMMA AllListsFreed ==
  ASSUME HashInv, call.pc = "list", call.index = Size
  PROVE  \A i \in Indices : Heads[i] = NULL
  <1>1. call.fn = "free"
    BY WhoseStep
  <1>2. \A i \in Indices : i < call.index
    BY HashTableAssumption DEF Indices
  <1>3. QED
    BY <1>1, <1>2 DEF Heads

LEMMA FreedKeepsInv ==
  ASSUME HashInv, Freed
  PROVE  HashInv'
  <1>1. /\ call.pc = "list" /\ call.index = Size /\ call' = NoCall /\ table' = NULL
        /\ UNCHANGED <<mem, value_cloner, before>>
    BY DEF Freed
  <1>2. call.fn = "free" /\ call.node = NULL /\ call.given = NULL
    BY <1>1, WhoseStep DEF HashInv, ProtocolInv
  <1>3. TypeInv' /\ ReadOnly
    BY <1>1, <1>2, NoCallType DEF HashInv, TypeInv, ReadOnly, NoCall
  <1>4. Heads' = Heads
    <2>1. Heads = [i \in Indices |-> NULL]
      BY <1>1, AllListsFreed DEF Heads
    <2>2. QED
      BY <1>1, <2>1 DEF Heads
  <1>5. /\ Kept' = Kept /\ \A n : key_of(n)' = key_of(n)
    BY <1>3, SameMemory
  <1>6. ProtocolInv' /\ PendingInv' /\ BeforeInv'
    BY <1>1 DEF ProtocolInv, PendingInv, BeforeInv, NoCall
  <1>7. ASSUME NEW home, NEW rank, Shape(home, rank)
        PROVE  Position(home, rank)'
    BY <1>1, <1>5, <1>7 DEF Shape, Position, index_of, NoCall
  <1>8. QED
    BY <1>1, <1>3, <1>4, <1>6, <1>7, ReadingKeepsInv DEF Table, NULL

-----------------------------------------------------------------------------
(***************************************************************************)
(* A table without nodes: at the start of a run and after its creation.    *)
(***************************************************************************)
Fresh ==
    /\ MemInv /\ TypeInv /\ call = NoCall
    /\ Nodes = {} /\ Block("key") = {} /\ Block("value") = {}
    /\ \A i \in Indices : Heads[i] = NULL

LEMMA FreshInv == Fresh => HashInv
  <1> SUFFICES ASSUME Fresh PROVE HashInv
    OBVIOUS
  <1>1. InTable = {} /\ Holders = {} /\ Kept = {} /\ call = NoCall
    BY DEF Fresh, InTable, Holders, Kept
  <1>2. HoldInv /\ KeysInv
    BY <1>1 DEF Fresh, HoldInv, KeysInv
  <1>3. ProtocolInv /\ PendingInv /\ BeforeInv
    BY <1>1 DEF ProtocolInv, PendingInv, BeforeInv, NoCall
  <1> DEFINE none == [n \in {} |-> 0]
  <1>4. Lists(InTable, Heads, Nexts, none, none)
    <2>1. Heads \in [Indices -> {NULL}] /\ \A i \in Indices : Heads[i] = NULL
      BY DEF Fresh, Heads
    <2>2. Nexts \in [{} -> {NULL}] /\ none \in [{} -> Indices] /\ none \in [{} -> Nat]
      BY <1>1 DEF Nexts
    <2> HIDE DEF none
    <2>3. QED
      BY <1>1, <2>1, <2>2 DEF Lists
  <1>5. Position(none, none)
    BY <1>1 DEF Position, NoCall
  <1>6. ListInv
    BY <1>4, <1>5 DEF ListInv, Shape
  <1>7. QED
    BY <1>2, <1>3, <1>6 DEF HashInv, Fresh

LEMMA InitInv == Init => HashInv
  <1> SUFFICES ASSUME Init PROVE HashInv
    OBVIOUS
  <1>1. DOMAIN mem = {}
    BY DEF Init
  <1>2. Nodes = {} /\ Block("key") = {} /\ Block("value") = {}
    BY <1>1 DEF Nodes, Block
  <1>3. MemInv
    BY <1>1, <1>2, FS_EmptySet DEF Init, MemInv, MemoryType, Table, NULL
  <1>4. TypeInv
    BY NoCallType, HashTableAssumption DEF Init, TypeInv, Mapping
  <1>5. \A i \in Indices : Heads[i] = NULL
    BY DEF Init, Heads
  <1>6. Fresh
    BY <1>2, <1>3, <1>4, <1>5 DEF Fresh, Init
  <1>7. QED
    BY <1>6, FreshInv

\* Without a table nothing of it is left.
LEMMA NoTable ==
  ASSUME HashInv, table = NULL
  PROVE  /\ call = NoCall
         /\ Nodes = {} /\ Block("key") = {} /\ Block("value") = {}
  <1>1. call = NoCall
    BY DEF HashInv, ProtocolInv
  <1>2. \A i \in Indices : Heads[i] = NULL
    BY DEF Heads
  <1>3. QED
    BY <1>1, <1>2, NothingLeft DEF NoCall

LEMMA CreateKeepsInv ==
  ASSUME HashInv, hash_table_create
  PROVE  HashInv'
  <1>1. table = NULL /\ UNCHANGED <<value_cloner, call, before, result>>
    BY DEF hash_table_create
  <1>2. /\ call = NoCall
        /\ Nodes = {} /\ Block("key") = {} /\ Block("value") = {}
    BY <1>1, NoTable
  <1>3. CASE UNCHANGED <<mem, table>>
    <2>1. Fresh'
      <3>1. MemInv' /\ TypeInv' /\ Nodes' = Nodes /\ \A k : Block(k)' = Block(k)
        BY <1>1, <1>3 DEF HashInv, MemInv, TypeInv, MemoryType, Nodes, Block
      <3>2. \A i \in Indices : Heads'[i] = NULL
        BY <1>1, <1>3 DEF Heads
      <3>3. QED
        BY <1>1, <1>2, <3>1, <3>2 DEF Fresh
    <2>2. (Fresh => HashInv)'
      BY FreshInv, PTL
    <2>3. QED
      BY <2>1, <2>2
  <1>4. CASE /\ mem' = With(With(mem, Table, "table"), Array, [i \in 0..Size - 1 |-> NULL])
             /\ table' = Table
    <2>1. DOMAIN mem' = DOMAIN mem \cup {Table, Array} /\ mem'[Array] = [i \in Indices |-> NULL]
      BY <1>4 DEF With, Indices
    <2>2. /\ Block("node")' = Block("node") /\ Block("key")' = Block("key")
          /\ Block("value")' = Block("value")
      BY <2>1 DEF Block, Table, Array
    <2>3. MemInv'
      <3>1. IsFiniteSet(DOMAIN mem \cup {Table}) /\ IsFiniteSet(DOMAIN mem)
        BY FS_AddElement DEF HashInv, MemInv, MemoryType
      <3>2. IsFiniteSet((DOMAIN mem \cup {Table}) \cup {Array})
        BY <3>1, FS_AddElement
      <3>3. (DOMAIN mem \cup {Table}) \cup {Array} = DOMAIN mem \cup {Table, Array}
        OBVIOUS
      <3>4. MemoryType'
        BY <2>1, <3>2, <3>3 DEF HashInv, MemInv, MemoryType
      <3>5. Nodes' = {}
        BY <1>2, <2>2 DEF Nodes
      <3>6. mem'[Array] \in [Indices -> Names]
        BY <2>1 DEF Names
      <3>7. QED
        BY <1>2, <2>1, <2>2, <3>4, <3>5, <3>6 DEF MemInv
    <2>4. TypeInv'
      BY <1>1, <1>4 DEF HashInv, TypeInv
    <2>5. \A i \in Indices : Heads'[i] = NULL
      BY <1>1, <1>2, <2>1 DEF Heads, NoCall
    <2>6. Fresh'
      BY <1>1, <1>2, <2>2, <2>3, <2>4, <2>5 DEF Fresh, Nodes
    <2>7. (Fresh => HashInv)'
      BY FreshInv, PTL
    <2>8. QED
      BY <2>6, <2>7
  <1>5. QED
    BY <1>3, <1>4 DEF hash_table_create

LEMMA RestartKeepsInv ==
  ASSUME HashInv, Restart
  PROVE  HashInv'
  <1>1. /\ table = NULL /\ mem' = <<>> /\ value_cloner' \in ValueCloners
        /\ UNCHANGED <<table, call, before, result>>
    BY DEF Restart
  <1>2. call = NoCall
    BY <1>1, NoTable
  <1>3. DOMAIN mem' = {}
    BY <1>1
  <1>4. Nodes' = {} /\ Block("key")' = {} /\ Block("value")' = {}
    BY <1>3 DEF Nodes, Block
  <1>5. MemInv'
    BY <1>1, <1>3, <1>4, FS_EmptySet DEF MemInv, MemoryType, Table, NULL
  <1>6. TypeInv'
    BY <1>1, HashTableAssumption DEF HashInv, TypeInv
  <1>7. \A i \in Indices : Heads'[i] = NULL
    BY <1>1 DEF Heads
  <1>8. Fresh'
    BY <1>1, <1>2, <1>4, <1>5, <1>6, <1>7 DEF Fresh
  <1>9. (Fresh => HashInv)'
    BY FreshInv, PTL
  <1>10. QED
    BY <1>8, <1>9

-----------------------------------------------------------------------------
(***************************************************************************)
(* Steps that write to the memory: what they leave alone.                  *)
(***************************************************************************)
LEMMA KeptAlike ==
  ASSUME HashInv, Kept' = Kept,
         \A n \in Kept : /\ mem'[n].key = mem[n].key /\ mem'[n].value = mem[n].value
                         /\ mem'[mem[n].key] = mem[mem[n].key]
                         /\ mem'[mem[n].value] = mem[mem[n].value]
  PROVE  /\ \A n \in Kept : key_of(n)' = key_of(n)
         /\ KeysInv'
         /\ \A f : Represents(f)' <=> Represents(f)
  <1>1. \A n \in Kept : key_of(n)' = key_of(n)
    BY DEF key_of
  <1>2. KeysInv'
    BY <1>1 DEF HashInv, KeysInv
  <1>3. \A n \in Kept : mem'[mem'[n].value] = mem[mem[n].value]
    OBVIOUS
  <1>4. \A f : Represents(f)' <=> Represents(f)
    BY <1>1, <1>3 DEF Represents
  <1>5. QED
    BY <1>1, <1>2, <1>4

LEMMA ListsAlike ==
  ASSUME HashInv, InTable' = InTable, Heads' = Heads, Nexts' = Nexts,
         \A home, rank : Shape(home, rank) => Position(home, rank)'
  PROVE  ListInv'
  <1>1. PICK home, rank : Shape(home, rank)
    BY DEF HashInv, ListInv
  <1>2. Position(home, rank)'
    BY <1>1
  <1>3. Lists(InTable, Heads, Nexts, home, rank)'
    BY <1>1 DEF Shape, Lists
  <1>4. QED
    BY <1>2, <1>3 DEF ListInv, Shape

\* The blocks are of different kinds.
LEMMA BlocksDiffer ==
  ASSUME HashInv
  PROVE  /\ Nodes \cap Block("key") = {} /\ Nodes \cap Block("value") = {}
         /\ Block("key") \cap Block("value") = {}
         /\ \A kind \in Kinds : \A b \in Block(kind) :
              b \in DOMAIN mem /\ b \in Names /\ b # NULL /\ b # Table /\ b # Array
  <1>1. \A kind \in Kinds : \A b \in Block(kind) :
              b \in {kind} \X Nat /\ b \in DOMAIN mem /\ b # NULL /\ b # Table /\ b # Array
    BY BlocksOfAKind DEF HashInv, MemInv
  <1>2. Nodes \cap Block("key") = {} /\ Nodes \cap Block("value") = {}
        /\ Block("key") \cap Block("value") = {}
    BY DEF Nodes, Block
  <1>3. QED
    BY <1>1, <1>2 DEF Names

LEMMA InsertKeepsInv ==
  ASSUME HashInv, NEW key \in Keys, NEW value \in Values, hash_table_insert(key, value)
  PROVE  HashInv'
  <1> DEFINE given == IF value_cloner THEN NULL ELSE New("value")
             index == index_of(key)
  <1>1. /\ Idle /\ table = Table
        /\ call' = [NoCall EXCEPT !.fn = "insert", !.pc = "node", !.key = key,
                      !.value = value, !.given = given, !.index = index]
        /\ before' = Contents
        /\ mem' = IF value_cloner THEN mem ELSE With(mem, given, value)
        /\ value_cloner' = value_cloner /\ table' = table
    BY DEF hash_table_insert, Called
  <1>2. /\ call = NoCall /\ InTable = Nodes /\ Holders = Nodes /\ Kept = Nodes
        /\ \A i \in Indices : Heads[i] = IF table = NULL THEN NULL ELSE mem[Array][i]
    BY <1>1, AtRest
  <1>3. /\ MemoryType' /\ \A b \in DOMAIN mem : b \in DOMAIN mem' /\ mem'[b] = mem[b]
        /\ Nodes' = Nodes /\ Block("key")' = Block("key")
        /\ Block("value")' = Block("value") \cup ({given} \ {NULL})
        /\ given \in Names /\ given \notin DOMAIN mem
        /\ given # NULL => given \in Block("value")' /\ mem'[given] = value
        /\ given # NULL <=> ~value_cloner
    <2>1. MemoryType /\ "value" \in Kinds
      BY DEF HashInv, MemInv, Kinds
    <2>2. CASE value_cloner
      <3>1. NULL \notin DOMAIN mem
        BY <2>1, NullIsNoBlock DEF MemoryType
      <3>2. mem' = mem /\ given = NULL
        BY <1>1, <2>2
      <3>3. QED
        BY <2>1, <2>2, <3>1, <3>2 DEF Block, Nodes, MemoryType, Names
    <2>3. CASE ~value_cloner
      <3>1. given = New("value") /\ mem' = With(mem, given, value)
        BY <1>1, <2>3
      <3> HIDE DEF given
      <3>2. Grows(mem, "value", given, value)
        BY <2>1, <3>1, Allocated
      <3>3. given \in Names /\ given # NULL
        BY <3>2 DEF Grows, Names, Kinds, NULL
      <3>4. QED
        BY <2>3, <3>2, <3>3 DEF Grows, Nodes, Kinds
    <2>4. QED
      BY <2>2, <2>3
  <1> HIDE DEF given
  <1>4. index \in Indices /\ index \in 0..Size
    BY IndexOfKey, HashTableAssumption DEF Indices
  <1> HIDE DEF index
  <1>5. /\ call'.fn = "insert" /\ call'.pc = "node" /\ call'.key = key
        /\ call'.value = value /\ call'.given = given /\ call'.node = NULL
        /\ call'.index = index /\ call'.prev = NULL
    BY <1>1 DEF NoCall
  <1>6. call' \in CallType
    BY <1>1, <1>3, <1>4, NoCallType DEF CallType
  <1>7. Contents \in Mapping /\ Represents(Contents)
    BY <1>1, ContentsRepresented
  <1>8. TypeInv'
    BY <1>1, <1>6, <1>7 DEF HashInv, TypeInv
  <1>9. /\ Nodes \subseteq DOMAIN mem /\ Block("key") \subseteq DOMAIN mem
        /\ Block("value") \subseteq DOMAIN mem
    BY DEF Nodes, Block
  <1>10. MemInv'
    <2>1. MemInv
      BY DEF HashInv
    <2>2. /\ {Table, Array} \subseteq DOMAIN mem
          /\ mem'[Array] = mem[Array] /\ mem[Array] \in [Indices -> Names]
      BY <1>1, <1>3, <2>1 DEF MemInv
    <2>3. \A n \in Nodes' : mem'[n] \in [key : Names, value : Names, next : Names]
      BY <1>3, <1>9, <2>1 DEF MemInv
    <2>4. \A k \in Block("key")' : mem'[k] \in Keys
      BY <1>3, <1>9, <2>1 DEF MemInv
    <2>5. \A v \in Block("value")' : mem'[v] \in Values
      BY <1>3, <1>9, <2>1 DEF MemInv
    <2>6. QED
      BY <1>3, <2>2, <2>3, <2>4, <2>5 DEF MemInv
  <1>11. InTable' = Nodes /\ Holders' = Nodes /\ Kept' = Kept /\ Nexts' = Nexts
    <2>1. NULL \notin Nodes
      BY BlocksDiffer DEF Nodes, Kinds
    <2>2. InTable' = Nodes /\ Holders' = Nodes
      BY <1>3, <1>5, <2>1 DEF InTable, Holders
    <2>3. QED
      BY <1>2, <1>3, <1>9, <2>2 DEF Kept, Nexts
  <1>12. \A n \in Kept : NodeBlocks(n) \subseteq DOMAIN mem
    BY <1>9, NodeHolds DEF NodeBlocks
  <1>13. /\ \A n \in Kept : key_of(n)' = key_of(n)
         /\ KeysInv'
         /\ \A f : Represents(f)' <=> Represents(f)
    <2>1. \A n \in Kept : /\ mem'[n] = mem[n] /\ mem'[mem[n].key] = mem[mem[n].key]
                          /\ mem'[mem[n].value] = mem[mem[n].value]
      BY <1>3, <1>9, NodeHolds
    <2>2. QED
      BY <1>11, <2>1, KeptAlike
  <1>14. ProtocolInv'
    BY <1>1, <1>5 DEF ProtocolInv, index, index_of, Table, NULL
  <1>15. HoldInv'
    <2>1. HoldInv /\ call.given = NULL
      BY <1>2 DEF HashInv, NoCall
    <2>2. \A n \in Nodes : mem'[n] = mem[n] /\ mem[n].value # given
      BY <1>2, <1>3, <1>9, NodeHolds
    <2>3. /\ \A n \in Nodes : /\ mem[n].key \in Block("key") /\ mem[n].value \in Block("value")
                              /\ mem[n].key # NULL /\ mem[n].value # NULL
          /\ \A m, n \in Nodes : /\ mem[m].key = mem[n].key => m = n
                                 /\ mem[m].value = mem[n].value => m = n
          /\ \A k \in Block("key") : \E n \in Nodes : mem[n].key = k
          /\ NULL \notin Block("value")
          /\ \A v \in Block("value") : \E n \in Nodes : mem[n].value = v
      BY <1>2, <2>1, NodeHolds, BlocksDiffer DEF HoldInv, Kinds
    <2>4. \A k \in Block("key")' : \E n \in Holders' : mem'[n].key = k
      BY <1>3, <1>11, <2>2, <2>3
    <2>5. \A v \in Block("value")' : v = call'.given \/ \E n \in Holders' : mem'[n].value = v
      BY <1>3, <1>5, <1>11, <2>2, <2>3
    <2>6. \A n \in Holders' : /\ mem'[n].key \in Block("key")' /\ mem'[n].value \in Block("value")'
                              /\ mem'[n].key # NULL /\ mem'[n].value # NULL
                              /\ mem'[n].value # call'.given
      BY <1>3, <1>5, <1>11, <2>2, <2>3
    <2>7. \A m, n \in Holders' : /\ mem'[m].key = mem'[n].key => m = n
                                 /\ mem'[m].value = mem'[n].value => m = n
      BY <1>11, <2>2, <2>3
    <2>8. Kept' \subseteq Holders'
      BY DEF Kept
    <2>9. QED
      BY <2>4, <2>5, <2>6, <2>7, <2>8 DEF HoldInv
  <1>16. PendingInv'
    BY <1>1, <1>3, <1>5 DEF PendingInv
  <1>17. BeforeInv'
    <2>1. \A n \in Kept : mem'[mem'[n].value] = mem[mem[n].value]
      BY <1>3, <1>9, NodeHolds
    <2>2. Represents(before)'
      BY <1>1, <1>7, <1>11, <1>13, <2>1 DEF Represents
    <2>3. QED
      BY <1>5, <2>2 DEF BeforeInv
  <1>18. ListInv'
    <2>1. Heads' = Heads
      <3>1. mem'[Array] = mem[Array]
        BY <1>1, <1>3 DEF HashInv, MemInv
      <3>2. QED
        BY <1>1, <1>2, <1>5, <3>1 DEF Heads, NoCall
    <2>2. ASSUME NEW home, NEW rank, Shape(home, rank)
          PROVE  Position(home, rank)'
      BY <1>5, <1>11, <1>13, <2>2 DEF Shape, Position, index_of
    <2>3. QED
      BY <1>2, <1>11, <2>1, <2>2, ListsAlike
  <1>19. QED
    BY <1>8, <1>10, <1>13, <1>14, <1>15, <1>16, <1>17, <1>18 DEF HashInv

\* What an insertion has so far, up to the walk.
LEMMA Inserting ==
  ASSUME HashInv, call.pc \in {"node", "key", "value", "cleanup"}
  PROVE  /\ call.fn = "insert" /\ table = Table /\ call \in CallType
         /\ Holders = Nodes /\ Kept = InTable
         /\ call.node \in Nodes \cup {NULL} /\ NULL \notin Nodes
         /\ Array \in DOMAIN mem /\ mem[Array] \in [Indices -> Names]
  <1>1. call.fn = "insert" /\ table = Table /\ call \in CallType
    BY WhoseStep, CallFields
  <1>2. Holders = Nodes /\ Kept = InTable
    BY DEF Holders, Kept, InTable
  <1>3. NULL \notin Nodes
    BY BlocksDiffer DEF Nodes, Kinds
  <1>4. call.node \in Nodes \cup {NULL}
    BY DEF HashInv, PendingInv
  <1>5. QED
    BY <1>1, <1>2, <1>3, <1>4 DEF HashInv, MemInv

\* What is not the pending node's stays as it is while an insertion
\* allocates and gives up.
LEMMA OthersStay ==
  ASSUME HashInv, call.pc \in {"node", "key", "value", "cleanup"},
         call'.pc \in {"key", "value", "walk", "idle"}, call'.fn \in {"insert", "none"},
         call'.index = call.index \/ call'.fn = "none",
         InTable' = InTable, table' = table,
         mem'[Array] = mem[Array],
         \A n \in InTable : /\ mem'[n] = mem[n]
                            /\ mem'[mem[n].key] = mem[mem[n].key]
                            /\ mem'[mem[n].value] = mem[mem[n].value]
  PROVE  /\ Kept' = Kept /\ Heads' = Heads /\ Nexts' = Nexts
         /\ \A n \in Kept : key_of(n)' = key_of(n)
         /\ KeysInv'
         /\ Represents(before)
         /\ \A f : Represents(f)' <=> Represents(f)
  <1>1. Kept = InTable /\ Kept' = InTable
    BY DEF Holders, Kept, InTable
  <1>2. Heads' = Heads
    <2>1. call.fn = "insert" /\ table = Table
      BY Inserting
    <2>2. QED
      BY <2>1 DEF Heads
  <1>3. Nexts' = Nexts
    BY DEF Nexts
  <1>4. Represents(before)
    BY DEF HashInv, BeforeInv
  <1>5. \A n \in Kept : /\ mem'[n].key = mem[n].key /\ mem'[n].value = mem[n].value
                        /\ mem'[mem[n].key] = mem[mem[n].key]
                        /\ mem'[mem[n].value] = mem[mem[n].value]
    BY <1>1
  <1>6. QED
    BY <1>1, <1>2, <1>3, <1>4, <1>5, KeptAlike

LEMMA NodeAllocatedKeepsInv ==
  ASSUME HashInv, call.pc = "node",
         NEW x, x = New("node"), NEW c, c = [key |-> NULL, value |-> NULL, next |-> NULL],
         mem' = With(mem, x, c), call' = [call EXCEPT !.pc = "key", !.node = x],
         UNCHANGED <<value_cloner, table, before>>
  PROVE  HashInv'
  <1>1. /\ call.fn = "insert" /\ table = Table /\ call \in CallType
        /\ Holders = Nodes /\ Kept = InTable /\ NULL \notin Nodes
        /\ Array \in DOMAIN mem /\ mem[Array] \in [Indices -> Names]
    BY Inserting
  <1>2. call.node = NULL /\ InTable = Nodes
    BY <1>1 DEF HashInv, PendingInv, InTable
  <1>4. /\ c \in [key : Names, value : Names, next : Names]
        /\ c.key = NULL /\ c.value = NULL /\ c.next = NULL
    BY DEF Names
  <1>5. MemoryType /\ "node" \in Kinds
    BY DEF HashInv, MemInv, Kinds
  <1>6. Grows(mem, "node", x, c)
    BY <1>5, Allocated
  <1>7. /\ MemoryType' /\ x \notin DOMAIN mem /\ x \in {"node"} \X Nat
        /\ DOMAIN mem' = DOMAIN mem \cup {x} /\ mem'[x] = c
        /\ \A b \in DOMAIN mem : mem'[b] = mem[b]
    BY <1>6 DEF Grows
  <1>8. /\ Nodes' = Nodes \cup {x}
        /\ Block("key")' = Block("key") /\ Block("value")' = Block("value")
    BY <1>6 DEF Grows, Kinds, Nodes
  <1>12. x \in Names /\ x # NULL
    BY <1>7 DEF Names, Kinds, NULL
  <1>13. /\ call'.fn = call.fn /\ call'.pc = "key" /\ call'.key = call.key
         /\ call'.value = call.value /\ call'.given = call.given /\ call'.node = x
         /\ call'.index = call.index /\ call'.prev = call.prev
    BY <1>1 DEF CallType
  <1>14. call' \in CallType
    BY <1>1, <1>12 DEF CallType
  <1>15. TypeInv'
    BY <1>14 DEF HashInv, TypeInv
  <1>16. /\ Nodes \subseteq DOMAIN mem /\ Block("key") \subseteq DOMAIN mem
         /\ Block("value") \subseteq DOMAIN mem
    BY DEF Nodes, Block
  <1>17. MemInv'
    <2>1. MemInv
      BY DEF HashInv
    <2>2. {Table, Array} \subseteq DOMAIN mem' /\ mem'[Array] \in [Indices -> Names]
      BY <1>1, <1>7, <2>1 DEF MemInv
    <2>3. \A n \in Nodes' : mem'[n] \in [key : Names, value : Names, next : Names]
      BY <1>4, <1>7, <1>8, <1>16, <2>1 DEF MemInv
    <2>4. \A k \in Block("key")' : mem'[k] \in Keys
      BY <1>7, <1>8, <1>16, <2>1 DEF MemInv
    <2>5. \A v \in Block("value")' : mem'[v] \in Values
      BY <1>7, <1>8, <1>16, <2>1 DEF MemInv
    <2>6. QED
      BY <1>7, <2>2, <2>3, <2>4, <2>5 DEF MemInv
  <1>18. InTable' = InTable /\ Holders' = Nodes \cup {x}
    BY <1>2, <1>7, <1>8, <1>13, <1>16 DEF InTable, Holders
  <1>19. /\ Kept' = Kept /\ Heads' = Heads /\ Nexts' = Nexts
         /\ \A n \in Kept : key_of(n)' = key_of(n)
         /\ KeysInv'
         /\ Represents(before)
         /\ \A f : Represents(f)' <=> Represents(f)
    <2>1. \A n \in InTable : /\ mem'[n] = mem[n]
                             /\ mem'[mem[n].key] = mem[mem[n].key]
                             /\ mem'[mem[n].value] = mem[mem[n].value]
      BY <1>1, <1>7, <1>16, NodeHolds
    <2>2. QED
      BY <1>1, <1>7, <1>13, <1>18, <2>1, OthersStay
  <1>20. ProtocolInv'
    BY <1>1, <1>13 DEF HashInv, ProtocolInv, index_of, Table, NULL
  <1>21. HoldInv'
    <2>1. HoldInv
      BY DEF HashInv
    <2>2. \A n \in Nodes : mem'[n] = mem[n] /\ n # x
      BY <1>7, <1>16
    <2>3. mem'[x].key = NULL /\ mem'[x].value = NULL /\ Kept' = Nodes
      BY <1>1, <1>2, <1>4, <1>7, <1>19
    <2>4. NULL \notin Block("key") /\ NULL \notin Block("value")
      BY BlocksDiffer DEF Kinds
    <2>5. QED
      BY <1>1, <1>2, <1>8, <1>13, <1>18, <2>1, <2>2, <2>3, <2>4 DEF HoldInv
  <1>22. PendingInv'
    <2>1. /\ call.given \in Block("value") \cup {NULL} /\ call.prev = NULL
          /\ call.given # NULL => mem[call.given] = call.value
          /\ (call.given # NULL <=> ~value_cloner)
      BY <1>1 DEF HashInv, PendingInv
    <2>2. call'.given # NULL => mem'[call'.given] = call'.value
      BY <1>7, <1>13, <1>16, <2>1
    <2>3. QED
      BY <1>1, <1>4, <1>7, <1>8, <1>12, <1>13, <2>1, <2>2 DEF PendingInv
  <1>23. BeforeInv'
    <2>1. Represents(before)'
      BY <1>7, <1>16, <1>19, NodeHolds DEF Represents
    <2>2. QED
      BY <1>13, <2>1 DEF BeforeInv
  <1>24. ListInv'
    <2>1. ASSUME NEW home, NEW rank, Shape(home, rank)
          PROVE  Position(home, rank)'
      BY <1>13, <1>19, <2>1 DEF Shape, Position, index_of
    <2>2. QED
      BY <1>18, <1>19, <2>1, ListsAlike
  <1>25. QED
    BY <1>15, <1>17, <1>19, <1>20, <1>21, <1>22, <1>23, <1>24 DEF HashInv

\* The pending node, which is no node of the table.
LEMMA PendingNode ==
  ASSUME HashInv, call.pc \in {"key", "value"}
  PROVE  /\ call.node \in Nodes /\ call.node \notin InTable /\ Nodes = InTable \cup {call.node}
         /\ call.node \in DOMAIN mem /\ call.node # Array
         /\ mem[call.node] \in [key : Names, value : Names, next : Names]
         /\ mem[call.node].next = NULL /\ mem[call.node].value = NULL
         /\ call.pc = "key" => mem[call.node].key = NULL
         /\ call.pc = "value" => mem[call.node].key \in Block("key") /\ key_of(call.node) = call.key
         /\ call.given \in Block("value") \cup {NULL}
         /\ call.given # NULL => mem[call.given] = call.value
         /\ call.given # NULL <=> ~value_cloner
         /\ call.prev = NULL
  <1>1. call.fn = "insert"
    BY Inserting
  <1>2. call.node \in Nodes /\ call.node # NULL
    BY <1>1 DEF HashInv, PendingInv
  <1>3. Nodes = InTable \cup {call.node} /\ call.node \notin InTable
    BY <1>2 DEF InTable
  <1>4. call.node \in DOMAIN mem /\ call.node # Array
    BY <1>2, BlocksDiffer DEF Nodes, Kinds
  <1>5. QED
    BY <1>1, <1>2, <1>3, <1>4 DEF HashInv, PendingInv, MemInv

KeyCloned(x, m) ==
    /\ call.pc = "key" /\ x = New("key") /\ m = [mem EXCEPT ![call.node].key = x]
    /\ mem' = With(m, x, call.key) /\ call' = [call EXCEPT !.pc = "value"]
    /\ UNCHANGED <<value_cloner, table, before>>

LEMMA KeyClonedKeepsInv ==
  ASSUME HashInv, NEW x, NEW m, KeyCloned(x, m)
  PROVE  HashInv'
  <1>0. /\ call.pc = "key" /\ call' = [call EXCEPT !.pc = "value"]
        /\ value_cloner' = value_cloner /\ table' = table /\ before' = before
    BY DEF KeyCloned
  <1>1. /\ call.fn = "insert" /\ table = Table /\ call \in CallType
        /\ Holders = Nodes /\ Kept = InTable /\ NULL \notin Nodes
        /\ Array \in DOMAIN mem /\ mem[Array] \in [Indices -> Names]
    BY <1>0, Inserting
  <1>2. /\ call.node \in Nodes /\ call.node \notin InTable /\ Nodes = InTable \cup {call.node}
        /\ call.node \in DOMAIN mem /\ call.node # Array
        /\ mem[call.node] \in [key : Names, value : Names, next : Names]
        /\ mem[call.node].next = NULL /\ mem[call.node].value = NULL
        /\ call.given \in Block("value") \cup {NULL}
        /\ call.given # NULL => mem[call.given] = call.value
        /\ call.given # NULL <=> ~value_cloner
        /\ call.prev = NULL
    BY <1>0, PendingNode
  <1>3. call.key \in Keys
    BY <1>0, SearchedList
  <1>4. MemoryType /\ "key" \in Kinds
    BY DEF HashInv, MemInv, Kinds
  <1>5. DOMAIN m = DOMAIN mem /\ x = New("key") /\ mem' = With(m, x, call.key)
    BY DEF KeyCloned
  <1>6. Grows(m, "key", x, call.key)
    BY <1>4, <1>5, Allocated
  <1>7. /\ MemoryType' /\ x \notin DOMAIN mem /\ x \in {"key"} \X Nat
        /\ DOMAIN mem' = DOMAIN mem \cup {x} /\ mem'[x] = call.key
        /\ \A b \in DOMAIN mem : mem'[b] = m[b]
    BY <1>6 DEF Grows
  <1>8. /\ Nodes' = Nodes /\ Block("value")' = Block("value")
        /\ Block("key")' = Block("key") \cup {x}
    BY <1>6 DEF Grows, Kinds, Nodes
  <1>9. x \in Names /\ x # NULL
    BY <1>7 DEF Names, Kinds, NULL
  <1>10. /\ \A b \in DOMAIN mem : b # call.node => mem'[b] = mem[b]
         /\ mem'[call.node] = [mem[call.node] EXCEPT !.key = x]
    BY <1>2, <1>7 DEF KeyCloned
  <1>11. /\ mem'[call.node] \in [key : Names, value : Names, next : Names]
         /\ mem'[call.node].key = x /\ mem'[call.node].value = NULL
         /\ mem'[call.node].next = NULL
    BY <1>2, <1>9, <1>10
  <1>12. /\ call'.fn = call.fn /\ call'.pc = "value" /\ call'.key = call.key
         /\ call'.value = call.value /\ call'.given = call.given /\ call'.node = call.node
         /\ call'.index = call.index /\ call'.prev = call.prev
    BY <1>0, <1>1 DEF CallType
  <1>13. call' \in CallType
    BY <1>0, <1>1 DEF CallType
  <1>14. TypeInv'
    BY <1>0, <1>13 DEF HashInv, TypeInv
  <1>15. /\ Nodes \subseteq DOMAIN mem /\ Block("key") \subseteq DOMAIN mem
         /\ Block("value") \subseteq DOMAIN mem
         /\ call.node \notin Block("key") /\ call.node \notin Block("value")
    BY <1>2, BlocksDiffer DEF Nodes, Block
  <1>16. MemInv'
    <2>1. MemInv
      BY DEF HashInv
    <2>2. {Table, Array} \subseteq DOMAIN mem' /\ mem'[Array] \in [Indices -> Names]
      BY <1>0, <1>1, <1>2, <1>7, <1>10, <2>1 DEF MemInv
    <2>3. \A n \in Nodes' : mem'[n] \in [key : Names, value : Names, next : Names]
      BY <1>8, <1>10, <1>11, <1>15, <2>1 DEF MemInv
    <2>4. \A k \in Block("key")' : mem'[k] \in Keys
      BY <1>3, <1>7, <1>8, <1>10, <1>15, <2>1 DEF MemInv
    <2>5. \A v \in Block("value")' : mem'[v] \in Values
      BY <1>8, <1>10, <1>15, <2>1 DEF MemInv
    <2>6. QED
      BY <1>7, <2>2, <2>3, <2>4, <2>5 DEF MemInv
  <1>17. InTable' = InTable /\ Holders' = Nodes
    BY <1>8, <1>12 DEF InTable, Holders
  <1>18. \A n \in InTable : /\ mem'[n] = mem[n]
                            /\ mem'[mem[n].key] = mem[mem[n].key]
                            /\ mem'[mem[n].value] = mem[mem[n].value]
    BY <1>1, <1>2, <1>10, <1>15, NodeHolds
  <1>19. /\ Kept' = Kept /\ Heads' = Heads /\ Nexts' = Nexts
         /\ \A n \in Kept : key_of(n)' = key_of(n)
         /\ KeysInv'
         /\ Represents(before)
         /\ \A f : Represents(f)' <=> Represents(f)
    BY <1>1, <1>2, <1>10, <1>12, <1>17, <1>18, <1>0, OthersStay
  <1>20. ProtocolInv'
    BY <1>0, <1>1, <1>12 DEF HashInv, ProtocolInv, index_of, Table, NULL
  <1>21. HoldInv'
    <2>1. HoldInv
      BY DEF HashInv
    <2>2. \A n \in Nodes : n # call.node =>
            mem'[n] = mem[n] /\ mem[n].key # x /\ n \in InTable
      BY <1>1, <1>2, <1>7, <1>15, <1>18, NodeHolds
    <2>3. NULL \notin Block("key") /\ NULL \notin Block("value") /\ mem[call.node].key = NULL
      BY <1>0, BlocksDiffer, PendingNode DEF Kinds
    <2>4. \A n \in Holders' : /\ mem'[n].key \in Block("key")' \cup {NULL}
                              /\ mem'[n].value \in Block("value")' \cup {NULL}
      BY <1>1, <1>8, <1>11, <1>17, <2>1, <2>2 DEF HoldInv
    <2>5. \A n \in Kept' : /\ mem'[n].key # NULL /\ mem'[n].value # NULL
                           /\ mem'[n].value # call'.given
      BY <1>1, <1>12, <1>18, <1>19, <2>1 DEF HoldInv
    <2>6. \A l, n \in Holders' :
            /\ mem'[l].key = mem'[n].key /\ mem'[l].key # NULL => l = n
            /\ mem'[l].value = mem'[n].value /\ mem'[l].value # NULL => l = n
      BY <1>1, <1>11, <1>17, <2>1, <2>2 DEF HoldInv
    <2>7. \A k \in Block("key")' : \E n \in Holders' : mem'[n].key = k
      BY <1>1, <1>2, <1>8, <1>11, <1>17, <2>1, <2>2, <2>3 DEF HoldInv
    <2>8. \A v \in Block("value")' : v = call'.given \/ \E n \in Holders' : mem'[n].value = v
      BY <1>1, <1>2, <1>8, <1>12, <1>17, <2>1, <2>2, <2>3 DEF HoldInv
    <2>9. QED
      BY <2>4, <2>5, <2>6, <2>7, <2>8 DEF HoldInv
  <1>22. PendingInv'
    <2>1. call'.given # NULL => mem'[call'.given] = call'.value
      BY <1>2, <1>10, <1>12, <1>15
    <2>2. /\ mem'[call'.node].key \in Block("key")' /\ mem'[mem'[call'.node].key] = call'.key
          /\ mem'[call'.node].next = NULL /\ mem'[call'.node].value = NULL
          /\ call'.node \in Nodes' /\ call'.node # NULL
          /\ call'.given \in Block("value")' \cup {NULL}
      BY <1>1, <1>2, <1>7, <1>8, <1>11, <1>12
    <2>3. QED
      BY <1>0, <1>2, <1>12, <2>1, <2>2 DEF PendingInv, key_of
  <1>23. BeforeInv'
    <2>1. Represents(before)'
      BY <1>0, <1>1, <1>18, <1>19 DEF Represents
    <2>2. QED
      BY <1>12, <2>1 DEF BeforeInv
  <1>24. ListInv'
    <2>1. ASSUME NEW home, NEW rank, Shape(home, rank)
          PROVE  Position(home, rank)'
      BY <1>12, <1>19, <2>1 DEF Shape, Position, index_of
    <2>2. QED
      BY <1>17, <1>19, <2>1, ListsAlike
  <1>25. QED
    BY <1>14, <1>16, <1>19, <1>20, <1>21, <1>22, <1>23, <1>24 DEF HashInv

\* The value of the pending node is set, to a copy or to what was given.
ValueStored(v) ==
    /\ call.pc = "value" /\ call' = ToWalk
    /\ UNCHANGED <<value_cloner, table, before>>
    /\ MemoryType' /\ DOMAIN mem' = DOMAIN mem \cup {v}
    /\ Nodes' = Nodes /\ Block("key")' = Block("key")
    /\ Block("value")' = Block("value") \cup {v}
    /\ mem'[v] = call.value /\ v \in Names /\ v \notin Nodes
    /\ \A b \in DOMAIN mem \ {call.node} : mem'[b] = mem[b]
    /\ mem'[call.node] = [mem[call.node] EXCEPT !.value = v]
    /\ \A n \in Kept : mem[n].value # v
    /\ call.given \in {NULL, v}

LEMMA ValueStoredKeepsInv ==
  ASSUME HashInv, NEW v, ValueStored(v)
  PROVE  HashInv'
  <1>0. /\ call.pc = "value" /\ call' = ToWalk
        /\ value_cloner' = value_cloner /\ table' = table /\ before' = before
    BY DEF ValueStored
  <1>1. /\ call.fn = "insert" /\ table = Table /\ call \in CallType
        /\ Holders = Nodes /\ Kept = InTable /\ NULL \notin Nodes
        /\ Array \in DOMAIN mem /\ mem[Array] \in [Indices -> Names]
    BY <1>0, Inserting
  <1>2. /\ call.node \in Nodes /\ call.node \notin InTable /\ Nodes = InTable \cup {call.node}
        /\ call.node \in DOMAIN mem /\ call.node # Array
        /\ mem[call.node] \in [key : Names, value : Names, next : Names]
        /\ mem[call.node].next = NULL /\ mem[call.node].value = NULL
        /\ mem[call.node].key \in Block("key") /\ key_of(call.node) = call.key
        /\ (call.given # NULL <=> ~value_cloner) /\ call.prev = NULL
    BY <1>0, PendingNode
  <1>3. /\ call.key \in Keys /\ call.index = index_of(call.key) /\ call.index \in Indices
        /\ call.value \in Values
    BY <1>0, <1>1, SearchedList DEF HashInv, ProtocolInv
  <1>4. /\ MemoryType' /\ DOMAIN mem' = DOMAIN mem \cup {v}
        /\ Nodes' = Nodes /\ Block("key")' = Block("key")
        /\ Block("value")' = Block("value") \cup {v}
        /\ mem'[v] = call.value /\ v \in Names /\ v \notin Nodes
        /\ call.given \in {NULL, v}
        /\ \A n \in InTable : mem[n].value # v
    BY <1>1 DEF ValueStored
  <1>5. v # NULL
    <2>1. NULL \notin DOMAIN mem'
      BY <1>4, NullIsNoBlock DEF MemoryType
    <2>2. QED
      BY <1>4, <2>1
  <1>6. /\ \A b \in DOMAIN mem : b # call.node => mem'[b] = mem[b]
        /\ mem'[call.node] = [mem[call.node] EXCEPT !.value = v]
    BY DEF ValueStored
  <1>7. /\ mem'[call.node] \in [key : Names, value : Names, next : Names]
        /\ mem'[call.node].key = mem[call.node].key /\ mem'[call.node].value = v
        /\ mem'[call.node].next = NULL
    BY <1>2, <1>4, <1>6
  <1>8. /\ call'.fn = call.fn /\ call'.pc = "walk" /\ call'.key = call.key
        /\ call'.value = call.value /\ call'.given = call.given /\ call'.node = call.node
        /\ call'.index = call.index /\ call'.prev = call.prev
        /\ call'.list = mem[Array][call.index] /\ call'.current = mem[Array][call.index]
    BY <1>0, <1>1 DEF CallType, ToWalk
  <1>9. call' \in CallType
    <2>1. mem[Array][call.index] \in Names
      BY <1>1, <1>3
    <2>2. QED
      BY <1>0, <1>1, <2>1 DEF CallType, ToWalk
  <1>10. TypeInv'
    BY <1>0, <1>9 DEF HashInv, TypeInv
  <1>11. /\ Nodes \subseteq DOMAIN mem /\ Block("key") \subseteq DOMAIN mem
         /\ Block("value") \subseteq DOMAIN mem
         /\ call.node \notin Block("key") /\ call.node \notin Block("value")
         /\ NULL \notin Block("key") /\ NULL \notin Block("value")
    BY <1>2, BlocksDiffer DEF Nodes, Block, Kinds
  <1>12. MemInv'
    <2>1. MemInv
      BY DEF HashInv
    <2>2. {Table, Array} \subseteq DOMAIN mem' /\ mem'[Array] \in [Indices -> Names]
      BY <1>1, <1>2, <1>4, <1>6, <2>1 DEF MemInv
    <2>3. \A n \in Nodes' : mem'[n] \in [key : Names, value : Names, next : Names]
      BY <1>4, <1>6, <1>7, <1>11, <2>1 DEF MemInv
    <2>4. \A k \in Block("key")' : mem'[k] \in Keys
      BY <1>4, <1>6, <1>11, <2>1 DEF MemInv
    <2>5. \A w \in Block("value")' : mem'[w] \in Values
      BY <1>3, <1>4, <1>6, <1>11, <2>1 DEF MemInv
    <2>6. QED
      BY <1>4, <2>2, <2>3, <2>4, <2>5 DEF MemInv
  <1>13. InTable' = InTable /\ Holders' = Nodes
    BY <1>4, <1>8 DEF InTable, Holders
  <1>14. \A n \in InTable : /\ mem'[n] = mem[n]
                            /\ mem'[mem[n].key] = mem[mem[n].key]
                            /\ mem'[mem[n].value] = mem[mem[n].value]
    BY <1>1, <1>2, <1>6, <1>11, NodeHolds
  <1>15. /\ Kept' = Kept /\ Heads' = Heads /\ Nexts' = Nexts
         /\ \A n \in Kept : key_of(n)' = key_of(n)
         /\ KeysInv'
         /\ Represents(before)
         /\ \A f : Represents(f)' <=> Represents(f)
    BY <1>0, <1>1, <1>2, <1>6, <1>8, <1>13, <1>14, OthersStay
  <1>16. ProtocolInv'
    BY <1>0, <1>1, <1>8 DEF HashInv, ProtocolInv, index_of, Table, NULL
  <1>17. HoldInv'
    <2>1. HoldInv
      BY DEF HashInv
    <2>2. \A n \in Nodes : n # call.node => mem'[n] = mem[n] /\ mem[n].value # v /\ n \in InTable
      BY <1>1, <1>2, <1>4, <1>14
    <2>3. \A n \in Holders' : /\ mem'[n].key \in Block("key")' \cup {NULL}
                              /\ mem'[n].value \in Block("value")' \cup {NULL}
      BY <1>1, <1>2, <1>4, <1>7, <1>13, <2>1, <2>2 DEF HoldInv
    <2>4. \A n \in Kept' : /\ mem'[n].key # NULL /\ mem'[n].value # NULL
                           /\ mem'[n].value # call'.given
      BY <1>1, <1>8, <1>14, <1>15, <2>1 DEF HoldInv
    <2>5. \A l, n \in Holders' :
            /\ mem'[l].key = mem'[n].key /\ mem'[l].key # NULL => l = n
            /\ mem'[l].value = mem'[n].value /\ mem'[l].value # NULL => l = n
      BY <1>1, <1>7, <1>13, <2>1, <2>2 DEF HoldInv
    <2>6. \A k \in Block("key")' : \E n \in Holders' : mem'[n].key = k
      BY <1>1, <1>2, <1>4, <1>7, <1>13, <2>1, <2>2 DEF HoldInv
    <2>7. \A w \in Block("value")' : w = call'.given \/ \E n \in Holders' : mem'[n].value = w
      BY <1>1, <1>2, <1>4, <1>7, <1>8, <1>11, <1>13, <2>1, <2>2 DEF HoldInv
    <2>8. QED
      BY <2>3, <2>4, <2>5, <2>6, <2>7 DEF HoldInv
  <1>18. PendingInv'
    <2>1. call'.given # NULL => mem'[call'.given] = call'.value
      BY <1>4, <1>8
    <2>2. /\ mem'[call'.node].key \in Block("key")' /\ mem'[mem'[call'.node].key] = call'.key
          /\ mem'[call'.node].next = NULL /\ mem'[call'.node].value \in Block("value")'
          /\ mem'[mem'[call'.node].value] = call'.value
          /\ call'.given \in {NULL, mem'[call'.node].value}
          /\ call'.node \in Nodes' /\ call'.node # NULL
          /\ call'.given \in Block("value")' \cup {NULL}
      <3>1. mem[mem[call.node].key] = call.key
        BY <1>2 DEF key_of
      <3>2. QED
        BY <1>1, <1>2, <1>4, <1>6, <1>7, <1>8, <1>11, <3>1
    <2>3. QED
      BY <1>0, <1>2, <1>8, <2>1, <2>2 DEF PendingInv, key_of
  <1>19. BeforeInv'
    <2>1. Represents(before)'
      BY <1>0, <1>1, <1>14, <1>15 DEF Represents
    <2>2. QED
      BY <1>8, <2>1 DEF BeforeInv
  <1>20. ListInv'
    <2>1. ASSUME NEW home, NEW rank, Shape(home, rank)
          PROVE  Position(home, rank)'
      <3>1. \A n \in Kept : index_of(key_of(n)) = home[n]
        BY <2>1 DEF Shape, Position
      <3>2. /\ Heads[call.index] \in InTable \cup {NULL}
            /\ Heads[call.index] # NULL => home[Heads[call.index]] = call.index
            /\ \A n \in Kept : key_of(n) = call.key =>
                 Heads[call.index] # NULL /\ rank[n] >= rank[Heads[call.index]]
        BY <1>3, <2>1, StartOfList
      <3>3. Heads[call.index] = mem[Array][call.index]
        BY <1>0, <1>1, <1>3 DEF Heads, Table, NULL
      <3>4. QED
        BY <1>2, <1>8, <1>13, <1>15, <3>1, <3>2, <3>3 DEF Position, index_of
    <2>2. QED
      BY <1>13, <1>15, <2>1, ListsAlike
  <1>21. QED
    BY <1>10, <1>12, <1>15, <1>16, <1>17, <1>18, <1>19, <1>20 DEF HashInv

LEMMA ValueTakenOver ==
  ASSUME HashInv, call.pc = "value", ~value_cloner,
         mem' = [mem EXCEPT ![call.node].value = call.given], call' = ToWalk,
         UNCHANGED <<value_cloner, table, before>>
  PROVE  ValueStored(call.given)
  <1>1. /\ call.node \in DOMAIN mem /\ call.given \in Block("value")
        /\ call.node \in Nodes /\ mem[call.given] = call.value
    BY PendingNode
  <1>2. /\ call.given \in DOMAIN mem /\ call.given # call.node
        /\ call.given \in Names /\ call.given \notin Nodes
    BY <1>1, BlocksDiffer DEF Kinds
  <1>3. DOMAIN mem' = DOMAIN mem
    OBVIOUS
  <1>4. \A kind : Block(kind)' = Block(kind)
    BY <1>3 DEF Block
  <1>5. MemoryType'
    BY <1>3 DEF HashInv, MemInv, MemoryType
  <1>6. /\ \A b \in DOMAIN mem \ {call.node} : mem'[b] = mem[b]
        /\ mem'[call.node] = [mem[call.node] EXCEPT !.value = call.given]
    BY <1>1
  <1>7. \A n \in Kept : mem[n].value # call.given
    BY DEF HashInv, HoldInv
  <1>8. Nodes' = Nodes
    BY <1>4 DEF Nodes
  <1>9. mem'[call.given] = call.value
    BY <1>1, <1>2, <1>6
  <1>10. QED
    BY <1>1, <1>2, <1>3, <1>4, <1>5, <1>6, <1>7, <1>8, <1>9 DEF ValueStored

ValueCloned(x, m) ==
    /\ call.pc = "value" /\ value_cloner
    /\ x = New("value") /\ m = [mem EXCEPT ![call.node].value = x]
    /\ mem' = With(m, x, call.value) /\ call' = ToWalk
    /\ UNCHANGED <<value_cloner, table, before>>

LEMMA ValueCopied ==
  ASSUME HashInv, NEW x, NEW m, ValueCloned(x, m)
  PROVE  ValueStored(x)
  <1>1. /\ call.pc = "value" /\ value_cloner /\ call' = ToWalk
        /\ UNCHANGED <<value_cloner, table, before>>
    BY DEF ValueCloned
  <1>2. /\ call.node \in DOMAIN mem /\ call.node \in Nodes /\ call.given = NULL
    BY <1>1, PendingNode
  <1>3. MemoryType /\ "value" \in Kinds
    BY DEF HashInv, MemInv, Kinds
  <1>4. DOMAIN m = DOMAIN mem /\ x = New("value") /\ mem' = With(m, x, call.value)
    BY DEF ValueCloned
  <1>5. Grows(m, "value", x, call.value)
    BY <1>3, <1>4, Allocated
  <1>6. /\ MemoryType' /\ x \notin DOMAIN mem /\ x \in {"value"} \X Nat
        /\ DOMAIN mem' = DOMAIN mem \cup {x} /\ mem'[x] = call.value
        /\ \A b \in DOMAIN mem : mem'[b] = m[b]
    BY <1>5 DEF Grows
  <1>7. /\ Nodes' = Nodes /\ Block("key")' = Block("key")
        /\ Block("value")' = Block("value") \cup {x}
    BY <1>5 DEF Grows, Kinds, Nodes
  <1>8. /\ \A b \in DOMAIN mem \ {call.node} : mem'[b] = mem[b]
        /\ mem'[call.node] = [mem[call.node] EXCEPT !.value = x]
    BY <1>2, <1>6 DEF ValueCloned
  <1>9. x \in Names /\ x \notin Nodes
    BY <1>6 DEF Names, Kinds, Nodes, Block
  <1>10. \A n \in Kept : mem[n].value # x
    BY <1>6, NodeHolds DEF Block
  <1>11. QED
    BY <1>1, <1>2, <1>6, <1>7, <1>8, <1>9, <1>10 DEF ValueStored

\* A failed insertion frees what it has and leaves the table as it was.
LEMMA CleanupKeepsInv ==
  ASSUME HashInv, InsertCleanup
  PROVE  HashInv' /\ Represents(before)'
  <1> DEFINE blocks == {call.node, call.given}
                       \cup IF call.node = NULL THEN {}
                            ELSE {mem[call.node].key, mem[call.node].value}
  <1>0. /\ call.pc = "cleanup" /\ call' = NoCall /\ mem' = Without(mem, blocks)
        /\ value_cloner' = value_cloner /\ table' = table /\ before' = before
    BY DEF InsertCleanup, Return
  <1>1. /\ call.fn = "insert" /\ table = Table /\ call \in CallType
        /\ Holders = Nodes /\ Kept = InTable /\ NULL \notin Nodes
        /\ call.node \in Nodes \cup {NULL}
        /\ Array \in DOMAIN mem /\ mem[Array] \in [Indices -> Names]
    BY <1>0, Inserting
  <1>2. /\ DOMAIN mem' = DOMAIN mem \ blocks
        /\ \A b \in DOMAIN mem \ blocks : mem'[b] = mem[b]
    BY <1>0 DEF Without
  <1>3. /\ MemoryType' /\ Nodes' = Nodes \ blocks /\ Block("key")' = Block("key") \ blocks
        /\ Block("value")' = Block("value") \ blocks
    <2>1. MemoryType /\ "node" \in Kinds /\ "key" \in Kinds /\ "value" \in Kinds
      BY DEF HashInv, MemInv, Kinds
    <2> HIDE DEF blocks
    <2>2. QED
      BY <1>2, <2>1, Released DEF Nodes
  <1>4. /\ HoldInv /\ call.given \in Block("value") \cup {NULL}
        /\ call.node # NULL => /\ mem[call.node].value = NULL
                               /\ mem[call.node].key \in Block("key") \cup {NULL}
    BY <1>0, <1>1 DEF HashInv, PendingInv, HoldInv
  <1>5. /\ Nodes \cap Block("key") = {} /\ Nodes \cap Block("value") = {}
        /\ Block("key") \cap Block("value") = {}
        /\ NULL \notin Block("key") /\ NULL \notin Block("value")
        /\ Table \notin Nodes \cup Block("key") \cup Block("value") \cup {NULL}
        /\ Array \notin Nodes \cup Block("key") \cup Block("value") \cup {NULL}
    BY BlocksDiffer, NullIsNoBlock DEF Nodes, Kinds
  <1>6. blocks \subseteq Nodes \cup Block("key") \cup Block("value") \cup {NULL}
    BY <1>1, <1>4
  <1>7. /\ Nodes' = Nodes \ {call.node} /\ Block("value")' = Block("value") \ {call.given}
        /\ Block("key")' = Block("key") \ {k \in {mem[call.node].key} : call.node # NULL}
    BY <1>1, <1>3, <1>4, <1>5
  <1>8. Table \notin blocks /\ Array \notin blocks
    BY <1>5, <1>6
  <1> HIDE DEF blocks
  <1>9. /\ call'.fn = "none" /\ call'.pc = "idle" /\ call'.node = NULL /\ call'.given = NULL
    BY <1>0 DEF NoCall
  <1>10. TypeInv'
    BY <1>0, NoCallType DEF HashInv, TypeInv
  <1>11. /\ Nodes \subseteq DOMAIN mem /\ Block("key") \subseteq DOMAIN mem
         /\ Block("value") \subseteq DOMAIN mem
    BY DEF Nodes, Block
  <1>12. /\ \A n \in Nodes' : n \in Nodes /\ mem'[n] = mem[n]
         /\ \A k \in Block("key")' : k \in Block("key") /\ mem'[k] = mem[k]
         /\ \A v \in Block("value")' : v \in Block("value") /\ mem'[v] = mem[v]
    BY <1>2, <1>3, <1>11
  <1>13. MemInv'
    <2>1. MemInv
      BY DEF HashInv
    <2>2. {Table, Array} \subseteq DOMAIN mem' /\ mem'[Array] \in [Indices -> Names]
      BY <1>1, <1>2, <1>8, <2>1 DEF MemInv
    <2>3. QED
      BY <1>3, <1>12, <2>1, <2>2 DEF MemInv
  <1>14. InTable' = InTable /\ Holders' = InTable
    BY <1>1, <1>7, <1>9 DEF InTable, Holders
  <1>15. \A n \in InTable : /\ n \in Nodes' /\ mem'[n] = mem[n]
                            /\ mem[n].key \in Block("key")' /\ mem'[mem[n].key] = mem[mem[n].key]
                            /\ mem[n].value \in Block("value")'
                            /\ mem'[mem[n].value] = mem[mem[n].value]
    <2> TAKE n \in InTable
    <2>1. n \in Nodes' /\ n \in Nodes /\ n # call.node
      BY <1>7 DEF InTable
    <2>2. mem[n].key \in Block("key") /\ mem[n].value \in Block("value")
      BY <1>1, NodeHolds
    <2>3. mem[n].value # call.given
      BY <1>1, <1>4 DEF HoldInv
    <2>4. call.node # NULL => mem[n].key # mem[call.node].key
      BY <1>1, <1>4, <1>5, <2>1, <2>2 DEF HoldInv
    <2>5. mem[n].key \in Block("key")' /\ mem[n].value \in Block("value")'
      BY <1>7, <2>2, <2>3, <2>4
    <2>6. QED
      BY <1>12, <2>1, <2>5
  <1>16. mem'[Array] = mem[Array]
    BY <1>1, <1>2, <1>8
  <1>17. /\ Kept' = Kept /\ Heads' = Heads /\ Nexts' = Nexts
         /\ \A n \in Kept : key_of(n)' = key_of(n)
         /\ KeysInv'
         /\ Represents(before)
         /\ \A f : Represents(f)' <=> Represents(f)
    BY <1>0, <1>9, <1>14, <1>15, <1>16, OthersStay
  <1>18. ProtocolInv' /\ PendingInv'
    BY <1>0, <1>9 DEF ProtocolInv, PendingInv
  <1>19. HoldInv'
    <2>1. \A n \in Holders' : /\ mem'[n].key \in Block("key")' \cup {NULL}
                              /\ mem'[n].value \in Block("value")' \cup {NULL}
      BY <1>14, <1>15
    <2>2. \A n \in Kept' : /\ mem'[n].key # NULL /\ mem'[n].value # NULL
                           /\ mem'[n].value # call'.given
      BY <1>1, <1>4, <1>9, <1>15, <1>17 DEF HoldInv
    <2>3. \A l, n \in Holders' :
            /\ mem'[l].key = mem'[n].key /\ mem'[l].key # NULL => l = n
            /\ mem'[l].value = mem'[n].value /\ mem'[l].value # NULL => l = n
      <3>1. \A n \in InTable : n \in Holders
        BY <1>1, <1>15, <1>12
      <3>2. QED
        BY <1>4, <1>14, <1>15, <3>1 DEF HoldInv
    <2>4. \A k \in Block("key")' : \E n \in Holders' : mem'[n].key = k
      <3> TAKE k \in Block("key")'
      <3>1. k \in Block("key") /\ (call.node # NULL => k # mem[call.node].key)
        BY <1>7
      <3>2. PICK n \in Nodes : mem[n].key = k
        BY <1>1, <1>4, <3>1 DEF HoldInv
      <3>3. n \in InTable
        BY <1>1, <3>1, <3>2 DEF InTable
      <3>4. QED
        BY <1>14, <1>15, <3>2, <3>3
    <2>5. \A v \in Block("value")' : v = call'.given \/ \E n \in Holders' : mem'[n].value = v
      <3> TAKE v \in Block("value")'
      <3>1. v \in Block("value") /\ v # call.given
        BY <1>7
      <3>2. PICK n \in Nodes : mem[n].value = v
        BY <1>1, <1>4, <3>1 DEF HoldInv
      <3>3. n \in InTable
        BY <1>1, <1>4, <1>5, <3>1, <3>2 DEF InTable
      <3>4. QED
        BY <1>14, <1>15, <3>2, <3>3
    <2>6. QED
      BY <2>1, <2>2, <2>3, <2>4, <2>5 DEF HoldInv
  <1>20. BeforeInv'
    BY <1>9 DEF BeforeInv
  <1>21. Represents(before)'
    BY <1>0, <1>1, <1>15, <1>17 DEF Represents
  <1>22. ListInv'
    <2>1. ASSUME NEW home, NEW rank, Shape(home, rank)
          PROVE  Position(home, rank)'
      BY <1>9, <1>17, <2>1 DEF Shape, Position, index_of
    <2>2. QED
      BY <1>14, <1>17, <2>1, ListsAlike
  <1>23. QED
    BY <1>10, <1>13, <1>17, <1>18, <1>19, <1>20, <1>21, <1>22 DEF HashInv

-----------------------------------------------------------------------------
(***************************************************************************)
(* Taking a node out of its list.                                          *)
(***************************************************************************)
\* The node being searched for was found.
LEMMA FoundNode ==
  ASSUME HashInv, call.pc \in {"found", "unlink"}
  PROVE  /\ call.fn \in {"insert", "delete"} /\ table = Table /\ call \in CallType
         /\ call.current \in InTable /\ call.current \in Nodes /\ call.current # call.node
         /\ call.key \in Keys /\ call.index = index_of(call.key) /\ call.index \in Indices
         /\ call.prev \in InTable \cup {NULL} /\ NULL \notin Nodes
         /\ Array \in DOMAIN mem /\ mem[Array] \in [Indices -> Names]
         /\ call.pc = "found" => key_of(call.current) = call.key
  <1>1. call.fn \in {"insert", "delete"} /\ table = Table /\ call \in CallType
    BY WhoseStep, CallFields
  <1>2. PICK home, rank : Shape(home, rank)
    BY DEF HashInv, ListInv
  <1>3. /\ call.current \in InTable
        /\ call.prev \in InTable \cup {NULL}
        /\ call.pc = "found" => key_of(call.current) = call.key
    BY <1>2 DEF Shape, Position
  <1>4. call.key \in Keys /\ call.index = index_of(call.key) /\ call.index \in Indices
    BY SearchedList
  <1>5. NULL \notin Nodes
    BY BlocksDiffer DEF Nodes, Kinds
  <1>6. Array \in DOMAIN mem /\ mem[Array] \in [Indices -> Names]
    BY <1>1 DEF HashInv, MemInv
  <1>7. call.current \in Nodes /\ call.current # call.node
    BY <1>3 DEF InTable
  <1>8. QED
    BY <1>1, <1>3, <1>4, <1>5, <1>6, <1>7

\* The pending node of the insertion that replaces it.
LEMMA ReplacingNode ==
  ASSUME HashInv, call.pc \in {"walk", "found", "unlink", "link"}, call.node # NULL
  PROVE  /\ call.node \in Nodes /\ mem[call.node].next = NULL
         /\ mem[call.node].key \in Block("key") /\ mem[mem[call.node].key] = call.key
         /\ mem[call.node].value \in Block("value")
         /\ mem[mem[call.node].value] = call.value
         /\ call.given \in {NULL, mem[call.node].value}
  BY DEF HashInv, PendingInv, key_of

LEMMA DeallocateKeepsInv ==
  ASSUME HashInv, Deallocate
  PROVE  HashInv'
  <1> DEFINE x == call.current
             blocks == {mem[x].key, mem[x].value}
  <1>0. /\ call.pc = "found" /\ call' = [call EXCEPT !.pc = "unlink"]
        /\ mem' = Without(mem, blocks)
        /\ value_cloner' = value_cloner /\ table' = table /\ before' = before
    BY DEF Deallocate, Go
  <1>1. /\ call.fn \in {"insert", "delete"} /\ table = Table /\ call \in CallType
        /\ x \in InTable /\ x \in Nodes /\ x # call.node
        /\ call.key \in Keys
        /\ Array \in DOMAIN mem /\ mem[Array] \in [Indices -> Names]
        /\ key_of(x) = call.key
    BY <1>0, FoundNode
  <1>2. Holders = Nodes /\ Kept = InTable
    BY <1>0 DEF Holders, Kept, InTable
  <1>3. /\ call'.fn = call.fn /\ call'.pc = "unlink" /\ call'.key = call.key
        /\ call'.value = call.value /\ call'.given = call.given /\ call'.node = call.node
        /\ call'.list = call.list /\ call'.index = call.index
        /\ call'.prev = call.prev /\ call'.current = x
    BY <1>0, <1>1 DEF CallType
  <1>4. call' \in CallType
    BY <1>0, <1>1 DEF CallType
  <1>5. TypeInv'
    BY <1>0, <1>4 DEF HashInv, TypeInv
  <1>6. mem[x].key \in Block("key") /\ mem[x].value \in Block("value")
    BY <1>1, <1>2, NodeHolds
  <1>7. /\ DOMAIN mem' = DOMAIN mem \ blocks
        /\ \A b \in DOMAIN mem \ blocks : mem'[b] = mem[b]
    BY <1>0 DEF Without
  <1>8. /\ MemoryType' /\ Nodes' = Nodes \ blocks /\ Block("key")' = Block("key") \ blocks
        /\ Block("value")' = Block("value") \ blocks
    <2>1. MemoryType /\ "node" \in Kinds /\ "key" \in Kinds /\ "value" \in Kinds
      BY DEF HashInv, MemInv, Kinds
    <2> HIDE DEF blocks
    <2>2. QED
      BY <1>7, <2>1, Released DEF Nodes
  <1>9. /\ Nodes \cap Block("key") = {} /\ Nodes \cap Block("value") = {}
        /\ Block("key") \cap Block("value") = {}
        /\ NULL \notin Block("key") /\ NULL \notin Block("value")
        /\ Table \notin Block("key") \cup Block("value")
        /\ Array \notin Block("key") \cup Block("value")
    BY BlocksDiffer DEF Nodes, Kinds
  <1>10. /\ Nodes' = Nodes /\ Block("value")' = Block("value") \ {mem[x].value}
         /\ Block("key")' = Block("key") \ {mem[x].key}
         /\ Table \notin blocks /\ Array \notin blocks
    BY <1>6, <1>8, <1>9
  <1>11. /\ Nodes \subseteq DOMAIN mem /\ Block("key") \subseteq DOMAIN mem
         /\ Block("value") \subseteq DOMAIN mem
    BY DEF Nodes, Block
  <1> HIDE DEF blocks
  <1>12. /\ \A n \in Nodes' : n \in Nodes /\ mem'[n] = mem[n]
         /\ \A k \in Block("key")' : k \in Block("key") /\ mem'[k] = mem[k]
         /\ \A v \in Block("value")' : v \in Block("value") /\ mem'[v] = mem[v]
    BY <1>7, <1>8, <1>11
  <1>13. MemInv'
    <2>1. MemInv
      BY DEF HashInv
    <2>2. {Table, Array} \subseteq DOMAIN mem' /\ mem'[Array] \in [Indices -> Names]
      BY <1>1, <1>7, <1>10, <2>1 DEF MemInv
    <2>3. QED
      BY <1>8, <1>12, <2>1, <2>2 DEF MemInv
  <1>14. mem'[Array] = mem[Array]
    BY <1>1, <1>7, <1>10
  <1>15. /\ InTable' = InTable /\ Holders' = Nodes \ {x} /\ Kept' = InTable \ {x}
         /\ Nexts' = Nexts
    <2>1. InTable' = InTable /\ Holders' = Nodes \ {x}
      BY <1>3, <1>10 DEF InTable, Holders
    <2>2. \A n \in InTable : mem'[n] = mem[n]
      BY <1>10, <1>12 DEF InTable
    <2>3. Kept' = InTable \ {x}
      BY <2>1 DEF Kept, InTable
    <2>4. QED
      BY <2>1, <2>2, <2>3 DEF Nexts
  <1>16. Heads' = Heads
    BY <1>0, <1>1, <1>3, <1>14 DEF Heads
  \* What the other nodes hold is not freed.
  <1>17. ASSUME NEW n \in Nodes, n # x
         PROVE  /\ mem'[n] = mem[n]
                /\ mem[n].key \in Block("key") =>
                     mem[n].key \in Block("key")' /\ mem'[mem[n].key] = mem[mem[n].key]
                /\ mem[n].value \in Block("value") =>
                     mem[n].value \in Block("value")' /\ mem'[mem[n].value] = mem[mem[n].value]
    <2>1. /\ mem[n].key \in Block("key") => mem[n].key # mem[x].key
          /\ mem[n].value \in Block("value") => mem[n].value # mem[x].value
      BY <1>1, <1>2, <1>9, <1>17 DEF HashInv, HoldInv
    <2>2. QED
      BY <1>10, <1>12, <2>1
  <1>18. \A n \in Kept' : /\ n \in Kept /\ n # x /\ mem'[n] = mem[n]
                          /\ key_of(n)' = key_of(n) /\ key_of(n) # call.key
                          /\ mem'[mem[n].value] = mem[mem[n].value]
    <2> TAKE n \in Kept'
    <2>1. n \in Kept /\ n # x /\ n \in Nodes /\ x \in Kept
      BY <1>1, <1>2, <1>15 DEF Kept, InTable
    <2>2. mem[n].key \in Block("key") /\ mem[n].value \in Block("value")
      BY <2>1, NodeHolds
    <2>3. key_of(n)' = key_of(n)
      BY <1>17, <2>1, <2>2 DEF key_of
    <2>4. key_of(n) # call.key
      BY <1>1, <2>1 DEF HashInv, KeysInv
    <2>5. QED
      BY <1>17, <2>1, <2>2, <2>3, <2>4
  <1>19. KeysInv'
    BY <1>18 DEF HashInv, KeysInv
  <1>20. ProtocolInv'
    BY <1>0, <1>1, <1>3 DEF HashInv, ProtocolInv, index_of, Table, NULL
  <1>21. HoldInv'
    <2>1. HoldInv
      BY DEF HashInv
    <2>2. \A n \in Holders' : /\ n \in Nodes /\ n # x /\ mem'[n] = mem[n]
                              /\ mem'[n].key \in Block("key")' \cup {NULL}
                              /\ mem'[n].value \in Block("value")' \cup {NULL}
      <3>1. \A n \in Holders' : n \in Nodes /\ n # x
        BY <1>15
      <3>2. \A n \in Nodes : /\ mem[n].key \in Block("key") \cup {NULL}
                             /\ mem[n].value \in Block("value") \cup {NULL}
        BY <1>2, <2>1 DEF HoldInv
      <3>3. QED
        BY <1>17, <3>1, <3>2
    <2>3. \A n \in Kept' : /\ mem'[n].key # NULL /\ mem'[n].value # NULL
                           /\ mem'[n].value # call'.given
      BY <1>3, <1>18, <2>1 DEF HoldInv
    <2>4. \A l, n \in Holders' :
            /\ mem'[l].key = mem'[n].key /\ mem'[l].key # NULL => l = n
            /\ mem'[l].value = mem'[n].value /\ mem'[l].value # NULL => l = n
      BY <1>2, <2>1, <2>2 DEF HoldInv
    <2>5. \A k \in Block("key")' : \E n \in Holders' : mem'[n].key = k
      <3> TAKE k \in Block("key")'
      <3>1. k \in Block("key") /\ k # mem[x].key
        BY <1>10
      <3>2. PICK n \in Nodes : mem[n].key = k
        BY <1>2, <2>1, <3>1 DEF HoldInv
      <3>3. QED
        BY <1>15, <1>17, <3>1, <3>2
    <2>6. \A v \in Block("value")' : v = call'.given \/ \E n \in Holders' : mem'[n].value = v
      <3> TAKE v \in Block("value")'
      <3>1. v \in Block("value") /\ v # mem[x].value
        BY <1>10
      <3>2. CASE v = call.given
        BY <1>3, <3>2
      <3>3. CASE \E n \in Nodes : mem[n].value = v
        BY <1>15, <1>17, <3>1, <3>3
      <3>4. QED
        BY <1>2, <2>1, <3>1, <3>2, <3>3 DEF HoldInv
    <2>7. QED
      BY <2>2, <2>3, <2>4, <2>5, <2>6 DEF HoldInv
  <1>22. PendingInv'
    <2>1. /\ call.given \in Block("value") \cup {NULL} /\ call.node \in Nodes \cup {NULL}
          /\ call.fn = "insert" => call.node # NULL
          /\ call.given # NULL => mem[call.given] = call.value
          /\ call.fn = "insert" => (call.given # NULL <=> ~value_cloner)
      BY <1>0 DEF HashInv, PendingInv
    <2>2. call.given # mem[x].value
      BY <1>1, <1>2 DEF HashInv, HoldInv
    <2>3. /\ call.given \in Block("value")' \cup {NULL}
          /\ call.given # NULL => mem'[call.given] = call.value
      BY <1>10, <1>12, <2>1, <2>2
    <2>4. call.node # NULL =>
            /\ mem'[call.node].next = NULL
            /\ mem'[call.node].key \in Block("key")' /\ mem'[mem'[call.node].key] = call.key
            /\ mem'[call.node].value \in Block("value")'
            /\ mem'[mem'[call.node].value] = call.value
            /\ call.given \in {NULL, mem'[call.node].value}
      BY <1>0, <1>1, <1>17, ReplacingNode
    <2>5. QED
      BY <1>0, <1>3, <1>10, <2>1, <2>3, <2>4 DEF PendingInv, key_of
  <1>23. BeforeInv'
    <2>1. Represents(before) /\ before \in Mapping
      BY <1>0 DEF HashInv, BeforeInv, TypeInv
    <2> DEFINE f == [before EXCEPT ![call.key] = NoValue]
    <2>2. \A k \in Keys : f[k] = IF k = call.key THEN NoValue ELSE before[k]
      BY <2>1 DEF Mapping
    <2> HIDE DEF f
    <2>3. \A n \in Kept' : f[key_of(n)] = mem[mem[n].value]
      BY <1>18, <2>1, <2>2, NodeHolds DEF Represents
    <2>4. \A k \in Keys : f[k] # NoValue => \E n \in Kept' : key_of(n) = k
      BY <1>1, <1>2, <1>15, <2>1, <2>2 DEF Represents
    <2>5. \A n \in Kept' : f[key_of(n)'] = mem'[mem'[n].value]
      BY <1>18, <2>3
    <2>6. \A k \in Keys : f[k] # NoValue => \E n \in Kept' : key_of(n)' = k
      BY <1>18, <2>4
    <2>7. [before EXCEPT ![call.key] = NoValue]' = f
      BY <1>0, <1>3 DEF f
    <2>8. Represents([before EXCEPT ![call.key] = NoValue])'
      BY <2>5, <2>6, <2>7 DEF Represents
    <2>9. QED
      BY <1>3, <2>8 DEF BeforeInv
  <1>24. ListInv'
    <2>1. ASSUME NEW home, NEW rank, Shape(home, rank)
          PROVE  Position(home, rank)'
      <3>1. \A n \in Kept' : index_of(key_of(n)') = home[n] /\ key_of(n)' # call.key
        BY <1>18, <2>1 DEF Shape, Position
      <3>2. /\ call.list = Heads[call.index]
            /\ call.current \in InTable \cup {NULL}
            /\ call.prev \in InTable \cup {NULL}
            /\ call.prev = NULL => call.current = call.list
            /\ call.prev # NULL => /\ home[call.prev] = call.index
                                   /\ mem[call.prev].next = call.current
            /\ call.current # NULL => home[call.current] = call.index
        BY <1>0, <2>1 DEF Shape, Position
      <3>3. call.prev # NULL => mem'[call.prev] = mem[call.prev]
        BY <1>10, <1>12, <3>2 DEF InTable
      <3>4. x # NULL
        BY <1>1, <1>11, NullIsNoBlock DEF HashInv, MemInv, MemoryType
      <3>5. QED
        BY <1>3, <1>15, <1>16, <3>1, <3>2, <3>3, <3>4 DEF Position, index_of
    <2>2. QED
      BY <1>15, <1>16, <2>1, ListsAlike
  <1>25. QED
    BY <1>5, <1>13, <1>19, <1>20, <1>21, <1>22, <1>23, <1>24 DEF HashInv

\* What list_delete does to the memory, and the list it returns.
Unlinked(list) ==
    LET x == call.current
        next == mem[x].next
    IN  /\ list = IF call.prev = NULL THEN next ELSE call.list
        /\ DOMAIN mem' = DOMAIN mem \ {x}
        /\ \A b \in DOMAIN mem \ {x, Array} : b # call.prev => mem'[b] = mem[b]
        /\ call.prev # NULL => mem'[call.prev] = [mem[call.prev] EXCEPT !.next = next]
        /\ IF call.fn = "insert"
           THEN mem'[Array] = mem[Array] /\ call' = [call EXCEPT !.pc = "link", !.list = list]
           ELSE mem'[Array] = [mem[Array] EXCEPT ![call.index] = list] /\ call' = NoCall
        /\ value_cloner' = value_cloner /\ table' = table /\ before' = before

\* The node before the one that was found is another one, and in its list.
LEMMA NodeBefore ==
  ASSUME HashInv, call.pc = "unlink", NEW home, NEW rank, Shape(home, rank)
  PROVE  /\ call.list = Heads[call.index] /\ home[call.current] = call.index
         /\ call.prev = NULL => call.current = Heads[call.index] /\ rank[call.current] = 0
         /\ call.prev # NULL =>
              /\ call.prev \in InTable /\ Nexts[call.prev] = call.current
              /\ rank[call.current] = rank[call.prev] + 1
              /\ call.prev # call.current
  <1>1. /\ call.current \in InTable /\ call.index \in Indices /\ NULL \notin Nodes
        /\ call.prev \in InTable \cup {NULL}
    BY FoundNode
  <1>2. /\ call.list = Heads[call.index]
        /\ call.prev = NULL => call.current = call.list
        /\ call.prev # NULL => mem[call.prev].next = call.current
        /\ home[call.current] = call.index /\ call.current # NULL
    BY <1>1 DEF Shape, Position
  <1>3. Lists(InTable, Heads, Nexts, home, rank)
    BY DEF Shape
  <1>4. \A n \in InTable : Nexts[n] = mem[n].next
    BY DEF Nexts
  <1> HIDE DEF Heads, Nexts
  <1>5. call.prev = NULL => rank[call.current] = 0
    BY <1>1, <1>2, <1>3 DEF Lists
  <1>6. ASSUME call.prev # NULL
        PROVE  /\ call.prev \in InTable /\ Nexts[call.prev] = call.current
               /\ rank[call.current] = rank[call.prev] + 1
               /\ call.prev # call.current
    <2>1. call.prev \in InTable /\ Nexts[call.prev] = call.current
      BY <1>1, <1>2, <1>4, <1>6
    <2>2. rank[call.current] = rank[call.prev] + 1 /\ rank[call.prev] \in Nat
      BY <1>2, <1>3, <2>1 DEF Lists
    <2>3. QED
      BY <2>1, <2>2
  <1>7. QED
    BY <1>2, <1>5, <1>6

LEMMA UnlinkMemory ==
  ASSUME HashInv, Unlink
  PROVE  \E list : Unlinked(list)
  <1> DEFINE x == call.current
             next == mem[x].next
             list == IF call.prev = NULL THEN next ELSE call.list
             freed == Without(mem, {x})
             rest == IF call.prev = NULL THEN freed ELSE [freed EXCEPT ![call.prev].next = next]
  <1>1. /\ call.pc = "unlink"
        /\ value_cloner' = value_cloner /\ table' = table /\ before' = before
        /\ IF call.fn = "insert"
           THEN mem' = rest /\ call' = [call EXCEPT !.pc = "link", !.list = list]
           ELSE mem' = [rest EXCEPT ![Array][call.index] = list] /\ call' = NoCall
    BY DEF Unlink, Go, Return
  <1>2. /\ x \in Nodes /\ call.prev \in InTable \cup {NULL} /\ NULL \notin Nodes
        /\ Array \in DOMAIN mem /\ x # Array /\ call.prev # Array
        /\ mem[Array] \in [Indices -> Names] /\ call.index \in Indices
    BY <1>1, FoundNode, BlocksDiffer, NullIsNoBlock DEF InTable, Nodes, Kinds
  <1>3. call.prev # NULL => call.prev \in DOMAIN mem /\ call.prev # x
    <2>1. PICK home, rank : Shape(home, rank)
      BY DEF HashInv, ListInv
    <2>2. QED
      BY <1>1, <1>2, <2>1, NodeBefore DEF InTable, Nodes, Block
  <1>4. /\ DOMAIN freed = DOMAIN mem \ {x}
        /\ \A b \in DOMAIN mem \ {x} : freed[b] = mem[b]
    BY DEF Without
  <1> HIDE DEF freed, list, next, x
  <1>5. /\ DOMAIN rest = DOMAIN mem \ {x}
        /\ \A b \in DOMAIN mem \ {x} : b # call.prev => rest[b] = mem[b]
        /\ call.prev # NULL => rest[call.prev] = [mem[call.prev] EXCEPT !.next = next]
    BY <1>3, <1>4
  <1> HIDE DEF rest
  <1>6. CASE call.fn = "insert"
    <2>1. mem' = rest /\ call' = [call EXCEPT !.pc = "link", !.list = list]
      BY <1>1, <1>6
    <2>2. mem'[Array] = mem[Array]
      BY <1>2, <1>5, <2>1
    <2>3. Unlinked(list)
      BY <1>1, <1>5, <1>6, <2>1, <2>2 DEF Unlinked, x, list, next
    <2>4. QED
      BY <2>3
  <1>7. CASE call.fn # "insert"
    <2>1. mem' = [rest EXCEPT ![Array][call.index] = list] /\ call' = NoCall
      BY <1>1, <1>7
    <2>2. Array \in DOMAIN rest /\ rest[Array] = mem[Array]
      BY <1>2, <1>5
    <2>3. mem'[Array] = [mem[Array] EXCEPT ![call.index] = list]
      BY <2>1, <2>2
    <2>4. DOMAIN mem' = DOMAIN rest /\ \A b \in DOMAIN rest : b # Array => mem'[b] = rest[b]
      BY <2>1
    <2>5. \A b \in DOMAIN mem \ {x, Array} : b # call.prev => mem'[b] = mem[b]
      BY <1>5, <2>4
    <2>6. call.prev # NULL => mem'[call.prev] = [mem[call.prev] EXCEPT !.next = next]
      BY <1>2, <1>3, <1>5, <2>4
    <2>7. DOMAIN mem' = DOMAIN mem \ {x}
      BY <1>5, <2>4
    <2>8. Unlinked(list)
      BY <1>1, <1>7, <2>1, <2>3, <2>5, <2>6, <2>7 DEF Unlinked, x, list, next
    <2>9. QED
      BY <2>8
  <1>8. QED
    BY <1>6, <1>7

\* The mapping without the key that was found.
Cleared == [before EXCEPT ![call.key] = NoValue]

LEMMA UnlinkKeepsInv ==
  ASSUME HashInv, Unlink
  PROVE  HashInv' /\ (call.fn = "delete" => \A f : f = Cleared => Represents(f)')
  <1> DEFINE x == call.current
  <1>0. PICK list : Unlinked(list)
    BY UnlinkMemory
  <1>1. call.pc = "unlink"
    BY DEF Unlink
  <1>2. /\ call.fn \in {"insert", "delete"} /\ table = Table /\ call \in CallType
        /\ x \in InTable /\ x \in Nodes /\ x # call.node
        /\ call.key \in Keys /\ call.index = index_of(call.key) /\ call.index \in Indices
        /\ call.prev \in InTable \cup {NULL} /\ NULL \notin Nodes
        /\ Array \in DOMAIN mem /\ mem[Array] \in [Indices -> Names]
    BY <1>1, FoundNode
  <1>3. /\ list = IF call.prev = NULL THEN mem[x].next ELSE call.list
        /\ DOMAIN mem' = DOMAIN mem \ {x}
        /\ \A b \in DOMAIN mem \ {x, Array} : b # call.prev => mem'[b] = mem[b]
        /\ call.prev # NULL => mem'[call.prev] = [mem[call.prev] EXCEPT !.next = mem[x].next]
        /\ value_cloner' = value_cloner /\ table' = table /\ before' = before
    BY <1>0 DEF Unlinked
  <1>4. /\ Table \notin Nodes /\ Array \notin Nodes /\ Array # NULL /\ Table # NULL /\ Table # Array
        /\ Array \notin Block("key") \cup Block("value")
        /\ Nodes \cap Block("key") = {} /\ Nodes \cap Block("value") = {}
        /\ NULL \notin Block("key") /\ NULL \notin Block("value")
    BY BlocksDiffer, NullIsNoBlock DEF Nodes, Kinds
  <1>5. /\ Nodes \subseteq DOMAIN mem /\ Block("key") \subseteq DOMAIN mem
        /\ Block("value") \subseteq DOMAIN mem
    BY DEF Nodes, Block
  <1>6. \A n \in Nodes : mem[n] \in [key : Names, value : Names, next : Names]
    BY DEF HashInv, MemInv
  <1>7. /\ call'.pc \in {"link", "idle"} /\ call'.node = call.node /\ call'.given = call.given
        /\ call.fn = "insert" =>
             /\ call'.fn = "insert" /\ call'.pc = "link" /\ call'.key = call.key
             /\ call'.value = call.value /\ call'.index = call.index /\ call'.list = list
             /\ mem'[Array] = mem[Array]
        /\ call.fn = "delete" =>
             /\ call' = NoCall /\ call'.pc = "idle" /\ call'.fn = "none"
             /\ call'.given = NULL /\ call'.node = NULL
             /\ mem'[Array] = [mem[Array] EXCEPT ![call.index] = list]
    <2>1. CASE call.fn = "insert"
      <3>1. mem'[Array] = mem[Array] /\ call' = [call EXCEPT !.pc = "link", !.list = list]
        BY <1>0, <2>1 DEF Unlinked
      <3>2. QED
        BY <1>2, <2>1, <3>1 DEF CallType
    <2>2. CASE call.fn = "delete"
      <3>1. mem'[Array] = [mem[Array] EXCEPT ![call.index] = list] /\ call' = NoCall
        BY <1>0, <2>2 DEF Unlinked
      <3>2. call.node = NULL /\ call.given = NULL
        BY <2>2 DEF HashInv, ProtocolInv
      <3>3. QED
        BY <2>2, <3>1, <3>2 DEF NoCall
    <2>3. QED
      BY <1>2, <2>1, <2>2
  <1>8. list \in Names
    BY <1>2, <1>3, <1>6 DEF CallType
  <1>9. TypeInv'
    <2>1. call' \in CallType
      <3>1. CASE call.fn = "insert"
        <4>1. call' = [call EXCEPT !.pc = "link", !.list = list]
          BY <1>0, <3>1 DEF Unlinked
        <4>2. QED
          BY <1>2, <1>8, <4>1 DEF CallType
      <3>2. CASE call.fn = "delete"
        BY <1>7, <3>2, NoCallType
      <3>3. QED
        BY <1>2, <3>1, <3>2
    <2>2. QED
      BY <1>3, <2>1 DEF HashInv, TypeInv
  <1>10. /\ MemoryType' /\ Nodes' = Nodes \ {x} /\ Block("key")' = Block("key")
         /\ Block("value")' = Block("value")
    <2>1. MemoryType /\ "node" \in Kinds /\ "key" \in Kinds /\ "value" \in Kinds
      BY DEF HashInv, MemInv, Kinds
    <2>2. MemoryType' /\ \A k \in Kinds : Block(k)' = Block(k) \ {x}
      BY <1>3, <2>1, Released
    <2>3. QED
      BY <1>2, <1>4, <2>1, <2>2 DEF Nodes
  <1>11. \A n \in Nodes \ {x} : /\ mem'[n] \in [key : Names, value : Names, next : Names]
                                /\ mem'[n].key = mem[n].key /\ mem'[n].value = mem[n].value
                                /\ mem'[n].next = IF n = call.prev THEN mem[x].next ELSE mem[n].next
    <2> TAKE n \in Nodes \ {x}
    <2>1. CASE n = call.prev
      <3>1. mem'[n] = [mem[n] EXCEPT !.next = mem[x].next]
        BY <1>2, <1>3, <2>1
      <3>2. mem[n] \in [key : Names, value : Names, next : Names] /\ mem[x].next \in Names
        BY <1>2, <1>6
      <3>3. QED
        BY <2>1, <3>1, <3>2
    <2>2. CASE n # call.prev
      BY <1>3, <1>4, <1>5, <1>6, <2>2
    <2>3. QED
      BY <2>1, <2>2
  <1>12. \A b \in Block("key") \cup Block("value") : mem'[b] = mem[b]
    BY <1>2, <1>3, <1>4, <1>5 DEF InTable
  <1>13. mem'[Array] \in [Indices -> Names]
    BY <1>2, <1>7, <1>8
  <1>14. MemInv'
    <2>1. MemInv
      BY DEF HashInv
    <2>2. {Table, Array} \subseteq DOMAIN mem'
      BY <1>2, <1>3, <1>4, <2>1 DEF MemInv
    <2>3. QED
      BY <1>10, <1>11, <1>12, <1>13, <2>1, <2>2 DEF MemInv
  <1>15. /\ InTable' = InTable \ {x} /\ Holders = Nodes \ {x} /\ Holders' = Holders
         /\ Kept = InTable \ {x} /\ Kept' = Kept
    <2>1. InTable' = InTable \ {x} /\ Holders = Nodes \ {x} /\ Holders' = Holders
      BY <1>1, <1>7, <1>10 DEF InTable, Holders
    <2>2. QED
      BY <2>1 DEF Kept, InTable
  <1>16. \A n \in Kept : /\ n \in Nodes \ {x}
                         /\ mem[n].key \in Block("key") /\ mem[n].value \in Block("value")
    BY <1>15, NodeHolds
  <1>17. /\ \A n \in Kept : key_of(n)' = key_of(n)
         /\ KeysInv'
         /\ \A f : Represents(f)' <=> Represents(f)
    <2>1. \A n \in Kept : /\ mem'[n].key = mem[n].key /\ mem'[n].value = mem[n].value
                          /\ mem'[mem[n].key] = mem[mem[n].key]
                          /\ mem'[mem[n].value] = mem[mem[n].value]
      BY <1>11, <1>12, <1>16
    <2>2. QED
      BY <1>15, <2>1, KeptAlike
  <1>18. HoldInv'
    <2>1. HoldInv
      BY DEF HashInv
    <2>2. \A n \in Holders : mem'[n].key = mem[n].key /\ mem'[n].value = mem[n].value
      BY <1>11, <1>15
    <2>3. \A n \in Kept : n \in Holders
      BY DEF Kept
    <2>4. QED
      BY <1>7, <1>10, <1>15, <2>1, <2>2, <2>3 DEF HoldInv
  <1>19. ProtocolInv'
    BY <1>2, <1>3, <1>7 DEF HashInv, ProtocolInv, index_of, Table, NULL
  <1>20. PendingInv'
    <2>1. CASE call.fn = "insert"
      <3>1. /\ call.given \in Block("value") \cup {NULL} /\ call.node \in Nodes /\ call.node # NULL
            /\ call.given # NULL => mem[call.given] = call.value
            /\ call.given # NULL <=> ~value_cloner
        BY <1>1, <1>2, <2>1 DEF HashInv, PendingInv
      <3>2. /\ mem[call.node].next = NULL
            /\ mem[call.node].key \in Block("key") /\ mem[mem[call.node].key] = call.key
            /\ mem[call.node].value \in Block("value")
            /\ mem[mem[call.node].value] = call.value
            /\ call.given \in {NULL, mem[call.node].value}
        BY <1>1, <3>1, ReplacingNode
      <3>3. call.node # call.prev
        BY <1>2, <3>1 DEF InTable
      <3>4. /\ call.node \in Nodes' /\ mem'[call.node].key = mem[call.node].key
            /\ mem'[call.node].value = mem[call.node].value /\ mem'[call.node].next = NULL
        BY <1>2, <1>10, <1>11, <3>1, <3>2, <3>3
      <3>5. call.given # NULL => mem'[call.given] = call.value
        BY <1>12, <3>1
      <3>6. mem'[mem[call.node].key] = call.key /\ mem'[mem[call.node].value] = call.value
        BY <1>12, <3>2
      <3>7. QED
        BY <1>3, <1>7, <1>10, <2>1, <3>1, <3>2, <3>4, <3>5, <3>6 DEF PendingInv, key_of
    <2>2. CASE call.fn = "delete"
      BY <1>7, <2>2 DEF PendingInv
    <2>3. QED
      BY <1>2, <2>1, <2>2
  <1>21. Represents(Cleared)
    BY <1>1 DEF HashInv, BeforeInv, Cleared
  <1>22. BeforeInv'
    <2>1. CASE call.fn = "insert"
      <3>1. PICK f : f = Cleared
        OBVIOUS
      <3>2. Represents(f)'
        BY <1>17, <1>21, <3>1
      <3>3. [before EXCEPT ![call.key] = NoValue]' = f
        BY <1>3, <1>7, <2>1, <3>1 DEF Cleared
      <3>4. Represents([before EXCEPT ![call.key] = NoValue])'
        BY <3>2, <3>3, Zenon DEF Represents
      <3>5. QED
        BY <1>7, <2>1, <3>4 DEF BeforeInv
    <2>2. CASE call.fn = "delete"
      BY <1>7, <2>2 DEF BeforeInv
    <2>3. QED
      BY <1>2, <2>1, <2>2
  <1>23. ListInv'
    <2>1. PICK home, rank : Shape(home, rank)
      BY DEF HashInv, ListInv
    <2>2. Lists(InTable, Heads, Nexts, home, rank)
      BY <2>1 DEF Shape
    <2>3. /\ call.list = Heads[call.index] /\ home[x] = call.index
          /\ call.prev = NULL => x = Heads[call.index] /\ rank[x] = 0
          /\ call.prev # NULL => /\ call.prev \in InTable /\ Nexts[call.prev] = x
                                 /\ rank[x] = rank[call.prev] + 1
                                 /\ call.prev # x
      BY <1>1, <2>1, NodeBefore
    <2>4. /\ Heads = [i \in Indices |-> mem[Array][i]]
          /\ Heads' = [i \in Indices |-> IF i = call.index THEN list ELSE mem[Array][i]]
      BY <1>1, <1>2, <1>3, <1>7 DEF Heads, Table, NULL, Indices
    <2>5. /\ Nexts = [n \in InTable |-> mem[n].next]
          /\ Nexts' = [n \in InTable \ {x} |->
                         IF n = call.prev THEN mem[x].next ELSE mem[n].next]
      BY <1>11, <1>15 DEF Nexts, InTable
    <2>6. Heads' = Removed(Heads, Nexts, home, x).first
      <3>1. \A i \in Indices : Heads[i] = x => home[x] = i /\ rank[x] = 0
        BY <1>2, <2>2 DEF Lists
      <3>2. call.prev # NULL => rank[x] # 0
        <4>1. \A n \in InTable : rank[n] \in Nat
          BY <2>2 DEF Lists
        <4>2. \A n \in Nat : n + 1 # 0
          OBVIOUS
        <4>3. QED
          BY <2>3, <4>1, <4>2
      <3>3. \A i \in Indices : (IF i = call.index THEN list ELSE mem[Array][i])
                                = IF Heads[i] = x THEN Nexts[x] ELSE Heads[i]
        <4> TAKE i \in Indices
        <4>1. Heads[i] = mem[Array][i] /\ Nexts[x] = mem[x].next
          BY <1>2, <2>4, <2>5
        <4>2. CASE i = call.index
          <5>1. CASE call.prev = NULL
            BY <1>3, <2>3, <4>1, <4>2, <5>1
          <5>2. CASE call.prev # NULL
            <6>1. Heads[i] # x
              BY <3>1, <3>2, <5>2
            <6>2. QED
              BY <1>3, <2>3, <4>1, <4>2, <5>2, <6>1
          <5>3. QED
            BY <5>1, <5>2
        <4>3. CASE i # call.index
          BY <2>3, <3>1, <4>1, <4>3
        <4>4. QED
          BY <4>2, <4>3
      <3>4. QED
        BY <2>4, <3>3 DEF Removed
    <2>7. Nexts' = Removed(Heads, Nexts, home, x).next
      <3>1. \A n \in InTable : Nexts[n] = x => n = call.prev
        <4>1. SUFFICES ASSUME NEW n \in InTable, Nexts[n] = x PROVE n = call.prev
          OBVIOUS
        <4>2. home[x] = home[n] /\ rank[x] = rank[n] + 1 /\ rank[n] \in Nat
          BY <1>2, <2>2, <4>1 DEF Lists, InTable
        <4>3. call.prev # NULL
          <5>1. rank[x] # 0
            BY <4>2
          <5>2. QED
            BY <2>3, <5>1
        <4>4. rank[call.prev] \in Nat /\ home[x] = home[call.prev]
          BY <1>2, <2>2, <2>3, <4>3 DEF Lists, InTable
        <4>5. rank[n] = rank[call.prev]
          BY <2>3, <4>2, <4>3, <4>4
        <4>6. \A l, q \in InTable : home[l] = home[q] /\ rank[l] = rank[q] => l = q
          BY <2>2 DEF Lists
        <4>7. QED
          BY <2>3, <4>2, <4>3, <4>4, <4>5, <4>6
      <3>2. DOMAIN Nexts = InTable
        BY <2>5
      <3>3. \A n \in InTable \ {x} : (IF n = call.prev THEN mem[x].next ELSE mem[n].next)
                                       = IF Nexts[n] = x THEN Nexts[x] ELSE Nexts[n]
        <4> TAKE n \in InTable \ {x}
        <4>1. Nexts[n] = mem[n].next /\ Nexts[x] = mem[x].next
          BY <1>2, <2>5
        <4>2. CASE n = call.prev
          <5>1. call.prev # NULL
            BY <1>2, <4>2 DEF InTable
          <5>2. QED
            BY <2>3, <4>1, <4>2, <5>1
        <4>3. CASE n # call.prev
          BY <3>1, <4>1, <4>3
        <4>4. QED
          BY <4>2, <4>3
      <3>4. QED
        BY <2>5, <3>2, <3>3 DEF Removed
    <2> HIDE DEF Heads, Nexts
    <2>8. PICK left, lower :
            /\ left = Removed(Heads, Nexts, home, x).home
            /\ Lists(InTable \ {x}, Removed(Heads, Nexts, home, x).first,
                     Removed(Heads, Nexts, home, x).next, left, lower)
      BY <1>2, <2>2, RemoveNode
    <2>9. Lists(InTable, Heads, Nexts, left, lower)'
      BY <1>15, <2>6, <2>7, <2>8 DEF Lists
    <2>10. DOMAIN Nexts = InTable
      BY <2>2 DEF Lists
    <2>11. \A n \in Kept : left[n] = home[n]
      BY <1>15, <2>8, <2>10 DEF Removed
    <2>12. \A n \in Kept : index_of(key_of(n)) = home[n] /\ key_of(n) # call.key
      BY <1>1, <2>1 DEF Shape, Position
    <2>13. \A n \in Kept : index_of(key_of(n)') = left[n] /\ key_of(n)' # call.key
      BY <1>17, <2>11, <2>12
    <2>14. Position(left, lower)'
      BY <1>2, <1>7, <1>15, <2>13 DEF Position, index_of
    <2>15. QED
      BY <2>9, <2>14 DEF ListInv, Shape
  <1>24. HashInv'
    BY <1>9, <1>14, <1>17, <1>18, <1>19, <1>20, <1>22, <1>23 DEF HashInv
  <1>25. QED
    BY <1>17, <1>21, <1>24

-----------------------------------------------------------------------------
(***************************************************************************)
(* Putting a node before its list, and freeing the nodes of a list.        *)
(***************************************************************************)
LEMMA LinkKeepsInv ==
  ASSUME HashInv, Link
  PROVE  /\ HashInv' /\ call.fn = "insert" /\ table = Table
         /\ \A f : f = [before EXCEPT ![call.key] = call.value] => Represents(f)'
  <1> DEFINE x == call.node
  <1>0. /\ call.pc = "link" /\ call' = NoCall
        /\ mem' = [mem EXCEPT ![x].next = call.list, ![Array][call.index] = x]
        /\ value_cloner' = value_cloner /\ table' = table /\ before' = before
    BY DEF Link, Return
  <1>1. call.fn = "insert" /\ table = Table /\ call \in CallType
    BY <1>0, WhoseStep, CallFields
  <1>2. /\ call.key \in Keys /\ call.index = index_of(call.key) /\ call.index \in Indices
        /\ call.value \in Values /\ before \in Mapping
    BY <1>0, <1>1, SearchedList DEF HashInv, ProtocolInv, TypeInv
  <1>3. /\ NULL \notin Nodes /\ Table # Array
        /\ Table \notin Nodes /\ Array \notin Nodes
        /\ Array \notin Block("key") \cup Block("value")
        /\ Nodes \cap Block("key") = {} /\ Nodes \cap Block("value") = {}
        /\ NULL \notin Block("key") /\ NULL \notin Block("value")
    BY BlocksDiffer, NullIsNoBlock DEF Nodes, Kinds
  <1>4. x # NULL
    BY <1>0, <1>1 DEF HashInv, PendingInv
  <1>5. /\ x \in Nodes
        /\ mem[x].key \in Block("key") /\ mem[mem[x].key] = call.key
        /\ mem[x].value \in Block("value")
        /\ mem[mem[x].value] = call.value
        /\ call.given \in {NULL, mem[x].value}
    BY <1>0, <1>4, ReplacingNode
  <1>6. /\ Nodes \subseteq DOMAIN mem /\ Block("key") \subseteq DOMAIN mem
        /\ Block("value") \subseteq DOMAIN mem
    BY DEF Nodes, Block
  <1>7. /\ MemInv
        /\ Array \in DOMAIN mem /\ mem[Array] \in [Indices -> Names] /\ Table \in DOMAIN mem
        /\ mem[x] \in [key : Names, value : Names, next : Names]
        /\ call.list \in Names /\ x \in Names
    BY <1>1, <1>5 DEF HashInv, MemInv, CallType
  <1>8. /\ DOMAIN mem' = DOMAIN mem
        /\ \A b \in DOMAIN mem : b # x /\ b # Array => mem'[b] = mem[b]
        /\ mem'[x] = [mem[x] EXCEPT !.next = call.list]
        /\ mem'[Array] = [mem[Array] EXCEPT ![call.index] = x]
    BY <1>0, <1>3, <1>5, <1>6, <1>7
  <1>9. /\ MemoryType' /\ Nodes' = Nodes /\ \A kind : Block(kind)' = Block(kind)
    BY <1>7, <1>8 DEF MemInv, MemoryType, Nodes, Block
  <1>10. /\ mem'[x] \in [key : Names, value : Names, next : Names]
         /\ mem'[x].key = mem[x].key /\ mem'[x].value = mem[x].value
         /\ mem'[x].next = call.list
         /\ mem'[Array] \in [Indices -> Names]
    BY <1>2, <1>7, <1>8
  <1>11. /\ \A n \in Nodes : n # x => mem'[n] = mem[n]
         /\ \A b \in Block("key") \cup Block("value") : mem'[b] = mem[b]
    BY <1>3, <1>5, <1>6, <1>8
  <1>12. MemInv'
    <2>1. \A n \in Nodes' : mem'[n] \in [key : Names, value : Names, next : Names]
      BY <1>7, <1>9, <1>10, <1>11 DEF MemInv
    <2>2. QED
      BY <1>7, <1>8, <1>9, <1>10, <1>11, <2>1 DEF MemInv
  <1>13. TypeInv'
    BY <1>0, NoCallType DEF HashInv, TypeInv
  <1>14. /\ call'.fn = "none" /\ call'.pc = "idle" /\ call'.node = NULL /\ call'.given = NULL
    BY <1>0 DEF NoCall
  <1>15. /\ InTable = Nodes \ {x} /\ Holders = Nodes /\ Kept = InTable
         /\ InTable' = Nodes /\ Holders' = Nodes /\ Kept' = Nodes
    <2>1. InTable = Nodes \ {x} /\ Holders = Nodes
      BY <1>0 DEF InTable, Holders
    <2>2. InTable' = Nodes /\ Holders' = Nodes
      BY <1>3, <1>9, <1>14 DEF InTable, Holders
    <2>3. QED
      BY <2>1, <2>2 DEF Kept
  <1>16. \A n \in Nodes : /\ mem[n].key \in Block("key") /\ mem[n].value \in Block("value")
                          /\ mem'[n].key = mem[n].key /\ mem'[n].value = mem[n].value
                          /\ key_of(n)' = key_of(n)
                          /\ mem'[mem'[n].value] = mem[mem[n].value]
    <2> TAKE n \in Nodes
    <2>1. mem[n].key \in Block("key") /\ mem[n].value \in Block("value")
      BY <1>5, <1>15, NodeHolds
    <2>2. mem'[n].key = mem[n].key /\ mem'[n].value = mem[n].value
      BY <1>10, <1>11
    <2>3. mem'[mem[n].key] = mem[mem[n].key] /\ mem'[mem[n].value] = mem[mem[n].value]
      BY <1>11, <2>1
    <2>4. QED
      BY <2>1, <2>2, <2>3 DEF key_of
  <1>17. key_of(x) = call.key /\ \A n \in Nodes : n # x => key_of(n) # call.key
    <2>1. PICK home, rank : Shape(home, rank)
      BY DEF HashInv, ListInv
    <2>2. \A n \in Kept : key_of(n) # call.key
      BY <1>0, <2>1 DEF Shape, Position
    <2>3. QED
      BY <1>5, <1>15, <2>2 DEF key_of
  <1>18. KeysInv'
    <2>1. \A m, n \in Nodes : key_of(m) = key_of(n) => m = n
      BY <1>15, <1>17 DEF HashInv, KeysInv
    <2>2. QED
      BY <1>15, <1>16, <2>1 DEF KeysInv
  <1>19. ProtocolInv' /\ PendingInv' /\ BeforeInv'
    BY <1>0, <1>1, <1>14 DEF ProtocolInv, PendingInv, BeforeInv, Table, NULL
  <1>20. HoldInv'
    <2>1. HoldInv
      BY DEF HashInv
    <2>2. \A n \in Nodes : /\ mem'[n].key \in Block("key")' /\ mem'[n].key # NULL
                           /\ mem'[n].value \in Block("value")' /\ mem'[n].value # NULL
      BY <1>3, <1>9, <1>16
    <2>3. \A l, n \in Nodes :
            /\ mem'[l].key = mem'[n].key /\ mem'[l].key # NULL => l = n
            /\ mem'[l].value = mem'[n].value /\ mem'[l].value # NULL => l = n
      BY <1>15, <1>16, <2>1 DEF HoldInv
    <2>4. \A k \in Block("key")' : \E n \in Nodes : mem'[n].key = k
      BY <1>9, <1>15, <1>16, <2>1 DEF HoldInv
    <2>5. \A v \in Block("value")' : \E n \in Nodes : mem'[n].value = v
      <3> TAKE v \in Block("value")'
      <3>1. v \in Block("value") /\ v # NULL
        BY <1>3, <1>9
      <3>2. v = call.given \/ \E n \in Nodes : mem[n].value = v
        BY <1>15, <2>1, <3>1 DEF HoldInv
      <3>3. QED
        BY <1>5, <1>16, <3>1, <3>2
    <2>6. QED
      BY <1>14, <1>15, <2>2, <2>3, <2>4, <2>5 DEF HoldInv
  <1>21. ListInv'
    <2>1. PICK home, rank : Shape(home, rank)
      BY DEF HashInv, ListInv
    <2>2. Lists(InTable, Heads, Nexts, home, rank)
      BY <2>1 DEF Shape
    <2>3. /\ Heads = [i \in Indices |-> IF i = call.index THEN call.list ELSE mem[Array][i]]
          /\ Heads' = [i \in Indices |-> mem'[Array][i]]
      BY <1>0, <1>1, <1>14 DEF Heads, Table, NULL
    <2>4. Heads' = [Heads EXCEPT ![call.index] = x]
      <3>1. \A i \in Indices : mem'[Array][i] = IF i = call.index THEN x ELSE mem[Array][i]
        BY <1>2, <1>7, <1>8
      <3>2. QED
        BY <2>3, <3>1
    <2>5. /\ Nexts = [n \in InTable |-> mem[n].next]
          /\ Nexts' = [n \in InTable \cup {x} |-> IF n = x THEN call.list ELSE mem[n].next]
      BY <1>5, <1>10, <1>11, <1>15 DEF Nexts
    <2>6. Nexts' = Added(Heads, Nexts, home, call.index, x).next
      <3>1. DOMAIN Nexts = InTable /\ Heads[call.index] = call.list
        BY <1>2, <2>3, <2>5
      <3>2. \A n \in InTable \cup {x} : (IF n = x THEN call.list ELSE mem[n].next)
                                          = IF n = x THEN Heads[call.index] ELSE Nexts[n]
        BY <2>5, <3>1
      <3>3. QED
        BY <2>5, <3>1, <3>2 DEF Added
    <2> HIDE DEF Heads, Nexts
    <2>7. Heads' = Added(Heads, Nexts, home, call.index, x).first
      BY <2>4 DEF Added
    <2>8. PICK wider, higher :
            /\ wider = Added(Heads, Nexts, home, call.index, x).home
            /\ Lists(InTable \cup {x}, Added(Heads, Nexts, home, call.index, x).first,
                     Added(Heads, Nexts, home, call.index, x).next, wider, higher)
      BY <1>2, <1>4, <1>15, <2>2, AddNode
    <2>9. InTable' = InTable \cup {x}
      BY <1>5, <1>15
    <2>10. Lists(InTable, Heads, Nexts, wider, higher)'
      BY <2>6, <2>7, <2>8, <2>9 DEF Lists
    <2>11. DOMAIN Nexts = InTable
      BY <2>2 DEF Lists
    <2>12. \A n \in Nodes : wider[n] = IF n = x THEN call.index ELSE home[n]
      BY <1>15, <2>8, <2>11 DEF Added
    <2>13. \A n \in Nodes : index_of(key_of(n)) = wider[n]
      <3>1. \A n \in Kept : index_of(key_of(n)) = home[n]
        BY <2>1 DEF Shape, Position
      <3>2. QED
        BY <1>2, <1>15, <1>17, <2>12, <3>1
    <2>14. Position(wider, higher)'
      BY <1>14, <1>15, <1>16, <2>13 DEF Position, index_of
    <2>15. QED
      BY <2>10, <2>14 DEF ListInv, Shape
  <1>22. ASSUME NEW f, f = [before EXCEPT ![call.key] = call.value]
         PROVE  Represents(f)'
    <2>1. Represents(Cleared)
      BY <1>0 DEF HashInv, BeforeInv, Cleared
    <2>2. \A k \in Keys : /\ f[k] = IF k = call.key THEN call.value ELSE before[k]
                          /\ Cleared[k] = IF k = call.key THEN NoValue ELSE before[k]
      BY <1>2, <1>22 DEF Cleared, Mapping
    <2>3. \A n \in Kept : key_of(n) \in Keys
      BY NodeHolds
    <2>4. \A n \in Nodes : f[key_of(n)] = mem[mem[n].value]
      <3> TAKE n \in Nodes
      <3>1. CASE n = x
        BY <1>2, <1>5, <1>17, <2>2, <3>1
      <3>2. CASE n # x
        <4>1. n \in Kept /\ key_of(n) \in Keys /\ key_of(n) # call.key
          BY <1>15, <1>17, <2>3, <3>2
        <4>2. Cleared[key_of(n)] = mem[mem[n].value]
          BY <2>1, <4>1 DEF Represents
        <4>3. QED
          BY <2>2, <4>1, <4>2
      <3>3. QED
        BY <3>1, <3>2
    <2>5. \A k \in Keys : f[k] # NoValue => \E n \in Nodes : key_of(n) = k
      <3> TAKE k \in Keys
      <3>1. CASE k = call.key
        BY <1>5, <1>17, <3>1
      <3>2. CASE k # call.key
        BY <1>15, <2>1, <2>2, <3>2 DEF Represents
      <3>3. QED
        BY <3>1, <3>2
    <2>6. \A n \in Kept' : f[key_of(n)'] = mem'[mem'[n].value]
      BY <1>15, <1>16, <2>4
    <2>7. \A k \in Keys : f[k] # NoValue => \E n \in Kept' : key_of(n)' = k
      BY <1>15, <1>16, <2>5
    <2>8. QED
      BY <2>6, <2>7 DEF Represents
  <1>23. HashInv'
    BY <1>12, <1>13, <1>18, <1>19, <1>20, <1>21 DEF HashInv
  <1>24. QED
    BY <1>1, <1>22, <1>23

LEMMA FreeNodeKeepsInv ==
  ASSUME HashInv, FreeNode
  PROVE  HashInv'
  <1> DEFINE x == call.current
             blocks == {x, mem[x].key, mem[x].value}
  <1>0. /\ call.pc = "free" /\ x # NULL /\ call' = [call EXCEPT !.current = mem[x].next]
        /\ mem' = Without(mem, blocks)
        /\ value_cloner' = value_cloner /\ table' = table /\ before' = before
    BY DEF FreeNode, Go
  <1>1. call.fn = "free" /\ table = Table /\ call \in CallType
    BY <1>0, WhoseStep, CallFields
  <1>2. call.node = NULL /\ call.given = NULL /\ call.index < Size /\ call.index \in Indices
    BY <1>0, <1>1, HashTableAssumption DEF HashInv, ProtocolInv, CallType, Indices
  <1>3. PICK home, rank : Shape(home, rank)
    BY DEF HashInv, ListInv
  <1>4. Heads[call.index] = x
    <2>1. ~ (call.index < call.index)
      BY <1>2 DEF Indices
    <2>2. QED
      BY <1>0, <1>1, <1>2, <2>1 DEF Heads, Table, NULL
  <1>5. x \in InTable /\ home[x] = call.index
    BY <1>0, <1>2, <1>3, <1>4, HeadsOfShape
  <1>6. /\ NULL \notin Nodes /\ Holders = Nodes /\ InTable = Nodes /\ Kept = Nodes
    <2>1. NULL \notin Nodes
      BY BlocksDiffer DEF Nodes, Kinds
    <2>2. QED
      BY <1>0, <1>2, <2>1 DEF Holders, InTable, Kept
  <1>7. mem[x].key \in Block("key") /\ mem[x].value \in Block("value") /\ mem[x].next \in Names
    BY <1>5, <1>6, NodeHolds
  <1>8. /\ DOMAIN mem' = DOMAIN mem \ blocks
        /\ \A b \in DOMAIN mem \ blocks : mem'[b] = mem[b]
    BY <1>0 DEF Without
  <1>9. /\ MemoryType' /\ Nodes' = Nodes \ blocks /\ Block("key")' = Block("key") \ blocks
        /\ Block("value")' = Block("value") \ blocks
    <2>1. MemoryType /\ "node" \in Kinds /\ "key" \in Kinds /\ "value" \in Kinds
      BY DEF HashInv, MemInv, Kinds
    <2> HIDE DEF blocks
    <2>2. QED
      BY <1>8, <2>1, Released DEF Nodes
  <1>10. /\ Nodes \cap Block("key") = {} /\ Nodes \cap Block("value") = {}
         /\ Block("key") \cap Block("value") = {}
         /\ NULL \notin Block("key") /\ NULL \notin Block("value")
         /\ Table \notin Nodes \cup Block("key") \cup Block("value")
         /\ Array \notin Nodes \cup Block("key") \cup Block("value")
    BY BlocksDiffer DEF Nodes, Kinds
  <1>11. /\ Nodes' = Nodes \ {x} /\ Block("value")' = Block("value") \ {mem[x].value}
         /\ Block("key")' = Block("key") \ {mem[x].key}
         /\ Table \notin blocks /\ Array \notin blocks
    BY <1>5, <1>6, <1>7, <1>9, <1>10
  <1>12. /\ Nodes \subseteq DOMAIN mem /\ Block("key") \subseteq DOMAIN mem
         /\ Block("value") \subseteq DOMAIN mem
    BY DEF Nodes, Block
  <1> HIDE DEF blocks
  <1>13. /\ \A n \in Nodes' : n \in Nodes /\ mem'[n] = mem[n]
         /\ \A k \in Block("key")' : k \in Block("key") /\ mem'[k] = mem[k]
         /\ \A v \in Block("value")' : v \in Block("value") /\ mem'[v] = mem[v]
    BY <1>8, <1>9, <1>12
  <1>14. MemInv'
    <2>1. MemInv
      BY DEF HashInv
    <2>2. {Table, Array} \subseteq DOMAIN mem' /\ mem'[Array] \in [Indices -> Names]
      BY <1>1, <1>8, <1>11, <2>1 DEF MemInv
    <2>3. QED
      BY <1>9, <1>13, <2>1, <2>2 DEF MemInv
  <1>15. mem'[Array] = mem[Array]
    BY <1>1, <1>8, <1>11 DEF HashInv, MemInv
  <1>16. /\ call'.fn = call.fn /\ call'.pc = call.pc /\ call'.key = call.key
         /\ call'.value = call.value /\ call'.given = call.given /\ call'.node = call.node
         /\ call'.index = call.index /\ call'.current = mem[x].next
    BY <1>0, <1>1 DEF CallType
  <1>17. call' \in CallType
    BY <1>0, <1>1, <1>7 DEF CallType
  <1>18. TypeInv'
    BY <1>0, <1>17 DEF HashInv, TypeInv
  <1>19. InTable' = Nodes \ {x} /\ Holders' = Nodes \ {x} /\ Kept' = Nodes \ {x}
    <2>1. InTable' = Nodes \ {x} /\ Holders' = Nodes \ {x}
      BY <1>0, <1>2, <1>6, <1>11, <1>16 DEF InTable, Holders
    <2>2. QED
      BY <2>1 DEF Kept
  \* What the other nodes hold is not freed.
  <1>20. ASSUME NEW n \in Nodes \ {x}
         PROVE  /\ mem'[n] = mem[n] /\ key_of(n)' = key_of(n)
                /\ mem[n].key \in Block("key")' /\ mem[n].value \in Block("value")'
    <2>1. mem[n].key \in Block("key") /\ mem[n].value \in Block("value")
      BY <1>6, NodeHolds
    <2>2. mem[n].key # mem[x].key /\ mem[n].value # mem[x].value
      BY <1>5, <1>6, <1>10, <2>1 DEF HashInv, HoldInv
    <2>3. mem[n].key \in Block("key")' /\ mem[n].value \in Block("value")'
      BY <1>11, <2>1, <2>2
    <2>4. mem'[n] = mem[n] /\ mem'[mem[n].key] = mem[mem[n].key]
      BY <1>11, <1>13, <2>3
    <2>5. QED
      BY <2>3, <2>4 DEF key_of
  <1>21. KeysInv'
    BY <1>6, <1>19, <1>20 DEF HashInv, KeysInv
  <1>22. ProtocolInv'
    BY <1>0, <1>1, <1>16 DEF HashInv, ProtocolInv, Table, NULL
  <1>23. PendingInv' /\ BeforeInv'
    BY <1>0, <1>1, <1>2, <1>16 DEF PendingInv, BeforeInv
  <1>24. HoldInv'
    <2>1. HoldInv
      BY DEF HashInv
    <2>2. \A n \in Nodes \ {x} :
            /\ mem'[n].key \in Block("key")' /\ mem'[n].value \in Block("value")'
                                 /\ mem'[n].key # NULL /\ mem'[n].value # NULL
                                 /\ mem'[n].value # call'.given
      BY <1>2, <1>10, <1>13, <1>16, <1>20
    <2>3. \A l, n \in Nodes \ {x} :
            /\ mem'[l].key = mem'[n].key /\ mem'[l].key # NULL => l = n
            /\ mem'[l].value = mem'[n].value /\ mem'[l].value # NULL => l = n
      BY <1>6, <1>20, <2>1 DEF HoldInv
    <2>4. \A k \in Block("key")' : \E n \in Nodes \ {x} : mem'[n].key = k
      <3> TAKE k \in Block("key")'
      <3>1. k \in Block("key") /\ k # mem[x].key
        BY <1>11
      <3>2. PICK n \in Nodes : mem[n].key = k
        BY <1>6, <2>1, <3>1 DEF HoldInv
      <3>3. QED
        BY <1>20, <3>1, <3>2
    <2>5. \A v \in Block("value")' : \E n \in Nodes \ {x} : mem'[n].value = v
      <3> TAKE v \in Block("value")'
      <3>1. v \in Block("value") /\ v # mem[x].value /\ v # NULL
        BY <1>10, <1>11
      <3>2. PICK n \in Nodes : mem[n].value = v
        BY <1>2, <1>6, <2>1, <3>1 DEF HoldInv
      <3>3. QED
        BY <1>20, <3>1, <3>2
    <2>6. QED
      BY <1>19, <2>2, <2>3, <2>4, <2>5 DEF HoldInv
  <1>25. ListInv'
    <2>1. Lists(InTable, Heads, Nexts, home, rank)
      BY <1>3 DEF Shape
    <2>2. rank[x] = 0 /\ \A i \in Indices : i # call.index => Heads[i] # x
      <3> HIDE DEF Heads, Nexts
      <3>1. \A i \in Indices : Heads[i] # NULL => home[Heads[i]] = i /\ rank[Heads[i]] = 0
        BY <2>1 DEF Lists
      <3>2. QED
        BY <1>0, <1>2, <1>4, <1>5, <3>1
    <2>3. Nexts = [n \in InTable |-> mem[n].next] /\ Nexts' = [n \in InTable \ {x} |-> mem[n].next]
      BY <1>6, <1>19, <1>20 DEF Nexts
    <2>4. \A n \in InTable : Nexts[n] # x
      <3>1. \A n \in InTable : Nexts[n] # NULL => rank[Nexts[n]] = rank[n] + 1 /\ rank[n] \in Nat
        BY <2>1 DEF Lists
      <3>2. \A k \in Nat : k + 1 # 0
        OBVIOUS
      <3>3. QED
        BY <1>0, <2>2, <3>1, <3>2
    <2>5. Heads' = [i \in Indices |-> IF i = call.index THEN mem[x].next ELSE Heads[i]]
      <3>1. \A i \in Indices : i = call.index => ~ (i < call.index)
        BY DEF Indices
      <3>2. QED
        BY <1>0, <1>1, <1>15, <1>16, <3>1 DEF Heads, Table, NULL
    <2>6. Heads' = Removed(Heads, Nexts, home, x).first
      <3>1. Nexts[x] = mem[x].next
        BY <1>5, <2>3
      <3>2. \A i \in Indices : (IF i = call.index THEN mem[x].next ELSE Heads[i])
                                = IF Heads[i] = x THEN Nexts[x] ELSE Heads[i]
        BY <1>4, <2>2, <3>1
      <3>3. QED
        BY <2>5, <3>2 DEF Removed
    <2>7. Nexts' = Removed(Heads, Nexts, home, x).next
      <3>1. DOMAIN Nexts = InTable
        BY <2>3
      <3>2. \A n \in InTable \ {x} : mem[n].next = IF Nexts[n] = x THEN Nexts[x] ELSE Nexts[n]
        BY <2>3, <2>4
      <3>3. QED
        BY <2>3, <3>1, <3>2 DEF Removed
    <2> HIDE DEF Heads, Nexts
    <2>8. PICK left, lower :
            /\ left = Removed(Heads, Nexts, home, x).home
            /\ Lists(InTable \ {x}, Removed(Heads, Nexts, home, x).first,
                     Removed(Heads, Nexts, home, x).next, left, lower)
      BY <1>5, <2>1, RemoveNode
    <2>9. Lists(InTable, Heads, Nexts, left, lower)'
      BY <1>6, <1>19, <2>6, <2>7, <2>8 DEF Lists
    <2>10. DOMAIN Nexts = InTable
      BY <2>1 DEF Lists
    <2>11. \A n \in Nodes \ {x} : left[n] = home[n]
      BY <1>6, <2>8, <2>10 DEF Removed
    <2>12. \A n \in Kept : index_of(key_of(n)) = home[n]
      BY <1>3 DEF Shape, Position
    <2>13. \A n \in Nodes \ {x} : index_of(key_of(n)') = left[n]
      BY <1>6, <1>20, <2>11, <2>12
    <2>14. Position(left, lower)'
      BY <1>0, <1>16, <1>19, <2>13 DEF Position, index_of
    <2>15. QED
      BY <2>9, <2>14 DEF ListInv, Shape
  <1>26. QED
    BY <1>14, <1>18, <1>21, <1>22, <1>23, <1>24, <1>25 DEF HashInv

-----------------------------------------------------------------------------
LEMMA SteppingAside ==
  ASSUME HashInv, UNCHANGED vars
  PROVE  HashInv'
  <1>1. /\ mem' = mem /\ value_cloner' = value_cloner /\ table' = table
        /\ call' = call /\ before' = before
    BY DEF vars
  <1>2. /\ Nodes' = Nodes /\ InTable' = InTable /\ Holders' = Holders /\ Kept' = Kept
        /\ Nexts' = Nexts /\ Heads' = Heads
        /\ \A kind : Block(kind)' = Block(kind)
    BY <1>1 DEF Nodes, InTable, Holders, Kept, Nexts, Heads, Block
  <1>3. \A n : key_of(n)' = key_of(n)
    BY <1>1 DEF key_of
  <1>4. TypeInv' /\ ProtocolInv'
    BY <1>1 DEF HashInv, TypeInv, ProtocolInv
  <1>5. MemInv' /\ HoldInv'
    BY <1>1, <1>2 DEF HashInv, MemInv, MemoryType, HoldInv
  <1>6. PendingInv' /\ KeysInv'
    BY <1>1, <1>2, <1>3 DEF HashInv, PendingInv, KeysInv
  <1>7. \A f : Represents(f)' <=> Represents(f)
    BY <1>1, <1>2, <1>3 DEF Represents
  <1>8. BeforeInv'
    BY <1>1, <1>7 DEF HashInv, BeforeInv
  <1>9. \A home, rank : Position(home, rank) => Position(home, rank)'
    BY <1>1, <1>2, <1>3 DEF Position
  <1>10. \A home, rank : Shape(home, rank) => Shape(home, rank)'
    BY <1>2, <1>9 DEF Shape, Lists
  <1>11. ListInv'
    BY <1>10 DEF HashInv, ListInv
  <1>12. QED
    BY <1>4, <1>5, <1>6, <1>8, <1>11 DEF HashInv

LEMMA NextKeepsInv ==
  ASSUME HashInv, [Next]_vars
  PROVE  HashInv'
  <1>1. CASE hash_table_create
    BY <1>1, CreateKeepsInv
  <1>2. ASSUME NEW key \in Keys, NEW value \in Values, hash_table_insert(key, value)
        PROVE  HashInv'
    BY <1>2, InsertKeepsInv
  <1>3. ASSUME NEW key \in Keys, hash_table_lookup(key) \/ hash_table_delete(key)
        PROVE  HashInv'
    BY <1>3, SearchKeepsInv DEF hash_table_lookup, hash_table_delete
  <1>4. CASE hash_table_free
    BY <1>4, FreeKeepsInv
  <1>5. CASE AllocateNode
    <2>1. CASE call' = [call EXCEPT !.pc = "cleanup"] /\ mem' = mem
      BY <1>5, <2>1, FailureKeepsInv DEF AllocateNode, Go
    <2>2. CASE ~ (call' = [call EXCEPT !.pc = "cleanup"] /\ mem' = mem)
      <3> DEFINE x == New("node")
                 c == [key |-> NULL, value |-> NULL, next |-> NULL]
      <3>1. /\ call.pc = "node" /\ mem' = With(mem, x, c)
            /\ call' = [call EXCEPT !.pc = "key", !.node = x]
            /\ UNCHANGED <<value_cloner, table, before>>
        BY <1>5, <2>2 DEF AllocateNode, Go
      <3> HIDE DEF c
      <3>2. \A y, d : y = New("node") /\ d = c /\ mem' = With(mem, y, d)
                      /\ call' = [call EXCEPT !.pc = "key", !.node = y] => HashInv'
        BY <3>1, NodeAllocatedKeepsInv DEF c
      <3>3. QED
        BY <3>1, <3>2
    <2>3. QED
      BY <2>1, <2>2
  <1>6. CASE CloneKey
    <2>1. CASE call' = [call EXCEPT !.pc = "cleanup"] /\ mem' = mem
      BY <1>6, <2>1, FailureKeepsInv DEF CloneKey, Go
    <2>2. CASE ~ (call' = [call EXCEPT !.pc = "cleanup"] /\ mem' = mem)
      <3>1. KeyCloned(New("key"), [mem EXCEPT ![call.node].key = New("key")])
        BY <1>6, <2>2 DEF CloneKey, Go, KeyCloned
      <3>2. QED
        BY <3>1, KeyClonedKeepsInv
    <2>3. QED
      BY <2>1, <2>2
  <1>7. CASE CloneValue
    <2>1. CASE call' = [call EXCEPT !.pc = "cleanup"] /\ mem' = mem
      BY <1>7, <2>1, FailureKeepsInv DEF CloneValue, Go
    <2>2. CASE ~value_cloner
      <3>1. ValueStored(call.given)
        BY <1>7, <2>2, ValueTakenOver DEF CloneValue, Go
      <3>2. QED
        BY <3>1, ValueStoredKeepsInv
    <2>3. CASE value_cloner /\ ~ (call' = [call EXCEPT !.pc = "cleanup"] /\ mem' = mem)
      <3>1. ValueCloned(New("value"), [mem EXCEPT ![call.node].value = New("value")])
        BY <1>7, <2>3 DEF CloneValue, Go, ValueCloned
      <3>2. ValueStored(New("value"))
        BY <3>1, ValueCopied
      <3>3. QED
        BY <3>2, ValueStoredKeepsInv
    <2>4. QED
      BY <2>1, <2>2, <2>3
  <1>8. CASE InsertCleanup
    BY <1>8, CleanupKeepsInv
  <1>9. CASE Walk
    <2>1. CASE key_of(call.current) # call.key
      BY <1>9, <2>1, WalkOnKeepsInv DEF Walk, Go
    <2>2. CASE key_of(call.current) = call.key /\ call.fn = "lookup"
      BY <1>9, <2>2, SearchReturns DEF Walk, Return
    <2>3. CASE key_of(call.current) = call.key /\ call.fn # "lookup"
      BY <1>9, <2>3, FindKeepsInv DEF Walk, Go
    <2>4. QED
      BY <2>1, <2>2, <2>3
  <1>10. CASE WalkEnds
    <2>1. CASE call.fn = "insert"
      BY <1>10, <2>1, EndOfListKeepsInv DEF WalkEnds, Go
    <2>2. CASE call.fn # "insert"
      BY <1>10, <2>2, SearchReturns, WhoseStep DEF WalkEnds, Return
    <2>3. QED
      BY <2>1, <2>2
  <1>11. CASE Deallocate
    BY <1>11, DeallocateKeepsInv
  <1>12. CASE Unlink
    BY <1>12, UnlinkKeepsInv
  <1>13. CASE Link
    BY <1>13, LinkKeepsInv
  <1>14. CASE NextList
    BY <1>14, NextListKeepsInv
  <1>15. CASE FreeNode
    BY <1>15, FreeNodeKeepsInv
  <1>16. CASE ListFreed
    BY <1>16, ListFreedKeepsInv
  <1>17. CASE Freed
    BY <1>17, FreedKeepsInv
  <1>18. CASE Restart
    BY <1>18, RestartKeepsInv
  <1>19. CASE UNCHANGED vars
    BY <1>19, SteppingAside
  <1>20. QED
    BY <1>1, <1>2, <1>3, <1>4, <1>5, <1>6, <1>7, <1>8, <1>9, <1>10, <1>11, <1>12, <1>13,
       <1>14,
       <1>15, <1>16, <1>17, <1>18, <1>19 DEF Next, Begin, Step

(***************************************************************************)
(* The invariant of the table: its nodes are in disjoint lists without a   *)
(* circle, one for each key that is mapped, with a key and a value of      *)
(* their own, at every step of every call of hash_table.c.                 *)
(***************************************************************************)
THEOREM TableInvariant == Spec => []HashInv
  <1>1. Init => HashInv
    BY InitInv
  <1>2. HashInv /\ [Next]_vars => HashInv'
    BY NextKeepsInv
  <1>3. QED
    BY <1>1, <1>2, PTL DEF Spec

-----------------------------------------------------------------------------
\* The node a search or hash_table_free is at is one of the table.
LEMMA CurrentInTable ==
  ASSUME HashInv, call.pc \in {"walk", "found", "unlink", "free"}, call.current # NULL
  PROVE  call.current \in InTable
  <1>1. PICK home, rank : Shape(home, rank)
    BY DEF HashInv, ListInv
  <1>2. CASE call.pc = "free"
    <2>1. call.fn = "free" /\ table = Table
      BY <1>2, WhoseStep
    <2>2. call.index \in Indices
      BY <1>2, <2>1, HashTableAssumption
      DEF HashInv, ProtocolInv, TypeInv, CallType, Indices
    <2>3. Heads[call.index] = call.current
      BY <1>2, <2>1, <2>2, HashTableAssumption DEF Heads, Indices, Table, NULL
    <2>4. QED
      BY <1>1, <2>2, <2>3, HeadsOfShape
  <1>3. CASE call.pc # "free"
    BY <1>1, <1>3 DEF Shape, Position
  <1>4. QED
    BY <1>2, <1>3

LEMMA BlocksAreThere == HashInv => NoMemoryFault
  <1> SUFFICES ASSUME HashInv
               PROVE  NoMemoryFault
    OBVIOUS
  <1> DEFINE Present(b) == b \in DOMAIN mem
  <1>1. \A kind \in Kinds : \A b \in Block(kind) : Present(b)
    BY BlocksDiffer
  <1>2. \A n \in Nodes : Present(n)
    BY <1>1 DEF Nodes, Kinds
  <1>3. ASSUME call.pc \in {"key", "value", "link"}
        PROVE  Present(call.node)
    BY <1>2, <1>3, WhoseStep DEF HashInv, PendingInv
  <1>4. ASSUME call.pc = "cleanup"
        PROVE  (NodeBlocks(call.node) \cup {call.given}) \ {NULL} \subseteq DOMAIN mem
    <2>1. call.given = NULL \/ Present(call.given)
      BY <1>1 DEF HashInv, PendingInv, Kinds
    <2>2. NULL \notin DOMAIN mem
      BY NullIsNoBlock DEF HashInv, MemInv, MemoryType
    <2>3. CASE call.node = NULL
      BY <2>1, <2>2, <2>3 DEF NodeBlocks
    <2>4. CASE call.node # NULL
      <3>1. call.node \in Nodes /\ Holders = Nodes
        BY <1>4, <2>4, Inserting
      <3>2. mem[call.node].key \in Block("key") \cup {NULL}
        BY <3>1 DEF HashInv, HoldInv
      <3>3. mem[call.node].value = NULL
        BY <1>4, <2>4 DEF HashInv, PendingInv
      <3>4. mem[call.node].key = NULL \/ Present(mem[call.node].key)
        BY <1>1, <3>2 DEF Kinds
      <3>5. QED
        BY <1>2, <2>1, <3>1, <3>3, <3>4 DEF NodeBlocks
    <2>5. QED
      BY <2>3, <2>4
  <1>5. ASSUME call.pc \in {"walk", "free", "found"}, call.current # NULL
        PROVE  NodeBlocks(call.current) \subseteq DOMAIN mem
    <2>1. call.current \in Kept
      BY <1>5, CurrentInTable DEF Kept, Holders, InTable
    <2>2. mem[call.current].key \in Block("key") /\ mem[call.current].value \in Block("value")
      BY <2>1, NodeHolds
    <2>3. QED
      BY <1>1, <2>1, <2>2, NodeHolds DEF NodeBlocks, Kinds
  <1>6. call.pc = "found" => call.current # NULL
    <2>1. PICK home, rank : Shape(home, rank)
      BY DEF HashInv, ListInv
    <2>2. QED
      BY <2>1 DEF Shape, Position
  <1>7. ASSUME call.pc = "unlink"
        PROVE  {call.current} \cup ({call.prev} \ {NULL}) \subseteq DOMAIN mem
    <2>1. call.current \in Nodes /\ call.prev \in InTable \cup {NULL}
      BY <1>7, FoundNode
    <2>2. QED
      BY <1>2, <2>1 DEF InTable
  <1> HIDE DEF Present
  <1>8. call.pc \in {"walk", "free"} /\ call.current # NULL =>
          NodeBlocks(call.current) \subseteq DOMAIN mem
    BY <1>5
  <1>9. call.pc = "found" => NodeBlocks(call.current) \subseteq DOMAIN mem
    BY <1>5, <1>6
  <1>10. QED
    BY <1>3, <1>4, <1>7, <1>8, <1>9 DEF NoMemoryFault, Present

(***************************************************************************)
(* No call of hash_table.c reads, links, returns or frees a node, a key or *)
(* a value that was freed, whatever calls were made and failed before.     *)
(***************************************************************************)
THEOREM NoFreedMemoryTouched == Spec => []NoMemoryFault
  <1>1. Spec => []HashInv
    BY TableInvariant
  <1>2. HashInv => NoMemoryFault
    BY BlocksAreThere
  <1>3. QED
    BY <1>1, <1>2, PTL

-----------------------------------------------------------------------------
(***************************************************************************)
(* Between the calls the lists have all the blocks that are allocated.     *)
(***************************************************************************)
LEMMA AllNodesListed ==
  ASSUME HashInv, Idle, table = Table
  PROVE  Listed = Nodes
  <1>1. PICK home, rank : Shape(home, rank)
    BY DEF HashInv, ListInv
  <1>2. Lists(Nodes, Heads, Nexts, home, rank)
    BY <1>1, AtRest DEF Shape
  <1>3. IsFiniteSet(Nodes)
    <2>1. IsFiniteSet(DOMAIN mem) /\ Nodes \subseteq DOMAIN mem
      BY DEF HashInv, MemInv, MemoryType, Nodes, Block
    <2>2. QED
      BY <2>1, FS_Subset
  <1>4. \A index \in Indices :
          Visited(index) = [i \in 0..Cardinality(Nodes) |-> Placed(Nodes, home, rank, index, i)]
    BY <1>1, VisitedInOrder
  <1>5. \A index \in Indices : \A i \in Nat :
          Placed(Nodes, home, rank, index, i) \in Nodes \cup {NULL}
    BY DEF Placed
  <1> DEFINE Of(index) == {Visited(index)[i] : i \in DOMAIN Visited(index)}
  <1>6. \A n : n \in Listed <=> n # NULL /\ \E index \in Indices : n \in Of(index)
    <2> DEFINE S == {Of(index) : index \in Indices}
    <2>1. Listed = (UNION S) \ {NULL}
      BY DEF Listed, Indices
    <2>2. \A T : T \in S <=> \E index \in Indices : T = Of(index)
      OBVIOUS
    <2> HIDE DEF S, Of
    <2>3. QED
      BY <2>1, <2>2
  <1>7. \A index \in Indices : Of(index) \subseteq Nodes \cup {NULL}
    <2> SUFFICES ASSUME NEW index \in Indices, NEW i \in DOMAIN Visited(index)
                 PROVE  Visited(index)[i] \in Nodes \cup {NULL}
      OBVIOUS
    <2>1. DOMAIN Visited(index) = 0..Cardinality(Nodes)
      BY <1>4
    <2>2. i \in 0..Cardinality(Nodes)
      BY <2>1
    <2>3. Visited(index)[i] = Placed(Nodes, home, rank, index, i)
      BY <1>4, <2>2
    <2>4. QED
      BY <1>5, <2>2, <2>3
  <1>8. ASSUME NEW n \in Nodes
        PROVE  n \in Listed
    <2>1. home[n] \in Indices /\ n # NULL
      BY <1>2 DEF Lists
    <2>2. rank[n] \in 0..Cardinality(Nodes)
      BY <1>2, <1>3, RanksAreBounded
    <2>3. Placed(Nodes, home, rank, home[n], rank[n]) = n
      BY <1>2, PlaceOfNode
    <2>4. rank[n] \in DOMAIN Visited(home[n]) /\ Visited(home[n])[rank[n]] = n
      BY <1>4, <2>1, <2>2, <2>3
    <2>5. n \in Of(home[n])
      BY <2>4
    <2> HIDE DEF Of
    <2>6. QED
      BY <1>6, <2>1, <2>5
  <1> HIDE DEF Of
  <1>9. QED
    BY <1>6, <1>7, <1>8

LEMMA OneOrNone ==
  /\ Cardinality({}) = 0
  /\ \A x : Cardinality({x}) = 1
  BY FS_EmptySet, FS_Singleton

\* A list has one reference to each of its nodes: the array's or a link.
LEMMA NodesReferencedOnce ==
  ASSUME HashInv, Idle, table = Table, NEW b \in Nodes
  PROVE  \/ /\ {n \in Nodes : mem[n].next = b} = {}
            /\ \E i : {index \in Indices : mem[Array][index] = b} = {i}
         \/ /\ \E p : {n \in Nodes : mem[n].next = b} = {p}
            /\ {index \in Indices : mem[Array][index] = b} = {}
  <1>1. PICK home, rank : Shape(home, rank)
    BY DEF HashInv, ListInv
  <1>2. Lists(Nodes, Heads, Nexts, home, rank)
    BY <1>1, AtRest DEF Shape
  <1>3. \A index \in Indices : Heads[index] = mem[Array][index]
    BY AtRest DEF Table, NULL
  <1>4. \A n \in Nodes : Nexts[n] = mem[n].next
    BY AtRest DEF Nexts
  <1>5. b # NULL /\ rank[b] \in Nat /\ home[b] \in Indices
    BY <1>2 DEF Lists
  <1>6. \A i \in Indices : Heads[i] = b => home[b] = i /\ rank[b] = 0
    BY <1>2, <1>5 DEF Lists
  <1>7. \A n \in Nodes : Nexts[n] = b =>
          rank[n] \in Nat /\ home[b] = home[n] /\ rank[b] = rank[n] + 1
    BY <1>2, <1>5 DEF Lists
  <1>8. CASE rank[b] = 0
    <2>1. Heads[home[b]] = b
      BY <1>2, <1>8 DEF Lists
    <2>2. {index \in Indices : mem[Array][index] = b} = {home[b]}
      BY <1>3, <1>5, <1>6, <2>1
    <2>3. {n \in Nodes : mem[n].next = b} = {}
      BY <1>4, <1>7, <1>8
    <2>4. QED
      BY <2>2, <2>3
  <1>9. CASE rank[b] # 0
    <2>1. PICK p \in Nodes : Nexts[p] = b
      BY <1>2, <1>5, <1>9 DEF Lists
    <2>2. \A n \in Nodes : Nexts[n] = b => n = p
      <3>1. \A m, n \in Nodes : home[m] = home[n] /\ rank[m] = rank[n] => m = n
        BY <1>2 DEF Lists
      <3>2. QED
        BY <1>7, <2>1, <3>1
    <2>3. {n \in Nodes : mem[n].next = b} = {p}
      BY <1>4, <2>1, <2>2
    <2>4. {index \in Indices : mem[Array][index] = b} = {}
      BY <1>3, <1>6, <1>9
    <2>5. QED
      BY <2>3, <2>4
  <1>10. QED
    BY <1>8, <1>9

LEMMA ReferencedOnce ==
  ASSUME HashInv, Idle, table = Table,
         NEW b \in Block("node") \cup Block("key") \cup Block("value")
  PROVE  References(b) = 1
  <1> DEFINE K == {n \in Nodes : mem[n].key = b}
             V == {n \in Nodes : mem[n].value = b}
             N == {n \in Nodes : mem[n].next = b}
             H == {index \in Indices : mem[Array][index] = b}
  <1>1. References(b) = Cardinality(K) + Cardinality(V) + Cardinality(N) + Cardinality(H)
    BY AllNodesListed DEF References, Indices
  <1>2. /\ Nodes \cap Block("key") = {} /\ Nodes \cap Block("value") = {}
        /\ Block("key") \cap Block("value") = {} /\ b # NULL
    BY BlocksDiffer DEF Kinds
  <1>3. Kept = Nodes /\ Holders = Nodes /\ InTable = Nodes /\ call.given = NULL
    BY AtRest DEF NoCall
  <1>4. \A n \in Nodes : mem[n].key \in Block("key") /\ mem[n].value \in Block("value")
    BY <1>3, NodeHolds
  <1>5. /\ \A n \in Nodes : mem[n].next \in Nodes \cup {NULL}
        /\ \A i \in Indices : mem[Array][i] \in Nodes \cup {NULL}
    <2>1. PICK home, rank : Shape(home, rank)
      BY DEF HashInv, ListInv
    <2>2. \A i \in Indices : Heads[i] = mem[Array][i]
      BY AtRest DEF Table, NULL
    <2>3. QED
      BY <1>3, <2>1, <2>2, HeadsOfShape
  <1>6. CASE b \in Nodes
    <2>1. K = {} /\ V = {}
      BY <1>2, <1>4, <1>6
    <2>2. (N = {} /\ \E i : H = {i}) \/ (H = {} /\ \E p : N = {p})
      BY <1>6, NodesReferencedOnce
    <2> HIDE DEF K, V, N, H
    <2>3. /\ Cardinality(K) = 0 /\ Cardinality(V) = 0
          /\ \/ Cardinality(N) = 0 /\ Cardinality(H) = 1
             \/ Cardinality(N) = 1 /\ Cardinality(H) = 0
      BY <2>1, <2>2, OneOrNone
    <2>4. QED
      BY <1>1, <2>3
  <1>7. CASE b \in Block("key")
    <2>1. V = {} /\ N = {} /\ H = {}
      BY <1>2, <1>4, <1>5, <1>7
    <2>2. PICK p \in Nodes : mem[p].key = b
      BY <1>3, <1>7 DEF HashInv, HoldInv
    <2>3. \A n \in Nodes : mem[n].key = b => n = p
      BY <1>2, <1>3, <2>2 DEF HashInv, HoldInv
    <2>4. K = {p}
      BY <2>2, <2>3
    <2> HIDE DEF K, V, N, H
    <2>5. /\ Cardinality(K) = 1 /\ Cardinality(V) = 0
          /\ Cardinality(N) = 0 /\ Cardinality(H) = 0
      BY <2>1, <2>4, OneOrNone
    <2>6. QED
      BY <1>1, <2>5
  <1>8. CASE b \in Block("value")
    <2>1. K = {} /\ N = {} /\ H = {}
      BY <1>2, <1>4, <1>5, <1>8
    <2>2. PICK p \in Nodes : mem[p].value = b
      BY <1>2, <1>3, <1>8 DEF HashInv, HoldInv
    <2>3. \A n \in Nodes : mem[n].value = b => n = p
      BY <1>2, <1>3, <2>2 DEF HashInv, HoldInv
    <2>4. V = {p}
      BY <2>2, <2>3
    <2> HIDE DEF K, V, N, H
    <2>5. /\ Cardinality(K) = 0 /\ Cardinality(V) = 1
          /\ Cardinality(N) = 0 /\ Cardinality(H) = 0
      BY <2>1, <2>4, OneOrNone
    <2>6. QED
      BY <1>1, <2>5
  <1>9. QED
    BY <1>6, <1>7, <1>8 DEF Nodes

LEMMA NothingIsLost == HashInv => NothingLeaked
  <1> SUFFICES ASSUME HashInv, Idle
               PROVE  NothingLeaked
    BY DEF NothingLeaked
  <1>1. CASE table = NULL
    BY <1>1, NoTable DEF NothingLeaked, Nodes
  <1>2. CASE table # NULL
    <2>1. table = Table
      BY <1>2 DEF HashInv, TypeInv
    <2>2. Listed \subseteq Block("node")
      BY <2>1, AllNodesListed DEF Nodes
    <2>3. \A b \in Block("node") \cup Block("key") \cup Block("value") : References(b) = 1
      BY <2>1, ReferencedOnce
    <2>4. QED
      BY <1>2, <2>2, <2>3 DEF NothingLeaked
  <1>3. QED
    BY <1>1, <1>2

(***************************************************************************)
(* Between the calls of hash_table.c every node, key and value is held by  *)
(* one list, once, and none is left when the table was freed, whichever    *)
(* allocations of list_insert failed.                                      *)
(***************************************************************************)
THEOREM NothingIsLeaked == Spec => []NothingLeaked
  <1>1. Spec => []HashInv
    BY TableInvariant
  <1>2. HashInv => NothingLeaked
    BY NothingIsLost
  <1>3. QED
    BY <1>1, <1>2, PTL

-----------------------------------------------------------------------------
(***************************************************************************)
(* Every step of a call is a step of the map, or none.                     *)
(***************************************************************************)
MapContents == IF Idle THEN Contents ELSE before

MapRequest == [fn |-> call.fn, key |-> call.key, value |-> call.value]

LEMMA WithoutTable ==
  ASSUME table = NULL
  PROVE  Contents = Map!Empty
  BY DEF Contents, Map!Empty

LEMMA NoRequestAtRest ==
  ASSUME HashInv, Idle
  PROVE  MapContents = Contents /\ MapRequest = Map!NoRequest
  BY AtRest DEF MapContents, MapRequest, Map!NoRequest, NoCall

OneMapping ==
    \A f \in Mapping : HashInv /\ Idle /\ table = Table /\ Represents(f) => Contents = f

LEMMA AlwaysOneMapping == OneMapping
  BY OneMappingRepresented DEF OneMapping

\* A call that returns leaves the mapping its step says.
LEMMA ReturnsMapping ==
  ASSUME HashInv, HashInv', ~Idle, call' = NoCall, table' = Table,
         NEW m \in Mapping, Represents(m)'
  PROVE  MapContents = before /\ MapContents' = m /\ MapRequest' = Map!NoRequest
  <1>1. OneMapping'
    BY AlwaysOneMapping, PTL
  <1>2. Idle'
    BY DEF Idle, NoCall
  <1>3. Contents' = m
    BY <1>1, <1>2 DEF OneMapping
  <1>4. MapContents = before /\ MapContents' = m
    BY <1>2, <1>3 DEF MapContents
  <1>5. MapRequest' = Map!NoRequest
    BY DEF MapRequest, NoCall, Map!NoRequest
  <1>6. QED
    BY <1>4, <1>5

\* A call that goes on.
LEMMA GoingOn ==
  ASSUME call.pc # "idle", call'.pc # "idle", before' = before, result' = result,
         call'.fn = call.fn, call'.key = call.key, call'.value = call.value
  PROVE  UNCHANGED Map!mapVars
  <1>1. ~Idle /\ ~Idle'
    BY DEF Idle
  <1>2. QED
    BY <1>1 DEF Map!mapVars

\* A call that is made.
LEMMA CallIsMade ==
  ASSUME HashInv, NEW c, Called(c), c.pc # "idle",
         [fn |-> c.fn, key |-> c.key, value |-> c.value] \in Map!Requests
  PROVE  Map!Call
  <1>1. Idle /\ call' = c /\ before' = Contents /\ result' = result
    BY DEF Called
  <1>2. ~Idle'
    BY <1>1 DEF Idle
  <1>3. MapContents = Contents /\ MapRequest = Map!NoRequest
    BY <1>1, NoRequestAtRest
  <1>4. MapContents' = MapContents
    BY <1>1, <1>2, <1>3 DEF MapContents
  <1>5. MapRequest' \in Map!Requests
    BY <1>1 DEF MapRequest
  <1>6. QED
    BY <1>1, <1>3, <1>4, <1>5 DEF Map!Call, MapContents, MapRequest

LEMMA CallsRefine ==
  ASSUME HashInv, Begin, ~ hash_table_create
  PROVE  Map!Call
  <1>1. ASSUME NEW key \in Keys, NEW value \in Values, hash_table_insert(key, value)
        PROVE  Map!Call
    <2> DEFINE given == IF value_cloner THEN NULL ELSE New("value")
               c == [NoCall EXCEPT !.fn = "insert", !.pc = "node", !.key = key,
                       !.value = value, !.given = given, !.index = index_of(key)]
    <2>1. Called(c)
      BY <1>1 DEF hash_table_insert
    <2>2. /\ c.pc = "node" /\ c.fn = "insert" /\ c.key = key /\ c.value = value
      BY DEF NoCall
    <2> HIDE DEF c
    <2>3. [fn |-> c.fn, key |-> c.key, value |-> c.value] \in Map!Requests
      BY <2>2 DEF Map!Requests
    <2>4. QED
      BY <2>1, <2>2, <2>3, CallIsMade
  <1>2. ASSUME NEW fn \in {"lookup", "delete"}, NEW key \in Keys, Search(fn, key)
        PROVE  Map!Call
    <2> DEFINE c == [NoCall EXCEPT !.fn = fn, !.pc = "walk", !.key = key,
                       !.index = index_of(key), !.list = mem[Array][index_of(key)],
                       !.current = mem[Array][index_of(key)]]
    <2>1. Called(c)
      BY <1>2 DEF Search
    <2>2. c.pc = "walk" /\ c.fn = fn /\ c.key = key /\ c.value = NoValue
      BY DEF NoCall
    <2> HIDE DEF c
    <2>3. [fn |-> c.fn, key |-> c.key, value |-> c.value] \in Map!Requests
      BY <2>2 DEF Map!Requests
    <2>4. QED
      BY <2>1, <2>2, <2>3, CallIsMade
  <1>3. CASE hash_table_free
    <2> DEFINE c == [NoCall EXCEPT !.fn = "free", !.pc = "list"]
    <2>1. Called(c)
      BY <1>3 DEF hash_table_free
    <2>2. c.pc = "list" /\ c.fn = "free" /\ c.key = NoValue /\ c.value = NoValue
      BY DEF NoCall
    <2> HIDE DEF c
    <2>3. [fn |-> c.fn, key |-> c.key, value |-> c.value] \in Map!Requests
      BY <2>2 DEF Map!Requests
    <2>4. QED
      BY <2>1, <2>2, <2>3, CallIsMade
  <1>4. QED
    BY <1>1, <1>2, <1>3 DEF Begin, hash_table_lookup, hash_table_delete

LEMMA SilentSteps ==
  ASSUME HashInv, call.pc # "idle",
         \/ AllocateNode \/ CloneKey \/ CloneValue \/ Deallocate
         \/ NextList \/ FreeNode \/ ListFreed
         \/ Walk /\ call.pc = "walk" /\ (key_of(call.current) # call.key \/ call.fn # "lookup")
         \/ WalkEnds /\ call.fn = "insert"
         \/ Unlink /\ call.fn = "insert"
  PROVE  UNCHANGED Map!mapVars
  <1>1. call \in CallType
    BY CallFields
  <1> DEFINE On == /\ call'.pc # "idle" /\ before' = before /\ result' = result
                   /\ call'.fn = call.fn /\ call'.key = call.key /\ call'.value = call.value
  <1>2. CASE AllocateNode
    <2>1. On
      BY <1>1, <1>2 DEF AllocateNode, Go, CallType
    <2>2. QED
      BY <2>1, GoingOn
  <1>3. CASE CloneKey
    <2>1. On
      BY <1>1, <1>3 DEF CloneKey, Go, CallType
    <2>2. QED
      BY <2>1, GoingOn
  <1>4. CASE CloneValue
    <2>1. On
      BY <1>1, <1>4 DEF CloneValue, Go, ToWalk, CallType
    <2>2. QED
      BY <2>1, GoingOn
  <1>5. CASE Deallocate
    <2>1. On
      BY <1>1, <1>5 DEF Deallocate, Go, CallType
    <2>2. QED
      BY <2>1, GoingOn
  <1>6. CASE NextList \/ FreeNode \/ ListFreed
    <2>1. On
      BY <1>1, <1>6 DEF NextList, FreeNode, ListFreed, Go, CallType
    <2>2. QED
      BY <2>1, GoingOn
  <1>7. CASE Walk /\ call.pc = "walk" /\ (key_of(call.current) # call.key \/ call.fn # "lookup")
    <2>1. On
      BY <1>1, <1>7 DEF Walk, Go, CallType
    <2>2. QED
      BY <2>1, GoingOn
  <1>8. CASE WalkEnds /\ call.fn = "insert"
    <2>1. On
      BY <1>1, <1>8 DEF WalkEnds, Go, CallType
    <2>2. QED
      BY <2>1, GoingOn
  <1>9. CASE Unlink /\ call.fn = "insert"
    <2>1. On
      BY <1>1, <1>9 DEF Unlink, Go, CallType
    <2>2. QED
      BY <2>1, GoingOn
  <1>10. QED
    BY <1>2, <1>3, <1>4, <1>5, <1>6, <1>7, <1>8, <1>9

\* A call that returns and leaves the mapping as it was before the call.
LEMMA LeavesMapping ==
  ASSUME HashInv, HashInv', ~Idle, call' = NoCall, table' = Table,
         before' = before, Represents(before)'
  PROVE  /\ MapContents = before /\ MapContents' = before
         /\ MapRequest' = Map!NoRequest
  <1>1. before \in Mapping
    BY DEF HashInv, TypeInv
  <1>2. \A m : m = before => Represents(m)'
    BY DEF Represents
  <1>3. QED
    BY <1>1, <1>2, ReturnsMapping

LEMMA CleanupRefines ==
  ASSUME HashInv, HashInv', InsertCleanup
  PROVE  Map!Insert
  <1>1. /\ call.pc = "cleanup" /\ ~Idle /\ call' = NoCall /\ result' = NoValue
        /\ table' = table /\ before' = before
    BY DEF InsertCleanup, Return, Idle
  <1>2. call.fn = "insert" /\ table = Table
    BY <1>1, WhoseStep
  <1>3. Represents(before)'
    BY CleanupKeepsInv
  <1>4. MapContents' = MapContents /\ MapRequest' = Map!NoRequest
    BY <1>1, <1>2, <1>3, LeavesMapping
  <1>5. MapRequest.fn = "insert"
    BY <1>2 DEF MapRequest
  <1>6. QED
    BY <1>1, <1>4, <1>5 DEF Map!Insert, Map!Returned, MapContents, MapRequest

LEMMA LinkRefines ==
  ASSUME HashInv, HashInv', Link
  PROVE  Map!Insert
  <1>1. /\ call.pc = "link" /\ ~Idle /\ call' = NoCall /\ result' = "table"
        /\ table' = table /\ before' = before
    BY DEF Link, Return, Idle
  <1>2. call.fn = "insert" /\ table = Table
    BY LinkKeepsInv
  <1>3. PICK m : m = [before EXCEPT ![call.key] = call.value]
    OBVIOUS
  <1>4. Represents(m)'
    BY <1>3, LinkKeepsInv
  <1>5. m \in Mapping
    BY <1>2, <1>3 DEF HashInv, TypeInv, ProtocolInv, Mapping
  <1>6. MapContents = before /\ MapContents' = m /\ MapRequest' = Map!NoRequest
    BY <1>1, <1>2, <1>4, <1>5, ReturnsMapping
  <1>7. MapRequest.fn = "insert" /\ MapRequest.key = call.key /\ MapRequest.value = call.value
    BY <1>2 DEF MapRequest
  <1>8. MapContents' = [MapContents EXCEPT ![MapRequest.key] = MapRequest.value]
    BY <1>3, <1>6, <1>7
  <1>9. QED
    BY <1>1, <1>6, <1>7, <1>8 DEF Map!Insert, Map!Returned, MapContents, MapRequest

LEMMA UnlinkRefines ==
  ASSUME HashInv, HashInv', Unlink, call.fn = "delete"
  PROVE  Map!Delete
  <1>1. /\ call.pc = "unlink" /\ ~Idle /\ call' = NoCall /\ result' = NoValue
        /\ table' = table /\ before' = before
    BY DEF Unlink, Return, Idle
  <1>2. table = Table /\ call.key \in Keys
    BY <1>1, WhoseStep, SearchedList
  <1>3. PICK m : m = Cleared
    OBVIOUS
  <1>4. Represents(m)'
    BY <1>3, UnlinkKeepsInv
  <1>5. m \in Mapping
    BY <1>2, <1>3 DEF HashInv, TypeInv, Mapping, Cleared
  <1>6. MapContents = before /\ MapContents' = m /\ MapRequest' = Map!NoRequest
    BY <1>1, <1>2, <1>4, <1>5, ReturnsMapping
  <1>7. MapRequest.fn = "delete" /\ MapRequest.key = call.key
    BY DEF MapRequest
  <1>8. MapContents' = [MapContents EXCEPT ![MapRequest.key] = NoValue]
    BY <1>3, <1>6, <1>7 DEF Cleared
  <1>9. QED
    BY <1>1, <1>6, <1>7, <1>8 DEF Map!Delete, Map!Returned, MapContents, MapRequest

\* The value a search finds is that of the mapping.
LEMMA SearchRefines ==
  ASSUME HashInv, HashInv', call.fn \in {"lookup", "delete"}, call.pc = "walk", call' = NoCall,
         UNCHANGED <<mem, value_cloner, table, before>>, result' = before[call.key],
         call.fn = "delete" => before[call.key] = NoValue
  PROVE  Map!Lookup \/ Map!Delete
  <1>1. ~Idle /\ table' = Table
    BY WhoseStep DEF Idle
  <1>2. Represents(before)'
    BY SearchReturns
  <1>3. MapContents = before /\ MapContents' = before /\ MapRequest' = Map!NoRequest
    BY <1>1, <1>2, LeavesMapping
  <1>4. MapRequest.fn = call.fn /\ MapRequest.key = call.key
    BY DEF MapRequest
  <1>5. CASE call.fn = "lookup"
    BY <1>3, <1>4, <1>5 DEF Map!Lookup, Map!Returned, MapContents, MapRequest
  <1>6. CASE call.fn = "delete"
    <2>1. before \in Mapping
      BY DEF HashInv, TypeInv
    <2>2. before = [before EXCEPT ![call.key] = NoValue]
      BY <1>6, <2>1 DEF Mapping
    <2>3. MapContents' = [MapContents EXCEPT ![MapRequest.key] = NoValue]
      BY <1>3, <1>4, <2>2
    <2>4. result' = NoValue
      BY <1>6
    <2>5. QED
      BY <1>3, <1>4, <1>6, <2>3, <2>4
      DEF Map!Delete, Map!Returned, MapContents, MapRequest
  <1>7. QED
    BY <1>5, <1>6

LEMMA LookupRefines ==
  ASSUME HashInv, HashInv', Walk, key_of(call.current) = call.key, call.fn = "lookup"
  PROVE  Map!Lookup \/ Map!Delete
  <1>1. /\ call.pc = "walk" /\ call.current # NULL /\ call' = NoCall
        /\ result' = mem[mem[call.current].value]
        /\ UNCHANGED <<mem, value_cloner, table, before>>
    BY DEF Walk, Return
  <1>2. call.current \in Kept
    BY <1>1, CurrentInTable DEF Kept, Holders, InTable
  <1>3. Represents(before)
    BY <1>1 DEF HashInv, BeforeInv
  <1>4. before[call.key] = mem[mem[call.current].value]
    BY <1>2, <1>3 DEF Represents
  <1>5. QED
    BY <1>1, <1>4, SearchRefines

\* A search that comes to the end of the list: no node has the key.
LEMMA MissRefines ==
  ASSUME HashInv, HashInv', WalkEnds, call.fn # "insert"
  PROVE  Map!Lookup \/ Map!Delete
  <1>1. /\ call.pc = "walk" /\ call.current = NULL /\ call' = NoCall /\ result' = NoValue
        /\ UNCHANGED <<mem, value_cloner, table, before>>
    BY DEF WalkEnds, Return
  <1>2. call.fn \in {"lookup", "delete"} /\ call.key \in Keys
    BY <1>1, WhoseStep, SearchedList
  <1>3. \A n \in Kept : key_of(n) # call.key
    <2>1. PICK home, rank : Shape(home, rank)
      BY DEF HashInv, ListInv
    <2>2. QED
      BY <1>1, <2>1 DEF Shape, Position
  <1>4. Represents(before)
    BY <1>1 DEF HashInv, BeforeInv
  <1>5. before[call.key] = NoValue
    BY <1>2, <1>3, <1>4 DEF Represents
  <1>6. QED
    BY <1>1, <1>2, <1>5, SearchRefines

LEMMA FreedRefines ==
  ASSUME HashInv, Freed
  PROVE  Map!Free
  <1>1. /\ call.pc = "list" /\ call' = NoCall /\ result' = NoValue /\ table' = NULL
    BY DEF Freed
  <1>2. ~Idle /\ Idle'
    BY <1>1 DEF Idle, NoCall
  <1>3. Contents' = Map!Empty
    BY <1>1 DEF Contents, Map!Empty
  <1>4. MapContents' = Map!Empty /\ MapRequest' = Map!NoRequest
    BY <1>1, <1>2, <1>3 DEF MapContents, MapRequest, NoCall, Map!NoRequest
  <1>5. MapRequest.fn = "free"
    BY <1>1, WhoseStep DEF MapRequest
  <1>6. QED
    BY <1>1, <1>4, <1>5 DEF Map!Free, Map!Returned, MapContents, MapRequest

\* A new table has no nodes.
LEMMA CreateRefines ==
  ASSUME HashInv, HashInv', hash_table_create
  PROVE  UNCHANGED Map!mapVars
  <1>1. /\ Idle /\ Idle' /\ table = NULL /\ call' = call /\ result' = result
    BY DEF hash_table_create, Idle
  <1>2. Contents' = Contents
    <2>1. CASE mem' = mem /\ table' = table
      BY <1>1, <2>1 DEF Contents
    <2>2. CASE ~ (mem' = mem /\ table' = table)
      <3>1. /\ table' = Table
            /\ mem' = With(With(mem, Table, "table"), Array, [i \in 0..Size - 1 |-> NULL])
        BY <2>2 DEF hash_table_create
      <3>2. DOMAIN mem' = DOMAIN mem \cup {Table, Array}
        BY <3>1 DEF With
      <3>3. Nodes' = {}
        <4>1. Nodes = {}
          BY <1>1, NoTable
        <4>2. Table[1] # "node" /\ Array[1] # "node"
          BY DEF Table, Array
        <4>3. QED
          BY <3>2, <4>1, <4>2 DEF Nodes, Block
      <3>4. PICK m : m = Map!Empty
        OBVIOUS
      <3>5. Represents(m)'
        BY <3>3, <3>4 DEF Represents, Kept, InTable, Map!Empty
      <3>6. m \in Mapping
        BY <3>4 DEF Mapping, Map!Empty
      <3>7. OneMapping'
        BY AlwaysOneMapping, PTL
      <3>8. Contents' = m
        BY <1>1, <3>1, <3>5, <3>6, <3>7 DEF OneMapping
      <3>9. QED
        BY <1>1, <3>4, <3>8, WithoutTable
    <2>3. QED
      BY <2>1, <2>2
  <1>3. QED
    BY <1>1, <1>2 DEF Map!mapVars

LEMMA RestartRefines ==
  ASSUME Restart
  PROVE  UNCHANGED Map!mapVars
  <1>1. Idle /\ Idle' /\ table = NULL /\ table' = NULL /\ call' = call /\ result' = result
    BY DEF Restart, Idle
  <1>2. Contents = Map!Empty /\ Contents' = Map!Empty
    BY <1>1 DEF Contents, Map!Empty
  <1>3. QED
    BY <1>1, <1>2 DEF Map!mapVars

LEMMA StepsRefine ==
  ASSUME HashInv, HashInv', [Next]_vars
  PROVE  [Map!Next]_Map!mapVars
  <1> USE DEF Map!Next
  <1>1. CASE hash_table_create
    BY <1>1, CreateRefines
  <1>2. CASE Begin /\ ~ hash_table_create
    BY <1>2, CallsRefine
  <1>3. CASE \/ AllocateNode \/ CloneKey \/ CloneValue \/ Deallocate
             \/ NextList \/ FreeNode \/ ListFreed
    <2>1. call.pc # "idle"
      BY <1>3
      DEF AllocateNode, CloneKey, CloneValue, Deallocate, NextList, FreeNode, ListFreed
    <2>2. QED
      BY <1>3, <2>1, SilentSteps
  <1>4. CASE InsertCleanup
    BY <1>4, CleanupRefines
  <1>5. CASE Walk
    <2>1. call.pc = "walk"
      BY <1>5 DEF Walk
    <2>2. CASE key_of(call.current) = call.key /\ call.fn = "lookup"
      BY <1>5, <2>2, LookupRefines
    <2>3. CASE ~ (key_of(call.current) = call.key /\ call.fn = "lookup")
      BY <1>5, <2>1, <2>3, SilentSteps
    <2>4. QED
      BY <2>2, <2>3
  <1>6. CASE WalkEnds
    <2>1. call.pc = "walk"
      BY <1>6 DEF WalkEnds
    <2>2. CASE call.fn = "insert"
      BY <1>6, <2>1, <2>2, SilentSteps
    <2>3. CASE call.fn # "insert"
      BY <1>6, <2>3, MissRefines
    <2>4. QED
      BY <2>2, <2>3
  <1>7. CASE Unlink
    <2>1. call.pc = "unlink"
      BY <1>7 DEF Unlink
    <2>2. call.fn \in {"insert", "delete"}
      BY <2>1, WhoseStep
    <2>3. CASE call.fn = "insert"
      BY <1>7, <2>1, <2>3, SilentSteps
    <2>4. CASE call.fn = "delete"
      BY <1>7, <2>4, UnlinkRefines
    <2>5. QED
      BY <2>2, <2>3, <2>4
  <1>8. CASE Link
    BY <1>8, LinkRefines
  <1>9. CASE Freed
    BY <1>9, FreedRefines
  <1>10. CASE Restart
    BY <1>10, RestartRefines
  <1>11. CASE UNCHANGED vars
    BY <1>11 DEF vars, Map!mapVars, Idle, Contents, Visited, next_of, key_of, Block
  <1>12. QED
    BY <1>1, <1>2, <1>3, <1>4, <1>5, <1>6, <1>7, <1>8, <1>9, <1>10, <1>11
    DEF Next, Step, Begin

LEMMA InitRefines == Init => Map!Init
  BY DEF Init, Map!Init, Idle, NoCall, Contents, Map!Empty, Map!NoRequest

(***************************************************************************)
(* The lists of hash_table.c implement the map its header promises: what   *)
(* lookup returns, what insert and delete leave, and that an insertion     *)
(* without memory leaves the old pair, for any hash function.              *)
(***************************************************************************)
THEOREM TheListsAreAMap == Spec => ImplementsMap
  <1>1. Init => Map!Init
    BY InitRefines
  <1>2. HashInv /\ HashInv' /\ [Next]_vars => [Map!Next]_Map!mapVars
    BY StepsRefine
  <1>3. QED
    BY <1>1, <1>2, TableInvariant, PTL DEF Spec, ImplementsMap, Map!Spec

=============================================================================
