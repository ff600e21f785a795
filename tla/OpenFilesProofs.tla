-------------------------- MODULE OpenFilesProofs --------------------------
(***************************************************************************)
(* Proofs about OpenFiles with one handler at a time, as when the driver   *)
(* runs with the option -s: for any files, any bounds on handles and any   *)
(* allocations that fail.  (With two threads that is not so:               *)
(* OpenFilesThreads and OpenFilesUnlink.)                                  *)
(***************************************************************************)
EXTENDS OpenFiles, FiniteSetTheorems, TLAPS

PcType == {"idle", "get_object", "fh_read", "fh_write", "fh_insert_read",
           "fh_insert_write", "refs_read", "refs_write", "refs_insert", "cleanup",
           "unref"}

HandlerType == [pc : PcType, path : Paths \cup {NoPath}, obj : Objects \cup {NoObject},
                fh : Fhs, seen : SUBSET HandleEntry, refs : Nat]

-----------------------------------------------------------------------------
(***************************************************************************)
(* The inductive invariant, for the only thread t.                         *)
(***************************************************************************)

Types ==
    /\ exists \subseteq Files
    /\ last_fh \in Fhs
    /\ fh_table \subseteq HandleEntry
    /\ file_table \in [Files -> Nat]
    /\ heap \subseteq Objects
    /\ held \subseteq HeldHandle
    /\ th \in [Threads -> HandlerType]
    /\ failure \in {"none", "double free"}

\* The steps of open before its object is in fh_table, and after.
Owning == {"fh_read", "fh_write", "fh_insert_read", "fh_insert_write"}
Entered == {"refs_read", "refs_write", "refs_insert"}

New(t) == [fh |-> th[t].fh, obj |-> th[t].obj, path |-> th[t].path]

\* Entries differ in their handles and in their objects.
EntriesDiffer ==
    \A d, e \in fh_table : d.fh = e.fh \/ d.obj = e.obj => d = e

\* fh_table has the handles that are held and the one being opened.
TableIsHeld(t) ==
    /\ \A k \in held : \E e \in fh_table : e.fh = k.fh /\ e.path = k.path
    /\ \A j, k \in held : j.fh = k.fh => j = k
    /\ \A e \in fh_table : \/ \E k \in held : k.fh = e.fh
                           \/ th[t].pc \in Entered /\ e = New(t)

\* Handles come from the counter.
HandlesCounted(t) ==
    /\ \A e \in fh_table : e.fh <= last_fh
    /\ th[t].pc = "fh_write" => th[t].fh = last_fh + 1
    /\ th[t].pc \in {"fh_insert_read", "fh_insert_write"} =>
          th[t].fh = last_fh /\ \A e \in fh_table : e.fh # last_fh

\* The objects of fh_table and the handler's own.
ObjectsOwned(t) ==
    /\ heap = {e.obj : e \in fh_table} \cup
              (IF th[t].pc \in Owning THEN {th[t].obj} ELSE {})
    /\ th[t].pc \in Owning => th[t].obj \in Objects
    /\ th[t].pc \in Owning \cup {"cleanup"} => \A e \in fh_table : e.obj # th[t].obj
    /\ th[t].pc \in {"idle", "get_object", "unref"} => th[t].obj = NoObject

\* What the handler knows.
Locals(t) ==
    /\ th[t].pc \in Owning \cup Entered \cup {"unref"} => th[t].path \in Files
    /\ th[t].pc = "fh_insert_write" => th[t].seen = fh_table
    /\ th[t].pc \in Entered =>
          New(t) \in fh_table /\ \A k \in held : k.fh # th[t].fh
    /\ th[t].pc = "refs_write" => th[t].refs = file_table[th[t].path]
    /\ th[t].pc = "refs_insert" => file_table[th[t].path] = 0

Busy(t) == IF th[t].pc = "idle" THEN 0 ELSE 1

Unreferring(t, p) == IF th[t].pc = "unref" /\ th[t].path = p THEN 1 ELSE 0

\* The counts.
Counts(t) ==
    /\ IsFiniteSet(held) /\ Cardinality(held) + Busy(t) <= MaxHeld
    /\ \A p \in Files : file_table[p] = Cardinality(HeldOn(p)) + Unreferring(t, p)

OneThreadInv(t) ==
    /\ Types
    /\ EntriesDiffer
    /\ TableIsHeld(t)
    /\ HandlesCounted(t)
    /\ ObjectsOwned(t)
    /\ Locals(t)
    /\ Counts(t)

-----------------------------------------------------------------------------
(***************************************************************************)
(* Types and locals.                                                       *)
(***************************************************************************)

LEMMA Numbers ==
    /\ \A n \in Fhs : n \in Nat
    /\ \A o \in Objects : o # NoObject
    /\ 0 \in Fhs
  BY OpenFilesAssumption DEF Fhs, Objects, NoObject

LEMMA Fields ==
  ASSUME NEW t \in Threads, Types
  PROVE  /\ th[t] \in HandlerType
         /\ th[t].pc \in PcType /\ th[t].path \in Paths \cup {NoPath}
         /\ th[t].obj \in Objects \cup {NoObject} /\ th[t].fh \in Fhs /\ th[t].fh \in Nat
         /\ last_fh \in Fhs /\ last_fh \in Nat
         /\ \A e \in fh_table : /\ e.fh \in Fhs /\ e.fh \in Nat /\ e.obj \in Objects
                                /\ e.path \in Files /\ e \in HandleEntry
         /\ \A k \in held : k.path \in Files /\ k.fh \in Fhs /\ k \in HeldHandle
  <1>1. th[t] \in HandlerType
    BY DEF Types
  <1>2. \A e \in fh_table : e \in HandleEntry
    BY DEF Types
  <1>3. \A k \in held : k \in HeldHandle
    BY DEF Types
  <1>4. last_fh \in Fhs
    BY DEF Types
  <1>5. QED
    BY <1>1, <1>2, <1>3, <1>4, Numbers DEF HandlerType, HandleEntry, HeldHandle

LEMMA IdleType == Idle \in HandlerType
  BY Numbers DEF Idle, HandlerType, PcType

\* A handler that moves.
LEMMA Moves ==
  ASSUME NEW t, Threads = {t}, Types, NEW b \in HandlerType, th' = [th EXCEPT ![t] = b]
  PROVE  th'[t] = b /\ th' \in [Threads -> HandlerType]
  BY DEF Types

LEMMA Arrives ==
  ASSUME NEW t, Threads = {t}, Types, NEW pc \in PcType, th' = [th EXCEPT ![t].pc = pc]
  PROVE  /\ th' \in [Threads -> HandlerType]
         /\ th'[t].pc = pc /\ th'[t].path = th[t].path /\ th'[t].obj = th[t].obj
         /\ th'[t].fh = th[t].fh /\ th'[t].seen = th[t].seen /\ th'[t].refs = th[t].refs
  <1>1. th[t] \in HandlerType
    BY Fields
  <1>2. [th[t] EXCEPT !.pc = pc] \in HandlerType
    BY <1>1 DEF HandlerType
  <1>3. th' = [th EXCEPT ![t] = [th[t] EXCEPT !.pc = pc]]
    OBVIOUS
  <1>4. th'[t] = [th[t] EXCEPT !.pc = pc] /\ th' \in [Threads -> HandlerType]
    BY <1>2, <1>3, Moves
  <1>5. QED
    BY <1>1, <1>4 DEF HandlerType

LEMMA Rests ==
  ASSUME NEW t, Threads = {t}, Types, Return(t)
  PROVE  /\ th' \in [Threads -> HandlerType]
         /\ th'[t].pc = "idle" /\ th'[t].obj = NoObject
  BY IdleType, Moves DEF Return, Idle

-----------------------------------------------------------------------------
(***************************************************************************)
(* Room for one more.                                                      *)
(***************************************************************************)

\* As long as another handle may be held there is an object to allocate ...
LEMMA ObjectFree ==
  ASSUME NEW t, Threads = {t}, OneThreadInv(t), th[t].pc = "get_object"
  PROVE  \E o \in Objects : o \notin heap
  <1> SUFFICES ASSUME \A o \in Objects : o \in heap PROVE FALSE
    OBVIOUS
  <1>1. \A o \in Objects : \E k \in held : \E e \in fh_table : e.obj = o /\ e.fh = k.fh
    <2> SUFFICES ASSUME NEW o \in Objects
                 PROVE  \E k \in held : \E e \in fh_table : e.obj = o /\ e.fh = k.fh
      OBVIOUS
    <2>1. PICK e \in fh_table : e.obj = o
      BY DEF OneThreadInv, ObjectsOwned, Owning
    <2>2. QED
      BY <2>1 DEF OneThreadInv, TableIsHeld, Entered
  <1> DEFINE handleOf == [o \in Objects |->
                CHOOSE k \in held : \E e \in fh_table : e.obj = o /\ e.fh = k.fh]
  <1>2. /\ handleOf \in [Objects -> held]
        /\ \A o \in Objects : \E e \in fh_table : e.obj = o /\ e.fh = handleOf[o].fh
    BY <1>1
  <1> HIDE DEF handleOf
  <1>3. IsFiniteSet(Objects) /\ Cardinality(Objects) = MaxHeld + 1
    <2>1. Cardinality(Threads) = 1
      BY FS_Singleton
    <2>2. Objects = 1..MaxHeld + 1 /\ MaxHeld \in Nat
      BY <2>1, OpenFilesAssumption DEF Objects
    <2>3. QED
      BY <2>2, FS_Interval
  <1>4. IsFiniteSet(held) /\ Cardinality(held) < Cardinality(Objects)
    <2>1. IsFiniteSet(held) /\ Cardinality(held) + 1 <= MaxHeld
      BY DEF OneThreadInv, Counts, Busy
    <2>2. Cardinality(held) \in Nat /\ MaxHeld \in Nat
      BY <2>1, FS_CardinalityType, OpenFilesAssumption
    <2>3. QED
      BY <1>3, <2>1, <2>2
  <1>5. PICK n, o \in Objects : n # o /\ handleOf[n] = handleOf[o]
    BY <1>2, <1>3, <1>4, FS_PigeonHole
  <1>6. QED
    BY <1>2, <1>5 DEF OneThreadInv, EntriesDiffer

\* ... and a place for the handle.
LEMMA SlotFree ==
  ASSUME NEW t, Threads = {t}, OneThreadInv(t), th[t].pc # "idle"
  PROVE  \E s \in Slots : \A k \in held : k.slot # s
  <1> SUFFICES ASSUME \A s \in Slots : \E k \in held : k.slot = s PROVE FALSE
    OBVIOUS
  <1> DEFINE handleIn == [s \in Slots |-> CHOOSE k \in held : k.slot = s]
  <1>1. handleIn \in [Slots -> held] /\ \A s \in Slots : handleIn[s].slot = s
    OBVIOUS
  <1> HIDE DEF handleIn
  <1>2. IsFiniteSet(Slots) /\ Cardinality(Slots) = MaxHeld
    BY OpenFilesAssumption, FS_Interval DEF Slots
  <1>3. IsFiniteSet(held) /\ Cardinality(held) < Cardinality(Slots)
    <2>1. IsFiniteSet(held) /\ Cardinality(held) + 1 <= MaxHeld
      BY DEF OneThreadInv, Counts, Busy
    <2>2. Cardinality(held) \in Nat /\ MaxHeld \in Nat
      BY <2>1, FS_CardinalityType, OpenFilesAssumption
    <2>3. QED
      BY <1>2, <2>1, <2>2
  <1>4. PICK r, s \in Slots : r # s /\ handleIn[r] = handleIn[s]
    BY <1>1, <1>2, <1>3, FS_PigeonHole
  <1>5. QED
    BY <1>1, <1>4

-----------------------------------------------------------------------------
(***************************************************************************)
(* The actions.                                                            *)
(***************************************************************************)

\* The counts of a step that opens, closes and counts nothing.
LEMMA SameCounts ==
  ASSUME NEW t, Counts(t), held' = held, file_table' = file_table,
         Busy(t)' <= Busy(t), th[t].pc # "unref", th'[t].pc # "unref"
  PROVE  Counts(t)'
  <1>1. Cardinality(held) \in Nat /\ Busy(t) \in Nat /\ Busy(t)' \in Nat /\ MaxHeld \in Nat
    BY FS_CardinalityType, OpenFilesAssumption DEF Counts, Busy
  <1>2. Cardinality(held) + Busy(t)' <= MaxHeld
    BY <1>1 DEF Counts
  <1>3. \A p : HeldOn(p)' = HeldOn(p)
    BY DEF HeldOn
  <1>4. \A p : Unreferring(t, p)' = 0 /\ Unreferring(t, p) = 0
    BY DEF Unreferring
  <1>5. QED
    BY <1>2, <1>3, <1>4 DEF Counts

LEMMA OpenInv ==
  ASSUME NEW t, Threads = {t}, OneThreadInv(t), NEW p \in Paths, open(t, p)
  PROVE  OneThreadInv(t)'
  <1> DEFINE b == [Idle EXCEPT !.pc = "get_object", !.path = p]
  <1>1. b \in HandlerType /\ b.pc = "get_object" /\ b.obj = NoObject
    BY IdleType DEF HandlerType, Idle, PcType
  <1> HIDE DEF b
  <1>2. th' = [th EXCEPT ![t] = b]
    BY DEF open, b
  <1>3. th'[t] = b /\ th' \in [Threads -> HandlerType]
    BY <1>1, <1>2, Moves DEF OneThreadInv
  <1>4. /\ th[t].pc = "idle"
        /\ exists' = exists /\ last_fh' = last_fh /\ fh_table' = fh_table
        /\ file_table' = file_table /\ heap' = heap /\ held' = held /\ failure' = failure
    BY DEF open, At
  <1>5. Types'
    BY <1>3, <1>4 DEF OneThreadInv, Types
  <1>6. EntriesDiffer' /\ TableIsHeld(t)' /\ HandlesCounted(t)'
    BY <1>1, <1>3, <1>4
    DEF OneThreadInv, EntriesDiffer, TableIsHeld, HandlesCounted, Entered
  <1>7. ObjectsOwned(t)' /\ Locals(t)'
    BY <1>1, <1>3, <1>4 DEF OneThreadInv, ObjectsOwned, Locals, Owning, Entered
  <1>8. Counts(t)'
    <2>1. {u \in Threads : th[u].pc # "idle"} = {}
      BY <1>4
    <2>2. Cardinality(held) + 0 < MaxHeld
      BY <2>1, FS_EmptySet DEF open
    <2>3. Cardinality(held) \in Nat /\ MaxHeld \in Nat
      BY FS_CardinalityType, OpenFilesAssumption DEF OneThreadInv, Counts
    <2>4. Cardinality(held) + 1 <= MaxHeld
      BY <2>2, <2>3
    <2>5. Busy(t)' = 1 /\ \A q : HeldOn(q)' = HeldOn(q)
      BY <1>1, <1>3, <1>4 DEF Busy, HeldOn
    <2>6. \A q : Unreferring(t, q)' = 0 /\ Unreferring(t, q) = 0
      BY <1>1, <1>3, <1>4 DEF Unreferring
    <2>7. QED
      BY <1>4, <2>4, <2>5, <2>6 DEF OneThreadInv, Counts
  <1>9. QED
    BY <1>5, <1>6, <1>7, <1>8 DEF OneThreadInv

\* The answer of a handler that entered nothing, or whose entry is gone again.
LEMMA AnswerInv ==
  ASSUME NEW t, Threads = {t}, OneThreadInv(t), Return(t),
         th[t].pc \in Owning \cup {"get_object", "cleanup"},
         \/ th[t].pc = "get_object" /\ heap' = heap /\ failure' = failure
         \/ th[t].pc # "get_object" /\ fs_object_free(th[t].obj),
         exists' = exists, last_fh' = last_fh, fh_table' = fh_table,
         file_table' = file_table, held' = held
  PROVE  OneThreadInv(t)'
  <1>1. th' \in [Threads -> HandlerType] /\ th'[t].pc = "idle" /\ th'[t].obj = NoObject
    BY Rests DEF OneThreadInv
  <1>2. heap' = {e.obj : e \in fh_table}
    BY DEF OneThreadInv, ObjectsOwned, Owning, fs_object_free
  <1>3. Types'
    BY <1>1, <1>2 DEF OneThreadInv, Types, ObjectsOwned, fs_object_free
  <1>4. EntriesDiffer' /\ TableIsHeld(t)' /\ HandlesCounted(t)'
    BY <1>1
    DEF OneThreadInv, EntriesDiffer, TableIsHeld, HandlesCounted, Entered, Owning
  <1>5. ObjectsOwned(t)' /\ Locals(t)'
    BY <1>1, <1>2 DEF OneThreadInv, ObjectsOwned, Locals, Owning, Entered
  <1>6. Counts(t)'
    BY <1>1, SameCounts DEF OneThreadInv, Busy, Owning
  <1>7. QED
    BY <1>3, <1>4, <1>5, <1>6 DEF OneThreadInv

LEMMA GetObjectInv ==
  ASSUME NEW t, Threads = {t}, OneThreadInv(t), GetObject(t)
  PROVE  OneThreadInv(t)'
  <1>1. /\ th[t].pc = "get_object"
        /\ exists' = exists /\ last_fh' = last_fh /\ fh_table' = fh_table
        /\ file_table' = file_table /\ held' = held /\ failure' = failure
    BY DEF GetObject, At
  <1>2. CASE Return(t) /\ UNCHANGED heap
    BY <1>1, <1>2, AnswerInv
  <1>3. CASE /\ th[t].path \in exists
             /\ LET o == CHOOSE o \in Objects : o \notin heap
                IN  /\ heap' = heap \cup {o}
                    /\ th' = [th EXCEPT ![t].pc = "fh_read", ![t].obj = o]
    <2>1. PICK o \in Objects : /\ o \notin heap /\ heap' = heap \cup {o}
                               /\ th' = [th EXCEPT ![t].pc = "fh_read", ![t].obj = o]
      BY <1>1, <1>3, ObjectFree
    <2>2. th[t] \in HandlerType
      BY Fields DEF OneThreadInv
    <2>3. [th[t] EXCEPT !.pc = "fh_read", !.obj = o] \in HandlerType
      BY <2>2 DEF HandlerType, PcType
    <2>4. th' = [th EXCEPT ![t] = [th[t] EXCEPT !.pc = "fh_read", !.obj = o]]
      BY <2>1
    <2>5. /\ th'[t] = [th[t] EXCEPT !.pc = "fh_read", !.obj = o]
          /\ th' \in [Threads -> HandlerType]
      BY <2>3, <2>4, Moves DEF OneThreadInv
    <2>6. th'[t].pc = "fh_read" /\ th'[t].obj = o /\ th'[t].path = th[t].path
      BY <2>2, <2>5 DEF HandlerType
    <2>7. Types'
      BY <1>1, <2>1, <2>5 DEF OneThreadInv, Types
    <2>8. EntriesDiffer' /\ TableIsHeld(t)' /\ HandlesCounted(t)'
      BY <1>1, <2>6
      DEF OneThreadInv, EntriesDiffer, TableIsHeld, HandlesCounted, Entered
    <2>9. heap = {e.obj : e \in fh_table}
      BY <1>1 DEF OneThreadInv, ObjectsOwned, Owning
    <2>10. ObjectsOwned(t)'
      BY <1>1, <2>1, <2>6, <2>9 DEF ObjectsOwned, Owning
    <2>11. Locals(t)'
      <3>1. th[t].path \in Files
        BY <1>3 DEF OneThreadInv, Types
      <3>2. QED
        BY <1>1, <2>6, <3>1 DEF OneThreadInv, Locals, Entered
    <2>12. Counts(t)'
      BY <1>1, <2>6, SameCounts DEF OneThreadInv, Busy
    <2>13. QED
      BY <2>7, <2>8, <2>10, <2>11, <2>12 DEF OneThreadInv
  <1>4. QED
    BY <1>2, <1>3 DEF GetObject

\* A step of open that only reads, or writes the counter.
LEMMA OwningInv ==
  ASSUME NEW t, Threads = {t}, OneThreadInv(t),
         th[t].pc \in Owning, th'[t].pc \in Owning, th' \in [Threads -> HandlerType],
         th'[t].path = th[t].path, th'[t].obj = th[t].obj,
         exists' = exists, fh_table' = fh_table, file_table' = file_table,
         heap' = heap, held' = held, failure' = failure,
         last_fh' \in Fhs, last_fh <= last_fh',
         HandlesCounted(t)', th'[t].pc = "fh_insert_write" => th'[t].seen = fh_table
  PROVE  OneThreadInv(t)'
  <1>1. Types'
    BY DEF OneThreadInv, Types
  <1>2. EntriesDiffer' /\ TableIsHeld(t)'
    BY DEF OneThreadInv, EntriesDiffer, TableIsHeld, Entered, Owning
  <1>3. ObjectsOwned(t)' /\ Locals(t)'
    BY DEF OneThreadInv, ObjectsOwned, Locals, Owning, Entered
  <1>4. Counts(t)'
    BY SameCounts DEF OneThreadInv, Busy, Owning
  <1>5. QED
    BY <1>1, <1>2, <1>3, <1>4 DEF OneThreadInv

LEMMA FhReadInv ==
  ASSUME NEW t, Threads = {t}, OneThreadInv(t), FhRead(t)
  PROVE  OneThreadInv(t)'
  <1>1. /\ th[t].pc = "fh_read"
        /\ exists' = exists /\ last_fh' = last_fh /\ fh_table' = fh_table
        /\ file_table' = file_table /\ held' = held
    BY DEF FhRead, At
  <1>2. CASE Return(t) /\ fs_object_free(th[t].obj)
    BY <1>1, <1>2, AnswerInv DEF Owning
  <1>3. CASE /\ last_fh < MaxFh
             /\ th' = [th EXCEPT ![t].pc = "fh_write", ![t].fh = last_fh + 1]
             /\ UNCHANGED <<heap, failure>>
    <2>1. th[t] \in HandlerType /\ last_fh \in Nat /\ last_fh \in Fhs
      BY Fields DEF OneThreadInv
    <2>2. last_fh + 1 \in Fhs
      BY <1>3, <2>1, OpenFilesAssumption DEF Fhs
    <2>3. [th[t] EXCEPT !.pc = "fh_write", !.fh = last_fh + 1] \in HandlerType
      BY <2>1, <2>2 DEF HandlerType, PcType
    <2>4. th' = [th EXCEPT ![t] = [th[t] EXCEPT !.pc = "fh_write", !.fh = last_fh + 1]]
      BY <1>3
    <2>5. /\ th'[t] = [th[t] EXCEPT !.pc = "fh_write", !.fh = last_fh + 1]
          /\ th' \in [Threads -> HandlerType]
      BY <2>3, <2>4, Moves DEF OneThreadInv
    <2>6. /\ th'[t].pc = "fh_write" /\ th'[t].fh = last_fh + 1
          /\ th'[t].path = th[t].path /\ th'[t].obj = th[t].obj
      BY <2>1, <2>5 DEF HandlerType
    <2>7. HandlesCounted(t)'
      BY <1>1, <2>6 DEF OneThreadInv, HandlesCounted
    <2>8. QED
      BY <1>1, <1>3, <2>1, <2>5, <2>6, <2>7, OwningInv DEF Owning
  <1>4. QED
    BY <1>2, <1>3 DEF FhRead

LEMMA FhWriteInv ==
  ASSUME NEW t, Threads = {t}, OneThreadInv(t), FhWrite(t)
  PROVE  OneThreadInv(t)'
  <1>1. /\ th[t].pc = "fh_write" /\ last_fh' = th[t].fh
        /\ exists' = exists /\ fh_table' = fh_table /\ file_table' = file_table
        /\ heap' = heap /\ held' = held /\ failure' = failure
    BY DEF FhWrite, At
  <1>2. /\ th' \in [Threads -> HandlerType] /\ th'[t].pc = "fh_insert_read"
        /\ th'[t].path = th[t].path /\ th'[t].obj = th[t].obj /\ th'[t].fh = th[t].fh
    BY Arrives DEF FhWrite, Goto, OneThreadInv, PcType
  <1>3. last_fh \in Nat /\ th[t].fh \in Fhs /\ \A e \in fh_table : e.fh \in Nat
    BY Fields DEF OneThreadInv
  <1>4. th[t].fh = last_fh + 1 /\ \A e \in fh_table : e.fh <= last_fh
    BY <1>1 DEF OneThreadInv, HandlesCounted
  <1>5. HandlesCounted(t)'
    BY <1>1, <1>2, <1>3, <1>4 DEF HandlesCounted
  <1>6. QED
    BY <1>1, <1>2, <1>3, <1>4, <1>5, OwningInv DEF Owning

LEMMA FhInsertReadInv ==
  ASSUME NEW t, Threads = {t}, OneThreadInv(t), FhInsertRead(t)
  PROVE  OneThreadInv(t)'
  <1>1. /\ th[t].pc = "fh_insert_read"
        /\ exists' = exists /\ last_fh' = last_fh /\ fh_table' = fh_table
        /\ file_table' = file_table /\ held' = held
    BY DEF FhInsertRead, At
  <1>2. CASE Return(t) /\ fs_object_free(th[t].obj)
    BY <1>1, <1>2, AnswerInv DEF Owning
  <1>3. CASE /\ th' = [th EXCEPT ![t].pc = "fh_insert_write", ![t].seen = fh_table]
             /\ UNCHANGED <<heap, failure>>
    <2>1. th[t] \in HandlerType /\ last_fh \in Nat /\ last_fh \in Fhs
      BY Fields DEF OneThreadInv
    <2>2. fh_table \in SUBSET HandleEntry
      BY DEF OneThreadInv, Types
    <2>3. [th[t] EXCEPT !.pc = "fh_insert_write", !.seen = fh_table] \in HandlerType
      BY <2>1, <2>2 DEF HandlerType, PcType
    <2>4. th' = [th EXCEPT ![t] = [th[t] EXCEPT !.pc = "fh_insert_write", !.seen = fh_table]]
      BY <1>3
    <2>5. /\ th'[t] = [th[t] EXCEPT !.pc = "fh_insert_write", !.seen = fh_table]
          /\ th' \in [Threads -> HandlerType]
      BY <2>3, <2>4, Moves DEF OneThreadInv
    <2>6. /\ th'[t].pc = "fh_insert_write" /\ th'[t].fh = th[t].fh /\ th'[t].seen = fh_table
          /\ th'[t].path = th[t].path /\ th'[t].obj = th[t].obj
      BY <2>1, <2>5 DEF HandlerType
    <2>7. HandlesCounted(t)'
      BY <1>1, <2>6 DEF OneThreadInv, HandlesCounted
    <2>8. QED
      BY <1>1, <1>3, <2>1, <2>5, <2>6, <2>7, OwningInv DEF Owning
  <1>4. QED
    BY <1>2, <1>3 DEF FhInsertRead

\* With one thread the list has not changed since its head was read.
LEMMA FhInsertWriteInv ==
  ASSUME NEW t, Threads = {t}, OneThreadInv(t), FhInsertWrite(t)
  PROVE  OneThreadInv(t)'
  <1>1. /\ th[t].pc = "fh_insert_write"
        /\ exists' = exists /\ last_fh' = last_fh
        /\ file_table' = file_table /\ held' = held /\ failure' = failure
        /\ th' = [th EXCEPT ![t].pc = "refs_read", ![t].seen = {}]
    BY DEF FhInsertWrite, At
  <1>2. /\ th[t] \in HandlerType /\ th[t].fh \in Fhs /\ last_fh \in Nat
        /\ \A e \in fh_table : e.fh \in Nat /\ e.obj \in Objects
    BY Fields DEF OneThreadInv
  <1>3. /\ th[t].seen = fh_table /\ th[t].fh = last_fh
        /\ \A e \in fh_table : e.fh # th[t].fh /\ e.obj # th[t].obj
        /\ th[t].obj \in Objects /\ th[t].path \in Files
    BY <1>1 DEF OneThreadInv, Locals, HandlesCounted, ObjectsOwned, Owning
  <1>4. {e \in th[t].seen : e.fh # th[t].fh} = fh_table
    BY <1>3
  <1>5. fh_table' = {New(t)} \cup fh_table
    BY <1>4 DEF FhInsertWrite, New
  <1>6. {e \in th[t].seen : e.fh = th[t].fh} = {}
    BY <1>3
  <1>7. heap' = heap
    BY <1>6 DEF FhInsertWrite
  <1>8. [th[t] EXCEPT !.pc = "refs_read", !.seen = {}] \in HandlerType
    BY <1>2 DEF HandlerType, PcType
  <1>9. th' = [th EXCEPT ![t] = [th[t] EXCEPT !.pc = "refs_read", !.seen = {}]]
    BY <1>1
  <1>10. /\ th'[t] = [th[t] EXCEPT !.pc = "refs_read", !.seen = {}]
         /\ th' \in [Threads -> HandlerType]
    BY <1>8, <1>9, Moves DEF OneThreadInv
  <1>11. /\ th'[t].pc = "refs_read" /\ th'[t].fh = th[t].fh
         /\ th'[t].path = th[t].path /\ th'[t].obj = th[t].obj
    BY <1>2, <1>10 DEF HandlerType
  <1>12. /\ New(t)' = New(t) /\ New(t) \in HandleEntry
         /\ New(t).fh = th[t].fh /\ New(t).obj = th[t].obj
    BY <1>2, <1>3, <1>11 DEF New, HandleEntry
  <1> HIDE DEF New
  <1>13. Types'
    BY <1>1, <1>5, <1>7, <1>10, <1>12 DEF OneThreadInv, Types
  <1>14. EntriesDiffer'
    BY <1>3, <1>5, <1>12 DEF OneThreadInv, EntriesDiffer
  <1>15. TableIsHeld(t)'
    BY <1>1, <1>5, <1>11, <1>12 DEF OneThreadInv, TableIsHeld, Entered
  <1>16. HandlesCounted(t)'
    BY <1>1, <1>2, <1>3, <1>5, <1>11, <1>12 DEF OneThreadInv, HandlesCounted
  <1>17. ObjectsOwned(t)'
    <2>1. heap = {e.obj : e \in fh_table} \cup {th[t].obj}
      BY <1>1 DEF OneThreadInv, ObjectsOwned, Owning
    <2>2. {e.obj : e \in fh_table'} = {e.obj : e \in fh_table} \cup {th[t].obj}
      BY <1>5, <1>12
    <2>3. QED
      BY <1>7, <1>11, <2>1, <2>2 DEF ObjectsOwned, Owning
  <1>18. Locals(t)'
    <2>1. \A k \in held : k.fh # th[t].fh
      BY <1>3 DEF OneThreadInv, TableIsHeld
    <2>2. QED
      BY <1>1, <1>3, <1>5, <1>11, <1>12, <2>1 DEF Locals, Entered
  <1>19. Counts(t)'
    <2>1. Busy(t) = 1 /\ Busy(t)' = 1
      BY <1>1, <1>11 DEF Busy
    <2>2. th[t].pc # "unref" /\ th'[t].pc # "unref" /\ held' = held /\ file_table' = file_table
      BY <1>1, <1>11
    <2>3. QED
      BY <2>1, <2>2, SameCounts DEF OneThreadInv
  <1>20. QED
    BY <1>13, <1>14, <1>15, <1>16, <1>17, <1>18, <1>19 DEF OneThreadInv

LEMMA RefsReadInv ==
  ASSUME NEW t, Threads = {t}, OneThreadInv(t), RefsRead(t)
  PROVE  OneThreadInv(t)'
  <1>1. /\ th[t].pc = "refs_read"
        /\ exists' = exists /\ last_fh' = last_fh /\ fh_table' = fh_table
        /\ file_table' = file_table /\ heap' = heap /\ held' = held /\ failure' = failure
    BY DEF RefsRead, At
  <1>2. th[t] \in HandlerType
    BY Fields DEF OneThreadInv
  <1>3. file_table[th[t].path] \in Nat
    BY <1>1 DEF OneThreadInv, Types, Locals, Entered
  <1>4. PICK pc \in {"refs_insert", "refs_write"}, n \in Nat :
          /\ n = file_table[th[t].path] /\ (pc = "refs_insert" => n = 0)
          /\ th' = [th EXCEPT ![t].refs = n, ![t].pc = pc]
    BY <1>3 DEF RefsRead
  <1>5. [th[t] EXCEPT !.refs = n, !.pc = pc] \in HandlerType
    BY <1>2 DEF HandlerType, PcType
  <1>6. th' = [th EXCEPT ![t] = [th[t] EXCEPT !.refs = n, !.pc = pc]]
    BY <1>4
  <1>7. /\ th'[t] = [th[t] EXCEPT !.refs = n, !.pc = pc]
        /\ th' \in [Threads -> HandlerType]
    BY <1>5, <1>6, Moves DEF OneThreadInv
  <1>8. /\ th'[t].pc = pc /\ th'[t].fh = th[t].fh /\ th'[t].refs = n
        /\ th'[t].path = th[t].path /\ th'[t].obj = th[t].obj
    BY <1>2, <1>7 DEF HandlerType
  <1>9. New(t)' = New(t)
    BY <1>8 DEF New
  <1>10. Types'
    BY <1>1, <1>7 DEF OneThreadInv, Types
  <1>11. EntriesDiffer' /\ TableIsHeld(t)' /\ HandlesCounted(t)'
    BY <1>1, <1>8, <1>9
    DEF OneThreadInv, EntriesDiffer, TableIsHeld, HandlesCounted, Entered
  <1>12. ObjectsOwned(t)'
    BY <1>1, <1>8 DEF OneThreadInv, ObjectsOwned, Owning
  <1>13. Locals(t)'
    BY <1>1, <1>4, <1>8, <1>9 DEF OneThreadInv, Locals, Owning, Entered
  <1>14. Counts(t)'
    BY <1>1, <1>8, SameCounts DEF OneThreadInv, Busy
  <1>15. QED
    BY <1>10, <1>11, <1>12, <1>13, <1>14 DEF OneThreadInv

\* One more handle is held and counted.
LEMMA DeliverInv ==
  ASSUME NEW t, Threads = {t}, OneThreadInv(t), RefsWrite(t) \/ RefsInsert(t)
  PROVE  OneThreadInv(t)'
  <1>1. /\ th[t].pc \in {"refs_write", "refs_insert"}
        /\ exists' = exists /\ last_fh' = last_fh /\ fh_table' = fh_table
        /\ heap' = heap /\ failure' = failure
    BY DEF RefsWrite, RefsInsert, At
  <1>2. th' \in [Threads -> HandlerType] /\ th'[t].pc = "idle" /\ th'[t].obj = NoObject
    BY Rests DEF OneThreadInv, RefsWrite, RefsInsert, Deliver
  <1>3. /\ th[t].path \in Files /\ New(t) \in fh_table /\ \A k \in held : k.fh # th[t].fh
        /\ th[t].fh \in Fhs
        /\ New(t).fh = th[t].fh /\ New(t).path = th[t].path
    BY <1>1, Fields DEF OneThreadInv, Locals, Entered, New
  <1>4. file_table \in [Files -> Nat]
    BY DEF OneThreadInv, Types
  <1>5. file_table' = [file_table EXCEPT ![th[t].path] = file_table[th[t].path] + 1]
    <2>1. CASE RefsWrite(t)
      BY <2>1 DEF RefsWrite, At, OneThreadInv, Locals
    <2>2. CASE RefsInsert(t)
      <3>1. file_table[th[t].path] = 0
        BY <2>2 DEF RefsInsert, At, OneThreadInv, Locals
      <3>2. file_table' = [file_table EXCEPT ![th[t].path] = 1]
        BY <2>2 DEF RefsInsert
      <3>3. 0 + 1 = 1
        OBVIOUS
      <3>4. QED
        BY <3>1, <3>2, <3>3
    <2>3. QED
      BY <2>1, <2>2
  <1>6. PICK x \in HeldHandle : /\ held' = held \cup {x} /\ x.path = th[t].path
                                /\ x.fh = th[t].fh
    <2>1. PICK s \in Slots :
             held' = held \cup {[path |-> th[t].path, fh |-> th[t].fh, slot |-> s]}
      BY <1>1, SlotFree DEF RefsWrite, RefsInsert, Deliver
    <2>2. [path |-> th[t].path, fh |-> th[t].fh, slot |-> s] \in HeldHandle
      BY <1>3 DEF HeldHandle
    <2>3. QED
      BY <2>1, <2>2
  <1>7. Types'
    <2>1. file_table' \in [Files -> Nat]
      BY <1>3, <1>4, <1>5
    <2>2. QED
      BY <1>1, <1>2, <1>6, <2>1 DEF OneThreadInv, Types
  <1>8. EntriesDiffer' /\ HandlesCounted(t)'
    BY <1>1, <1>2 DEF OneThreadInv, EntriesDiffer, HandlesCounted
  <1>9. TableIsHeld(t)'
    <2>1. \A k \in held' : \E e \in fh_table : e.fh = k.fh /\ e.path = k.path
      BY <1>3, <1>6 DEF OneThreadInv, TableIsHeld
    <2>2. \A j, k \in held' : j.fh = k.fh => j = k
      BY <1>3, <1>6 DEF OneThreadInv, TableIsHeld
    <2>3. \A e \in fh_table : \E k \in held' : k.fh = e.fh
      BY <1>3, <1>6 DEF OneThreadInv, TableIsHeld
    <2>4. QED
      BY <1>1, <2>1, <2>2, <2>3 DEF TableIsHeld
  <1>10. ObjectsOwned(t)' /\ Locals(t)'
    BY <1>1, <1>2 DEF OneThreadInv, ObjectsOwned, Locals, Owning, Entered
  <1>11. Counts(t)'
    <2>1. IsFiniteSet(held) /\ Cardinality(held) + 1 <= MaxHeld /\ x \notin held
      BY <1>1, <1>3, <1>6 DEF OneThreadInv, Counts, Busy
    <2>2. IsFiniteSet(held') /\ Cardinality(held') = Cardinality(held) + 1
      BY <1>6, <2>1, FS_AddElement
    <2>3. Busy(t)' = 0 /\ \A q : Unreferring(t, q)' = 0 /\ Unreferring(t, q) = 0
      BY <1>1, <1>2 DEF Busy, Unreferring
    <2>4. Cardinality(held') + Busy(t)' <= MaxHeld
      BY <2>1, <2>2, <2>3, FS_CardinalityType, OpenFilesAssumption
    <2>5. ASSUME NEW q \in Files
          PROVE  file_table'[q] = Cardinality(HeldOn(q)') + 0
      <3>1. IsFiniteSet(HeldOn(q)) /\ x \notin HeldOn(q) /\ Cardinality(HeldOn(q)) \in Nat
        BY <2>1, FS_Subset, FS_CardinalityType DEF HeldOn
      <3>2. file_table[q] = Cardinality(HeldOn(q))
        <4>1. file_table[q] = Cardinality(HeldOn(q)) + 0
          BY <2>3 DEF OneThreadInv, Counts
        <4>2. QED
          BY <3>1, <4>1
      <3>3. CASE q = th[t].path
        <4>1. HeldOn(q)' = HeldOn(q) \cup {x}
          BY <1>6, <3>3 DEF HeldOn
        <4>2. Cardinality(HeldOn(q)') = Cardinality(HeldOn(q)) + 1
          BY <3>1, <4>1, FS_AddElement
        <4>3. file_table'[q] = file_table[q] + 1
          BY <1>4, <1>5, <3>3
        <4>4. QED
          BY <3>1, <3>2, <4>2, <4>3
      <3>4. CASE q # th[t].path
        <4>1. HeldOn(q)' = HeldOn(q)
          BY <1>6, <3>4 DEF HeldOn
        <4>2. file_table'[q] = file_table[q]
          BY <1>4, <1>5, <3>4
        <4>3. QED
          BY <3>1, <3>2, <4>1, <4>2
      <3>5. QED
        BY <3>3, <3>4
    <2>6. QED
      BY <2>2, <2>3, <2>4, <2>5 DEF Counts
  <1>12. QED
    BY <1>7, <1>8, <1>9, <1>10, <1>11 DEF OneThreadInv

\* An entry leaves fh_table with its object.
LEMMA EntryLeaves ==
  ASSUME NEW t \in Threads, Types, EntriesDiffer, NEW d \in fh_table,
         heap = {e.obj : e \in fh_table},
         fh_table' = {e \in fh_table : e.fh # d.fh},
         heap' = heap \ {e.obj : e \in {e \in fh_table : e.fh = d.fh}}
  PROVE  /\ fh_table' = fh_table \ {d}
         /\ heap' = {e.obj : e \in fh_table'}
         /\ EntriesDiffer'
         /\ \A e \in fh_table' : e.obj # d.obj
  <1>1. \A e \in fh_table : e.fh = d.fh \/ e.obj = d.obj <=> e = d
    BY DEF EntriesDiffer
  <1>2. fh_table' = fh_table \ {d}
    BY <1>1
  <1>3. {e \in fh_table : e.fh = d.fh} = {d}
    BY <1>1
  <1>4. heap' = heap \ {d.obj}
    BY <1>3
  <1>5. heap' = {e.obj : e \in fh_table'}
    BY <1>1, <1>2, <1>4
  <1>6. QED
    BY <1>1, <1>2, <1>5 DEF EntriesDiffer

LEMMA RefsInsertFailsInv ==
  ASSUME NEW t, Threads = {t}, OneThreadInv(t), RefsInsertFails(t)
  PROVE  OneThreadInv(t)'
  <1>1. /\ th[t].pc = "refs_insert"
        /\ exists' = exists /\ last_fh' = last_fh
        /\ file_table' = file_table /\ held' = held /\ failure' = failure
    BY DEF RefsInsertFails, At
  <1>2. /\ th' \in [Threads -> HandlerType] /\ th'[t].pc = "cleanup"
        /\ th'[t].path = th[t].path /\ th'[t].obj = th[t].obj /\ th'[t].fh = th[t].fh
    BY Arrives DEF RefsInsertFails, Goto, OneThreadInv, PcType
  <1>3. /\ New(t) \in fh_table /\ \A k \in held : k.fh # th[t].fh
        /\ New(t).fh = th[t].fh /\ New(t).obj = th[t].obj
    BY <1>1 DEF OneThreadInv, Locals, Entered, New
  <1>4. heap = {e.obj : e \in fh_table}
    BY <1>1 DEF OneThreadInv, ObjectsOwned, Owning
  <1>5. /\ fh_table' = fh_table \ {New(t)} /\ heap' = {e.obj : e \in fh_table'}
        /\ EntriesDiffer' /\ \A e \in fh_table' : e.obj # th[t].obj
    BY <1>3, <1>4, EntryLeaves DEF RefsInsertFails, OneThreadInv
  <1>6. Types'
    BY <1>1, <1>2, <1>4, <1>5 DEF OneThreadInv, Types
  <1>7. TableIsHeld(t)' /\ HandlesCounted(t)'
    BY <1>1, <1>2, <1>3, <1>5 DEF OneThreadInv, TableIsHeld, HandlesCounted, Entered
  <1>8. ObjectsOwned(t)' /\ Locals(t)'
    BY <1>1, <1>2, <1>5 DEF OneThreadInv, ObjectsOwned, Locals, Owning, Entered
  <1>9. Counts(t)'
    <2>1. Busy(t) = 1 /\ Busy(t)' = 1
      BY <1>1, <1>2 DEF Busy
    <2>2. QED
      BY <1>1, <1>2, <2>1, SameCounts DEF OneThreadInv
  <1>10. QED
    BY <1>5, <1>6, <1>7, <1>8, <1>9 DEF OneThreadInv

LEMMA CleanupInv ==
  ASSUME NEW t, Threads = {t}, OneThreadInv(t), Cleanup(t)
  PROVE  OneThreadInv(t)'
  BY AnswerInv DEF Cleanup, At

\* A read finds the entry of its handle; a deleted file was not open.
LEMMA ReadOrUnlinkInv ==
  ASSUME NEW t, Threads = {t}, OneThreadInv(t),
         (\E k \in held : read(t, k)) \/ (\E p \in Files : unlink(t, p)) \/ UNCHANGED vars
  PROVE  OneThreadInv(t)'
  <1>1. /\ th' = th /\ fh_table' = fh_table /\ file_table' = file_table /\ last_fh' = last_fh
        /\ held' = held /\ heap' = heap /\ exists' \subseteq Files /\ failure' = failure
    BY DEF read, unlink, vars, OneThreadInv, Types, TableIsHeld
  <1>2. Types'
    BY <1>1 DEF OneThreadInv, Types
  <1>3. EntriesDiffer' /\ TableIsHeld(t)' /\ HandlesCounted(t)'
    BY <1>1 DEF OneThreadInv, EntriesDiffer, TableIsHeld, HandlesCounted, New
  <1>4. ObjectsOwned(t)' /\ Locals(t)' /\ Counts(t)'
    BY <1>1
    DEF OneThreadInv, ObjectsOwned, Locals, New, Counts, Busy, Unreferring, HeldOn
  <1>5. QED
    BY <1>2, <1>3, <1>4 DEF OneThreadInv

LEMMA ReleaseInv ==
  ASSUME NEW t, Threads = {t}, OneThreadInv(t), NEW k \in held, release(t, k)
  PROVE  OneThreadInv(t)'
  <1> DEFINE b == [Idle EXCEPT !.pc = "unref", !.path = k.path]
  <1>1. k \in HeldHandle /\ k.path \in Files
    BY Fields DEF OneThreadInv
  <1>2. b \in HandlerType /\ b.pc = "unref" /\ b.obj = NoObject /\ b.path = k.path
    BY <1>1, IdleType DEF HandlerType, Idle, PcType, Paths
  <1>3. th' = [th EXCEPT ![t] = b]
    BY DEF release
  <1> HIDE DEF b
  <1>4. th'[t] = b /\ th' \in [Threads -> HandlerType]
    BY <1>2, <1>3, Moves DEF OneThreadInv
  <1>5. /\ th[t].pc = "idle" /\ held' = held \ {k}
        /\ exists' = exists /\ last_fh' = last_fh
        /\ file_table' = file_table /\ failure' = failure
    BY DEF release, At
  <1>6. PICK d \in fh_table : d.fh = k.fh
    BY DEF OneThreadInv, TableIsHeld
  <1>7. heap = {e.obj : e \in fh_table}
    BY <1>5 DEF OneThreadInv, ObjectsOwned, Owning
  <1>8. /\ fh_table' = fh_table \ {d} /\ heap' = {e.obj : e \in fh_table'}
        /\ EntriesDiffer'
    BY <1>6, <1>7, EntryLeaves DEF release, OneThreadInv
  <1>9. Types'
    BY <1>4, <1>5, <1>7, <1>8 DEF OneThreadInv, Types
  <1>10. TableIsHeld(t)'
    <2>1. \A j \in held' : j.fh # d.fh
      BY <1>5, <1>6 DEF OneThreadInv, TableIsHeld
    <2>2. \A e \in fh_table' : \E j \in held' : j.fh = e.fh
      <3> SUFFICES ASSUME NEW e \in fh_table' PROVE \E j \in held' : j.fh = e.fh
        OBVIOUS
      <3>1. e \in fh_table /\ e.fh # d.fh
        BY <1>6, <1>8 DEF OneThreadInv, EntriesDiffer
      <3>2. PICK j \in held : j.fh = e.fh
        BY <1>5, <3>1 DEF OneThreadInv, TableIsHeld, Entered
      <3>3. QED
        BY <1>5, <1>6, <3>1, <3>2
    <2>3. QED
      BY <1>5, <1>8, <2>1, <2>2 DEF OneThreadInv, TableIsHeld
  <1>11. HandlesCounted(t)'
    BY <1>2, <1>4, <1>5, <1>8 DEF OneThreadInv, HandlesCounted
  <1>12. ObjectsOwned(t)' /\ Locals(t)'
    BY <1>1, <1>2, <1>4, <1>8 DEF ObjectsOwned, Locals, Owning, Entered
  <1>13. Counts(t)'
    <2>1. IsFiniteSet(held) /\ Cardinality(held) + 0 <= MaxHeld /\ Cardinality(held) \in Nat
      BY <1>5, FS_CardinalityType DEF OneThreadInv, Counts, Busy
    <2>2. IsFiniteSet(held') /\ Cardinality(held') = Cardinality(held) - 1
      BY <1>5, <2>1, FS_RemoveElement
    <2>3. Busy(t)' = 1
      BY <1>2, <1>4 DEF Busy
    <2>4. Cardinality(held') + Busy(t)' <= MaxHeld
      BY <2>1, <2>2, <2>3, OpenFilesAssumption
    <2>5. ASSUME NEW q \in Files
          PROVE  file_table'[q] = Cardinality(HeldOn(q)') + Unreferring(t, q)'
      <3>1. IsFiniteSet(HeldOn(q)) /\ Cardinality(HeldOn(q)) \in Nat
        BY <2>1, FS_Subset, FS_CardinalityType DEF HeldOn
      <3>2. file_table'[q] = Cardinality(HeldOn(q))
        <4>1. Unreferring(t, q) = 0
          BY <1>5 DEF Unreferring
        <4>2. QED
          BY <1>5, <3>1, <4>1 DEF OneThreadInv, Counts
      <3>3. CASE q = k.path
        <4>1. HeldOn(q)' = HeldOn(q) \ {k} /\ k \in HeldOn(q)
          BY <1>5, <3>3 DEF HeldOn
        <4>2. Cardinality(HeldOn(q)') = Cardinality(HeldOn(q)) - 1
          BY <3>1, <4>1, FS_RemoveElement
        <4>3. Unreferring(t, q)' = 1
          BY <1>2, <1>4, <3>3 DEF Unreferring
        <4>4. QED
          BY <3>1, <3>2, <4>2, <4>3
      <3>4. CASE q # k.path
        <4>1. HeldOn(q)' = HeldOn(q)
          BY <1>5, <3>4 DEF HeldOn
        <4>2. Unreferring(t, q)' = 0
          BY <1>2, <1>4, <3>4 DEF Unreferring
        <4>3. QED
          BY <3>1, <3>2, <4>1, <4>2
      <3>5. QED
        BY <3>3, <3>4
    <2>6. QED
      BY <2>2, <2>4, <2>5 DEF Counts
  <1>14. QED
    BY <1>8, <1>9, <1>10, <1>11, <1>12, <1>13 DEF OneThreadInv

\* The count that is dropped is there.
LEMMA UnrefInv ==
  ASSUME NEW t, Threads = {t}, OneThreadInv(t), Unref(t)
  PROVE  OneThreadInv(t)'
  <1>1. /\ th[t].pc = "unref" /\ held' = held /\ fh_table' = fh_table /\ heap' = heap
        /\ exists' = exists /\ last_fh' = last_fh /\ Return(t)
    BY DEF Unref, At
  <1>2. th' \in [Threads -> HandlerType] /\ th'[t].pc = "idle" /\ th'[t].obj = NoObject
    BY <1>1, Rests DEF OneThreadInv
  <1>3. th[t].path \in Files /\ file_table \in [Files -> Nat]
    BY <1>1 DEF OneThreadInv, Locals, Types
  <1>4. \A q \in Files : /\ Cardinality(HeldOn(q)) \in Nat
                         /\ file_table[q] = Cardinality(HeldOn(q)) + Unreferring(t, q)
    BY FS_Subset, FS_CardinalityType DEF OneThreadInv, Counts, HeldOn
  <1>5. Unreferring(t, th[t].path) = 1
    BY <1>1 DEF Unreferring
  <1>6. /\ file_table' = [file_table EXCEPT ![th[t].path] = file_table[th[t].path] - 1]
        /\ failure' = failure
    <2>1. file_table[th[t].path] # 0
      BY <1>3, <1>4, <1>5
    <2>2. QED
      BY <2>1 DEF Unref
  <1>7. \A q \in Files : file_table'[q] = Cardinality(HeldOn(q)) /\ file_table'[q] \in Nat
    <2> SUFFICES ASSUME NEW q \in Files
                 PROVE  file_table'[q] = Cardinality(HeldOn(q)) /\ file_table'[q] \in Nat
      OBVIOUS
    <2>1. CASE q = th[t].path
      BY <1>3, <1>4, <1>5, <1>6, <2>1
    <2>2. CASE q # th[t].path
      <3>1. Unreferring(t, q) = 0
        BY <2>2 DEF Unreferring
      <3>2. QED
        BY <1>3, <1>4, <1>6, <2>2, <3>1
    <2>3. QED
      BY <2>1, <2>2
  <1>8. Types'
    <2>1. file_table' \in [Files -> Nat]
      BY <1>3, <1>6, <1>7
    <2>2. QED
      BY <1>1, <1>2, <1>6, <2>1 DEF OneThreadInv, Types
  <1>9. EntriesDiffer' /\ TableIsHeld(t)' /\ HandlesCounted(t)'
    BY <1>1, <1>2 DEF OneThreadInv, EntriesDiffer, TableIsHeld, HandlesCounted, Entered
  <1>10. ObjectsOwned(t)' /\ Locals(t)'
    BY <1>1, <1>2 DEF OneThreadInv, ObjectsOwned, Locals, Owning, Entered
  <1>11. Counts(t)'
    <2>1. IsFiniteSet(held) /\ Cardinality(held) + 1 <= MaxHeld /\ Cardinality(held) \in Nat
      BY <1>1, FS_CardinalityType DEF OneThreadInv, Counts, Busy
    <2>2. Busy(t)' = 0 /\ \A q : Unreferring(t, q)' = 0 /\ HeldOn(q)' = HeldOn(q)
      BY <1>1, <1>2 DEF Busy, Unreferring, HeldOn
    <2>3. Cardinality(held') + Busy(t)' <= MaxHeld
      BY <1>1, <2>1, <2>2, OpenFilesAssumption
    <2>4. \A q \in Files : file_table'[q] = Cardinality(HeldOn(q)') + Unreferring(t, q)'
      BY <1>4, <1>7, <2>2
    <2>5. QED
      BY <1>1, <2>1, <2>3, <2>4 DEF Counts
  <1>12. QED
    BY <1>8, <1>9, <1>10, <1>11 DEF OneThreadInv

-----------------------------------------------------------------------------
(***************************************************************************)
(* The theorems, for the driver's single thread t.                         *)
(***************************************************************************)

(***************************************************************************)
(* fh_table, the counts, the heap and what the kernel holds agree after    *)
(* every step, whichever allocations failed before.                        *)
(***************************************************************************)
THEOREM OneThreadInvariant ==
  ASSUME NEW t, Threads = {t}
  PROVE  Spec => []OneThreadInv(t)
  <1>1. Init => OneThreadInv(t)
    <2> SUFFICES ASSUME Init PROVE OneThreadInv(t)
      OBVIOUS
    <2>1. th = [u \in Threads |-> Idle] /\ th[t] = Idle
      BY DEF Init
    <2>2. th[t].pc = "idle" /\ th[t].obj = NoObject
      BY <2>1 DEF Idle
    <2>3. Types
      BY <2>1, IdleType, Numbers DEF Init, Types
    <2>4. EntriesDiffer /\ TableIsHeld(t) /\ HandlesCounted(t)
      BY <2>2 DEF Init, EntriesDiffer, TableIsHeld, HandlesCounted
    <2>5. ObjectsOwned(t) /\ Locals(t)
      BY <2>2 DEF Init, ObjectsOwned, Locals, Owning, Entered
    <2>6. Counts(t)
      <3>1. held = {} /\ \A p : HeldOn(p) = {}
        BY DEF Init, HeldOn
      <3>2. Busy(t) = 0 /\ \A p : Unreferring(t, p) = 0
        BY <2>2 DEF Busy, Unreferring
      <3>3. QED
        BY <3>1, <3>2, FS_EmptySet, OpenFilesAssumption DEF Init, Counts
    <2>7. QED
      BY <2>3, <2>4, <2>5, <2>6 DEF OneThreadInv
  <1>2. OneThreadInv(t) /\ [Next]_vars => OneThreadInv(t)'
    BY OpenInv, GetObjectInv, FhReadInv, FhWriteInv, FhInsertReadInv, FhInsertWriteInv,
       RefsReadInv, DeliverInv, RefsInsertFailsInv, CleanupInv, ReadOrUnlinkInv,
       ReleaseInv, UnrefInv
    DEF Next, OpenStep
  <1>3. QED
    BY <1>1, <1>2, PTL DEF Spec

(***************************************************************************)
(* Each handle the kernel holds leads through fh_table to an allocated     *)
(* object of its own file, and no two are the same.                        *)
(***************************************************************************)
THEOREM HeldHandlesAreBacked ==
  ASSUME NEW t, Threads = {t}
  PROVE  Spec => []HandlesBacked
  <1>1. OneThreadInv(t) => HandlesBacked
    BY DEF OneThreadInv, TableIsHeld, ObjectsOwned, HandlesBacked
  <1>2. QED
    BY <1>1, OneThreadInvariant, PTL

(***************************************************************************)
(* Between two requests the count of a path is the number of its handles.  *)
(***************************************************************************)
THEOREM RefsAreExact ==
  ASSUME NEW t, Threads = {t}
  PROVE  Spec => []RefsExact
  <1>1. OneThreadInv(t) => RefsExact
    <2> SUFFICES ASSUME OneThreadInv(t), th[t].pc = "idle", NEW p \in Files
                 PROVE  file_table[p] = Cardinality(HeldOn(p))
      BY DEF RefsExact
    <2>1. Unreferring(t, p) = 0 /\ file_table[p] = Cardinality(HeldOn(p)) + Unreferring(t, p)
      BY DEF OneThreadInv, Counts, Unreferring
    <2>2. Cardinality(HeldOn(p)) \in Nat
      BY FS_Subset, FS_CardinalityType DEF OneThreadInv, Counts, HeldOn
    <2>3. QED
      BY <2>1, <2>2
  <1>2. QED
    BY <1>1, OneThreadInvariant, PTL

(***************************************************************************)
(* No object is leaked and no entry of fh_table dangles.                   *)
(***************************************************************************)
THEOREM ObjectsAreAccounted ==
  ASSUME NEW t, Threads = {t}
  PROVE  Spec => []ObjectsAccounted
  <1>1. OneThreadInv(t) => ObjectsAccounted
    <2> SUFFICES ASSUME OneThreadInv(t) PROVE ObjectsAccounted
      OBVIOUS
    <2> DEFINE own == {th[u].obj : u \in {u \in Threads : th[u].pc # "cleanup"}} \ {NoObject}
    <2>1. \A e \in fh_table : e.obj # NoObject
      BY Fields, Numbers DEF OneThreadInv
    <2>2. th[t].pc \in PcType
      BY Fields DEF OneThreadInv
    <2>3. CASE th[t].pc \in Owning
      <3>1. own = {th[t].obj}
        BY <2>3, Numbers DEF OneThreadInv, ObjectsOwned, Owning
      <3>2. QED
        BY <2>3, <3>1 DEF OneThreadInv, ObjectsOwned, ObjectsAccounted
    <2>4. CASE th[t].pc \in Entered
      <3>1. own \subseteq {th[t].obj}
        OBVIOUS
      <3>2. New(t) \in fh_table /\ New(t).obj = th[t].obj
        BY <2>4 DEF OneThreadInv, Locals, New
      <3>3. heap = {e.obj : e \in fh_table}
        BY <2>4 DEF OneThreadInv, ObjectsOwned, Entered, Owning
      <3>4. QED
        BY <3>1, <3>2, <3>3 DEF ObjectsAccounted
    <2>5. CASE th[t].pc \in {"idle", "get_object", "unref", "cleanup"}
      <3>1. own = {}
        BY <2>5 DEF OneThreadInv, ObjectsOwned
      <3>2. QED
        BY <2>5, <3>1 DEF OneThreadInv, ObjectsOwned, Owning, ObjectsAccounted
    <2>6. QED
      BY <2>2, <2>3, <2>4, <2>5 DEF PcType, Owning, Entered
  <1>2. QED
    BY <1>1, OneThreadInvariant, PTL

(***************************************************************************)
(* The assertions of read and release never fail.                          *)
(***************************************************************************)
THEOREM AssertionsHold ==
  ASSUME NEW t, Threads = {t}
  PROVE  Spec => []NoAssertionFails
  <1>1. OneThreadInv(t) => NoAssertionFails
    BY DEF OneThreadInv, Types, NoAssertionFails
  <1>2. QED
    BY <1>1, OneThreadInvariant, PTL

(***************************************************************************)
(* A file is only removed while nobody has it open.                        *)
(***************************************************************************)
THEOREM OpenFilesAreSpared ==
  ASSUME NEW t, Threads = {t}
  PROVE  Spec => UnlinkSparesOpenFiles
  <1>1. OneThreadInv(t) /\ [Next]_vars =>
          [\A p \in Files : p \in exists \ exists' => HeldOn(p) = {}]_vars
    <2> SUFFICES ASSUME OneThreadInv(t), Next, NEW p \in Files, p \in exists \ exists'
                 PROVE  HeldOn(p) = {}
      OBVIOUS
    <2>1. unlink(t, p)
      BY DEF Next, OpenStep, open, GetObject, FhRead, FhWrite, FhInsertRead,
             FhInsertWrite,
             RefsRead, RefsWrite, RefsInsert, RefsInsertFails, Cleanup, read, release,
             Unref, unlink
    <2>2. file_table[p] = 0
      BY <2>1 DEF unlink
    <2>3. IsFiniteSet(HeldOn(p)) /\ Cardinality(HeldOn(p)) \in Nat
      BY FS_Subset, FS_CardinalityType DEF OneThreadInv, Counts, HeldOn
    <2>4. Unreferring(t, p) \in Nat
      BY DEF Unreferring
    <2>5. Cardinality(HeldOn(p)) = 0
      BY <2>2, <2>3, <2>4 DEF OneThreadInv, Counts
    <2>6. QED
      BY <2>3, <2>5, FS_EmptySet
  <1>2. QED
    BY <1>1, OneThreadInvariant, PTL DEF Spec, UnlinkSparesOpenFiles

=============================================================================
