---------------------------- MODULE DriverProofs ----------------------------
(***************************************************************************)
(* Proofs about Driver, for any threads, any device and any set of faults. *)
(* The inductive invariant has a part for each of the two modules Driver   *)
(* puts together and a part for what ties them to each other.              *)
(*                                                                         *)
(* Then proofs about Device, which is below the one and the other: any     *)
(* volumes, any sizes, any failures and any number of signals.             *)
(***************************************************************************)
EXTENDS Driver, Device, FiniteSetTheorems, TLAPS

-----------------------------------------------------------------------------
(***************************************************************************)
(* main: what each point of its path has obtained, and what the clean-up   *)
(* has released when nothing failed.                                       *)
(***************************************************************************)
\* The steps before fat32_fs_open, and those of the clean-up.
Before == {"options", "log", "fs"}
Cleaning == {"close", "free_structures", "close_fat", "free_tables"}

\* From each step of fat32_fs_open on, up to the loop.
FromVerbose == {"verbose", "loop"}
FromAllocator == {"fh_allocator"} \cup FromVerbose
FromFhTable == {"fh_table"} \cup FromAllocator
FromFileTable == {"file_table"} \cup FromFhTable
FromDup == {"dup"} \cup FromFileTable
FromFsInfoRead == {"fs_info_read"} \cup FromDup
FromBpbRead == {"bpb_read"} \cup FromFsInfoRead
FromFstat == {"fstat"} \cup FromBpbRead
FromFat == {"fat", "open"} \cup FromFstat
FromFsInfo == {"fs_info"} \cup FromFat
Opening == {"lock", "bpb"} \cup FromFsInfo

\* From the end of each step of the clean-up on.
AfterTables == {"close_log", "ended"}
AfterFat == {"free_tables"} \cup AfterTables
AfterStructures == {"close_fat"} \cup AfterFat
AfterDevice == {"free_structures"} \cup AfterStructures

AllSet ==
    /\ fs.fd = "set" /\ fs.bpb = "set" /\ fs.fs_info = "set" /\ fs.fat = "set"
    /\ fs.fat_fd = "set" /\ fs.file_table = "set" /\ fs.fh_table = "set"
    /\ fs.fh_allocator = "set"

Obtained(field) == fs[field] = "set" /\ field \in held

\* fat32_fs_open has not run, or not to its end yet.
OpeningInv ==
    /\ pc \in Before => held \subseteq {"log"} /\ ~context
    /\ pc \in Before \cup Opening => error = FE_OK /\ caller = "none"
    /\ pc \in Opening => context /\ "fs" \in held /\ (fs.fat = "set" => "fat" \in held)
    /\ pc \in FromFsInfo => Obtained("bpb")
    /\ pc \in FromFat => Obtained("fs_info")
    /\ pc \in FromFstat => Obtained("fd")
    /\ pc \in FromBpbRead => device # "file"
    /\ pc \in FromFsInfoRead => device \notin {"short", "bad_bpb"}
    /\ pc \in FromDup => device = "volume"
    /\ pc \in FromFileTable => Obtained("fat") /\ Obtained("fat_fd")
    /\ pc \in FromFhTable => Obtained("file_table")
    /\ pc \in FromAllocator => Obtained("fh_table")
    /\ pc \in FromVerbose => Obtained("fh_allocator")

\* main cleans up, or has ended, and nothing went wrong before that.
ClosingInv ==
    error = FE_OK =>
        /\ pc = "main_cleanup" => IF context THEN AllSet ELSE held \subseteq {"log"}
        /\ pc \in Cleaning => AllSet /\ caller = "close"
        /\ pc \in AfterDevice => "fd" \notin held
        /\ pc \in AfterStructures => held \cap {"bpb", "fs_info"} = {}
        /\ pc \in AfterFat => held \cap {"fat", "fat_fd"} = {}
        /\ pc \in AfterTables => held \cap {"fs", "fh_allocator", "objects"} = {}
        /\ pc = "ended" => "log" \notin held

\* The volume has been served.
ServedInv ==
    served =>
        /\ failure = "none" /\ AllSet /\ context
        /\ pc \in {"loop", "main_cleanup", "close_log", "ended"} \cup Cleaning
        /\ pc = "main_cleanup" => "fs" \in held /\ caller = "none"
        /\ pc \in Cleaning => caller = "close"

MountInv == TypeOK /\ OpeningInv /\ ClosingInv /\ ServedInv

-----------------------------------------------------------------------------
(***************************************************************************)
(* The log: whoever is between lock and unlock holds log_lock, and "last"  *)
(* is what the holder wrote before, or ends a line.                        *)
(***************************************************************************)
MessagePcs == {"idle", "check", "lock", "unlock"} \cup DOMAIN After

MessageType == [pc : MessagePcs, level : Nat, loc : BOOLEAN, result : {0, 1}]

LogTypeOK ==
    /\ log_file \in {"null", "open", "closed"}
    /\ misuse \in BOOLEAN
    /\ message \in [Threads -> MessageType]

Holding(t) == message[t].pc \in DOMAIN After \cup {"unlock"}

\* A message may start here.
LineEnded == last.piece \in {"none", "newline", "broken"}

LockInv ==
    /\ \A t \in Threads : Holding(t) => log_lock = t
    /\ log_lock = NoThread => LineEnded

PieceInv ==
    \A t \in Threads :
        /\ message[t].pc = "where" => message[t].loc
        /\ message[t].pc \in {FirstPiece(t), "unlock"} => LineEnded
        /\ message[t].pc = "level" /\ message[t].loc
              => last = [thread |-> t, piece |-> "where"]
        /\ message[t].pc = "text" => last = [thread |-> t, piece |-> "level"]
        /\ message[t].pc \in {"flush", "newline"}
              => last = [thread |-> t, piece |-> "text"]

LogInv == LogTypeOK /\ LockInv /\ PieceInv

-----------------------------------------------------------------------------
(***************************************************************************)
(* Both: the handlers log only while the loop runs, and the log is closed  *)
(* by the last step of main.                                               *)
(***************************************************************************)
CloseInv ==
    /\ log_file = "closed" => pc = "ended"
    /\ pc # "loop" => \A t \in Workers : ~Logs(t)
    /\ pc = "ended" => ~Logs(Main)
    /\ ~misuse

DriverInv == MountInv /\ LogInv /\ CloseInv

-----------------------------------------------------------------------------
(***************************************************************************)
(* What main does preserves MountInv.                                      *)
(***************************************************************************)

LEMMA InitMountInv == Init => MountInv
  <1> SUFFICES ASSUME Init
               PROVE  MountInv
    OBVIOUS
  <1> USE DEF Init
  <1>1. TypeOK
    BY DEF TypeOK, NoFs, FsType, Pointer
  <1>2. OpeningInv
    BY DEF OpeningInv, Before, FromVerbose, FromAllocator, FromFhTable, FromFileTable,
           FromDup, FromFsInfoRead, FromBpbRead, FromFstat, FromFat,
              FromFsInfo, Opening
  <1>3. ClosingInv
    BY DEF ClosingInv, Cleaning, AfterTables, AfterFat, AfterStructures, AfterDevice
  <1>4. ServedInv
    BY DEF ServedInv
  <1>5. QED
    BY <1>1, <1>2, <1>3, <1>4 DEF MountInv

LEMMA NextMountTypeOK == TypeOK /\ [Next]_vars => TypeOK'
  <1> SUFFICES ASSUME TypeOK, [Next]_vars
               PROVE  TypeOK'
    OBVIOUS
  <1> USE DEF TypeOK, Resources, At
  <1>1. CASE ParseOptions
    BY <1>1 DEF ParseOptions, MainCleanup
  <1>2. CASE OpenLog
    BY <1>2 DEF OpenLog, MainCleanup
  <1>3. CASE AllocateFs
    <2>1. fs' \in FsType
      BY <1>3, MountAssumption DEF AllocateFs, FsType, Pointer, NoFs
    <2>2. held' \subseteq Resources
      BY <1>3 DEF AllocateFs
    <2>3. QED
      BY <1>3, <2>1, <2>2 DEF AllocateFs, MainCleanup
  <1>4. CASE AllocateLock
    BY <1>4 DEF AllocateLock, GiveUp
  <1>5. CASE AllocateBpb
    BY ZenonT(40), <1>5 DEF AllocateBpb, FsType, Pointer, Obtain, GiveUp
  <1>6. CASE AllocateFsInfo
    BY ZenonT(40), <1>6 DEF AllocateFsInfo, FsType, Pointer, Obtain, GiveUp
  <1>7. CASE AllocateFat
    BY <1>7 DEF AllocateFat, FsType, Pointer
  <1>8. CASE OpenDevice
    BY ZenonT(40), <1>8 DEF OpenDevice, FsType, Pointer, Obtain, GiveUp
  <1>9. CASE CheckDevice
    BY <1>9 DEF CheckDevice, GiveUp, Continue
  <1>10. CASE ReadBpb
    BY <1>10 DEF ReadBpb, GiveUp, Continue
  <1>11. CASE ReadFsInfo
    BY <1>11 DEF ReadFsInfo, GiveUp, Continue
  <1>12. CASE InitFat
    BY ZenonT(40), <1>12 DEF InitFat, FsType, Pointer, Obtain, GiveUp, Die
  <1>13. CASE CreateFileTable
    BY ZenonT(40), <1>13 DEF CreateFileTable, FsType, Pointer
  <1>14. CASE CreateFhTable
    BY <1>14 DEF CreateFhTable, FsType, Pointer, Obtain, GiveUp
  <1>15. CASE CreateAllocator
    BY <1>15 DEF CreateAllocator, FsType, Pointer, Obtain, GiveUp
  <1>16. CASE VerboseInfo
    BY <1>16 DEF VerboseInfo, MainCleanup
  <1>17. CASE FuseLoop
    BY <1>17 DEF FuseLoop, MainCleanup
  <1>18. CASE CloseFs
    BY <1>18 DEF CloseFs
  <1>19. CASE CloseLog
    BY <1>19 DEF CloseLog
  <1>20. CASE CleanupDevice
    BY <1>20 DEF CleanupDevice, CleanupFails, Die
  <1>21. CASE CleanupStructures
    BY <1>21 DEF CleanupStructures, Pointed
  <1>22. CASE CleanupFat
    BY <1>22 DEF CleanupFat, Pointed, CleanupFails, Die
  <1>23. CASE CleanupTables
    BY <1>23 DEF CleanupTables, Pointed, Die
  <1>24. CASE UNCHANGED vars
    <2>1. fs' \in FsType /\ held' \subseteq Resources
      BY <1>24 DEF vars
    <2>2. QED
      BY ZenonT(40), <1>24, <2>1 DEF vars
  <1>25. QED
    BY <1>1, <1>2, <1>3, <1>4, <1>5, <1>6, <1>7, <1>8, <1>9, <1>10, <1>11, <1>12, <1>13,
       <1>14, <1>15, <1>16, <1>17, <1>18, <1>19, <1>20, <1>21, <1>22, <1>23, <1>24
    DEF Next

LEMMA NextOpeningInv == TypeOK /\ OpeningInv /\ [Next]_vars => OpeningInv'
  <1> SUFFICES ASSUME TypeOK /\ OpeningInv, [Next]_vars
               PROVE  OpeningInv'
    OBVIOUS
  <1> USE DEF TypeOK, FsType, OpeningInv, Obtained, At
  <1> USE DEF Before, Cleaning, FromVerbose, FromAllocator, FromFhTable, FromFileTable,
              FromDup, FromFsInfoRead, FromBpbRead, FromFstat, FromFat,
              FromFsInfo, Opening,
              AfterTables, AfterFat, AfterStructures, AfterDevice
  <1>1. CASE ParseOptions
    BY <1>1 DEF ParseOptions, MainCleanup
  <1>2. CASE OpenLog
    BY <1>2 DEF OpenLog, MainCleanup
  <1>3. CASE AllocateFs
    BY <1>3 DEF AllocateFs, MainCleanup, NoFs
  <1>4. CASE AllocateLock
    BY <1>4 DEF AllocateLock, GiveUp
  <1>5. CASE AllocateBpb
    BY <1>5 DEF AllocateBpb, Obtain, GiveUp
  <1>6. CASE AllocateFsInfo
    BY <1>6 DEF AllocateFsInfo, Obtain, GiveUp
  <1>7. CASE AllocateFat
    <2>1. CASE /\ At("fat") /\ pc' = "open"
               /\ UNCHANGED <<device, context, error, caller>>
               /\ held' = held \cup {"fat"} /\ fs' = [fs EXCEPT !.fat = "set"]
      BY <2>1
    <2>2. CASE /\ At("fat") /\ pc' = "open"
               /\ UNCHANGED <<device, context, error, caller, held, fs>>
      BY <2>2
    <2>3. QED
      BY <1>7, <2>1, <2>2 DEF AllocateFat
  <1>8. CASE OpenDevice
    BY <1>8 DEF OpenDevice, Obtain, GiveUp
  <1>9. CASE CheckDevice
    BY <1>9 DEF CheckDevice, GiveUp, Continue
  <1>10. CASE ReadBpb
    BY <1>10 DEF ReadBpb, GiveUp, Continue
  <1>11. CASE ReadFsInfo
    BY <1>11 DEF ReadFsInfo, GiveUp, Continue
  <1>12. CASE InitFat
    <2>1. CASE Obtain("dup", "fat_fd", "fat_fd", "file_table") /\ fs.fat = "set"
      BY <2>1 DEF Obtain, GiveUp
    <2>2. CASE pc = "dup" /\ Die("segmentation fault")
      BY <2>2 DEF Die
    <2>3. CASE pc = "dup" /\ GiveUp(FE_ERRNO)
      BY <2>3 DEF GiveUp
    <2>4. QED
      BY <1>12, <2>1, <2>2, <2>3 DEF InitFat
  <1>13. CASE CreateFileTable
    BY <1>13 DEF CreateFileTable
  <1>14. CASE CreateFhTable
    BY <1>14 DEF CreateFhTable, Obtain, GiveUp
  <1>15. CASE CreateAllocator
    BY <1>15 DEF CreateAllocator, Obtain, GiveUp
  <1>16. CASE VerboseInfo
    BY <1>16 DEF VerboseInfo, MainCleanup
  <1>17. CASE FuseLoop
    BY <1>17 DEF FuseLoop, MainCleanup
  <1>18. CASE CloseFs
    BY <1>18 DEF CloseFs
  <1>19. CASE CloseLog
    BY <1>19 DEF CloseLog
  <1>20. CASE CleanupDevice
    BY <1>20 DEF CleanupDevice, CleanupFails, Die
  <1>21. CASE CleanupStructures
    BY <1>21 DEF CleanupStructures, Pointed
  <1>22. CASE CleanupFat
    BY <1>22 DEF CleanupFat, Pointed, CleanupFails, Die
  <1>23. CASE CleanupTables
    BY ZenonT(40), <1>23 DEF CleanupTables, Pointed, Die
  <1>24. CASE UNCHANGED vars
    BY <1>24 DEF vars
  <1>25. QED
    BY <1>1, <1>2, <1>3, <1>4, <1>5, <1>6, <1>7, <1>8, <1>9, <1>10, <1>11, <1>12, <1>13,
       <1>14, <1>15, <1>16, <1>17, <1>18, <1>19, <1>20, <1>21, <1>22, <1>23, <1>24
    DEF Next

LEMMA GivenUp == ASSUME GiveUp(FE_ERRNO) PROVE error' # FE_OK
  BY DEF GiveUp, FE_OK, FE_ERRNO

LEMMA NextClosingInv == MountInv /\ [Next]_vars => ClosingInv'
  <1> SUFFICES ASSUME MountInv, [Next]_vars
               PROVE  ClosingInv'
    OBVIOUS
  <1> USE DEF MountInv, TypeOK, FsType, OpeningInv, Obtained, ClosingInv, AllSet, At,
              FE_OK, FE_ERRNO, FE_NONBLOCK_DEV, FE_INVALID_DEV, FE_INVALID_FS
  <1> USE DEF Before, Cleaning, FromVerbose, FromAllocator, FromFhTable, FromFileTable,
              FromDup, FromFsInfoRead, FromBpbRead, FromFstat, FromFat,
              FromFsInfo, Opening,
              AfterTables, AfterFat, AfterStructures, AfterDevice
  <1>1. CASE ParseOptions
    BY <1>1 DEF ParseOptions, MainCleanup
  <1>2. CASE OpenLog
    BY <1>2 DEF OpenLog, MainCleanup
  <1>3. CASE AllocateFs
    BY <1>3 DEF AllocateFs, MainCleanup, NoFs
  <1>4. CASE AllocateLock
    BY <1>4 DEF AllocateLock, GiveUp
  <1>5. CASE AllocateBpb
    BY <1>5 DEF AllocateBpb, Obtain, GiveUp
  <1>6. CASE AllocateFsInfo
    BY <1>6 DEF AllocateFsInfo, Obtain, GiveUp
  <1>7. CASE AllocateFat
    BY <1>7 DEF AllocateFat
  <1>8. CASE OpenDevice
    BY <1>8 DEF OpenDevice, Obtain, GiveUp
  <1>9. CASE CheckDevice
    BY <1>9 DEF CheckDevice, GiveUp, Continue
  <1>10. CASE ReadBpb
    BY <1>10 DEF ReadBpb, GiveUp, Continue
  <1>11. CASE ReadFsInfo
    BY <1>11 DEF ReadFsInfo, GiveUp, Continue
  <1>12. CASE InitFat
    <2>1. CASE Obtain("dup", "fat_fd", "fat_fd", "file_table") /\ fs.fat = "set"
      BY <2>1 DEF Obtain, GiveUp
    <2>2. CASE pc = "dup" /\ Die("segmentation fault")
      BY <2>2 DEF Die
    <2>3. CASE pc = "dup" /\ GiveUp(FE_ERRNO)
      BY <2>3, GivenUp
    <2>4. QED
      BY <1>12, <2>1, <2>2, <2>3 DEF InitFat
  <1>13. CASE CreateFileTable
    BY <1>13 DEF CreateFileTable
  <1>14. CASE CreateFhTable
    BY <1>14 DEF CreateFhTable, Obtain, GiveUp
  <1>15. CASE CreateAllocator
    BY <1>15 DEF CreateAllocator, Obtain, GiveUp
  <1>16. CASE VerboseInfo
    BY <1>16 DEF VerboseInfo, MainCleanup
  <1>17. CASE FuseLoop
    BY <1>17 DEF FuseLoop, MainCleanup
  <1>18. CASE CloseFs
    BY ZenonT(40), <1>18 DEF CloseFs
  <1>19. CASE CloseLog
    BY <1>19 DEF CloseLog
  <1>20. CASE CleanupDevice
    BY <1>20 DEF CleanupDevice, CleanupFails, Die
  <1>21. CASE CleanupStructures
    BY <1>21 DEF CleanupStructures, Pointed
  <1>22. CASE CleanupFat
    BY <1>22 DEF CleanupFat, Pointed, CleanupFails, Die
  <1>23. CASE CleanupTables
    BY ZenonT(40), <1>23 DEF CleanupTables, Pointed, Die
  <1>24. CASE UNCHANGED vars
    BY <1>24 DEF vars
  <1>25. QED
    BY <1>1, <1>2, <1>3, <1>4, <1>5, <1>6, <1>7, <1>8, <1>9, <1>10, <1>11, <1>12, <1>13,
       <1>14, <1>15, <1>16, <1>17, <1>18, <1>19, <1>20, <1>21, <1>22, <1>23, <1>24
    DEF Next

LEMMA NextServedInv == MountInv /\ [Next]_vars => ServedInv'
  <1> SUFFICES ASSUME MountInv, [Next]_vars
               PROVE  ServedInv'
    OBVIOUS
  <1> USE DEF MountInv, TypeOK, FsType, OpeningInv, Obtained, ServedInv, AllSet, At,
              FE_OK, FE_ERRNO
  <1> USE DEF Before, Cleaning, FromVerbose, FromAllocator, FromFhTable, FromFileTable,
              FromDup, FromFsInfoRead, FromBpbRead, FromFstat, FromFat,
              FromFsInfo, Opening,
              AfterTables, AfterFat, AfterStructures, AfterDevice
  <1>1. CASE ParseOptions
    BY <1>1 DEF ParseOptions, MainCleanup
  <1>2. CASE OpenLog
    BY <1>2 DEF OpenLog, MainCleanup
  <1>3. CASE AllocateFs
    BY <1>3 DEF AllocateFs, MainCleanup, NoFs
  <1>4. CASE AllocateLock
    BY <1>4 DEF AllocateLock, GiveUp
  <1>5. CASE AllocateBpb
    BY <1>5 DEF AllocateBpb, Obtain, GiveUp
  <1>6. CASE AllocateFsInfo
    BY <1>6 DEF AllocateFsInfo, Obtain, GiveUp
  <1>7. CASE AllocateFat
    BY <1>7 DEF AllocateFat
  <1>8. CASE OpenDevice
    BY <1>8 DEF OpenDevice, Obtain, GiveUp
  <1>9. CASE CheckDevice
    BY <1>9 DEF CheckDevice, GiveUp, Continue
  <1>10. CASE ReadBpb
    BY <1>10 DEF ReadBpb, GiveUp, Continue
  <1>11. CASE ReadFsInfo
    BY <1>11 DEF ReadFsInfo, GiveUp, Continue
  <1>12. CASE InitFat
    BY <1>12 DEF InitFat, Obtain, GiveUp, Die
  <1>13. CASE CreateFileTable
    BY <1>13 DEF CreateFileTable
  <1>14. CASE CreateFhTable
    BY <1>14 DEF CreateFhTable, Obtain, GiveUp
  <1>15. CASE CreateAllocator
    BY <1>15 DEF CreateAllocator, Obtain, GiveUp
  <1>16. CASE VerboseInfo
    BY <1>16 DEF VerboseInfo, MainCleanup
  <1>17. CASE FuseLoop
    BY <1>17 DEF FuseLoop, MainCleanup
  <1>18. CASE CloseFs
    BY <1>18 DEF CloseFs
  <1>19. CASE CloseLog
    BY <1>19 DEF CloseLog
  <1>20. CASE CleanupDevice
    BY <1>20 DEF CleanupDevice, CleanupFails, Die
  <1>21. CASE CleanupStructures
    BY <1>21 DEF CleanupStructures, Pointed
  <1>22. CASE CleanupFat
    BY <1>22 DEF CleanupFat, Pointed, CleanupFails, Die
  <1>23. CASE CleanupTables
    BY <1>23 DEF CleanupTables, Pointed, Die
  <1>24. CASE UNCHANGED vars
    BY <1>24 DEF vars
  <1>25. QED
    BY <1>1, <1>2, <1>3, <1>4, <1>5, <1>6, <1>7, <1>8, <1>9, <1>10, <1>11, <1>12, <1>13,
       <1>14, <1>15, <1>16, <1>17, <1>18, <1>19, <1>20, <1>21, <1>22, <1>23, <1>24
    DEF Next

LEMMA NextMountInv == MountInv /\ [Next]_vars => MountInv'
  BY NextMountTypeOK, NextOpeningInv, NextClosingInv, NextServedInv DEF MountInv

-----------------------------------------------------------------------------
(***************************************************************************)
(* What is written to the log preserves LogInv, whoever calls it.          *)
(***************************************************************************)
LogNext ==
    \/ \E t \in Threads :
          LogStep(t) \/ \E level \in Nat, loc \in BOOLEAN : Log(t, level, loc)
    \/ \E closes \in BOOLEAN, level \in Nat : Opened(closes, level)
    \/ log_close

LEMMA InitLogInv == LogInit => LogInv
  <1> SUFFICES ASSUME LogInit
               PROVE  LogInv
    OBVIOUS
  <1> USE DEF LogInit
  <1>1. NoMessage \in MessageType
    BY DEF NoMessage, MessageType, MessagePcs, LOG_DEBUG
  <1>2. LogTypeOK
    BY <1>1 DEF LogTypeOK
  <1>3. \A t \in Threads : message[t].pc = "idle"
    BY DEF NoMessage
  <1>4. LockInv
    BY <1>3 DEF LockInv, Holding, LineEnded, After
  <1>5. PieceInv
    BY <1>3 DEF PieceInv, FirstPiece
  <1>6. QED
    BY <1>2, <1>4, <1>5 DEF LogInv

LEMMA NextLogTypeOK == LogTypeOK /\ [LogNext]_logVars => LogTypeOK'
  <1> SUFFICES ASSUME LogTypeOK, [LogNext]_logVars
               PROVE  LogTypeOK'
    OBVIOUS
  <1> USE DEF LogTypeOK, MessageType, MessagePcs, After
  <1>1. ASSUME NEW t \in Threads, NEW level \in Nat, NEW loc \in BOOLEAN,
               Log(t, level, loc)
        PROVE  LogTypeOK'
    BY <1>1 DEF Log, NoMessage
  <1>2. ASSUME NEW t \in Threads, Check(t)
        PROVE  LogTypeOK'
    BY <1>2 DEF Check, Step
  <1>3. ASSUME NEW t \in Threads, Lock(t)
        PROVE  LogTypeOK'
    BY <1>3 DEF Lock, Step, FirstPiece
  <1>4. ASSUME NEW t \in Threads, Write(t)
        PROVE  LogTypeOK'
    BY <1>4 DEF Write, Step
  <1>5. ASSUME NEW t \in Threads, WriteFails(t)
        PROVE  LogTypeOK'
    <2>1. [message[t] EXCEPT !.pc = "unlock", !.result = 1] \in MessageType
      OBVIOUS
    <2>2. message' = [message EXCEPT ![t] = [message[t] EXCEPT !.pc = "unlock", !.result = 1]]
      BY <1>5 DEF WriteFails
    <2>3. QED
      BY <1>5, <2>1, <2>2 DEF WriteFails
  <1>6. ASSUME NEW t \in Threads, Unlock(t)
        PROVE  LogTypeOK'
    BY <1>6 DEF Unlock, Step
  <1>7. ASSUME NEW closes, NEW level, Opened(closes, level)
        PROVE  LogTypeOK'
    BY <1>7 DEF Opened
  <1>8. CASE log_close
    BY <1>8 DEF log_close
  <1>9. CASE UNCHANGED logVars
    BY <1>9 DEF logVars
  <1>10. QED
    BY <1>1, <1>2, <1>3, <1>4, <1>5, <1>6, <1>7, <1>8, <1>9 DEF LogNext, LogStep

\* Only the message of the thread that acts changes, and never where it is from.
LEMMA OneMessage ==
  ASSUME LogTypeOK, NEW t \in Threads, LogStep(t)
  PROVE  /\ message'[t].loc = message[t].loc
         /\ \A u \in Threads \ {t} : message'[u] = message[u]
  BY DEF LogTypeOK, MessageType, LogStep, Check, Lock, Write, WriteFails, Unlock, Step

\* What each step does with the message and with "last".
LEMMA MessageSteps ==
  ASSUME LogTypeOK, NEW t \in Threads
  PROVE  /\ Check(t) => /\ message'[t].pc \in {"idle", "lock"}
                        /\ UNCHANGED <<log_lock, last>>
         /\ Lock(t) => message'[t].pc = FirstPiece(t)
         /\ Write(t) => message'[t].pc = After[message[t].pc]
         /\ WriteFails(t) => message'[t].pc = "unlock"
         /\ Unlock(t) => message'[t].pc = "idle"
  BY DEF LogTypeOK, MessageType, Check, Lock, Write, WriteFails, Unlock, Step

LEMMA NextLockPieceInv ==
    LogInv /\ [LogNext]_logVars => (LockInv /\ PieceInv)'
  <1> SUFFICES ASSUME LogInv, [LogNext]_logVars
               PROVE  (LockInv /\ PieceInv)'
    OBVIOUS
  <1> USE LogAssumption DEF LogInv, LockInv, PieceInv, Holding, LineEnded, FirstPiece, After
  <1>1. ASSUME NEW t \in Threads, NEW level \in Nat, NEW loc \in BOOLEAN,
               Log(t, level, loc)
        PROVE  (LockInv /\ PieceInv)'
    <2>1. /\ message'[t].pc = "check"
          /\ \A u \in Threads \ {t} : message'[u] = message[u]
          /\ UNCHANGED <<log_lock, last>>
      BY <1>1 DEF Log, NoMessage, LogTypeOK
    <2>2. QED
      BY <2>1
  <1>2. ASSUME NEW t \in Threads, Check(t)
        PROVE  (LockInv /\ PieceInv)'
    BY <1>2, OneMessage, MessageSteps DEF LogStep
  <1>3. ASSUME NEW t \in Threads, Lock(t)
        PROVE  (LockInv /\ PieceInv)'
    BY <1>3, OneMessage, MessageSteps DEF LogStep, Lock
  <1>4. ASSUME NEW t \in Threads, Write(t)
        PROVE  (LockInv /\ PieceInv)'
    BY <1>4, OneMessage, MessageSteps DEF LogStep, Write
  <1>5. ASSUME NEW t \in Threads, WriteFails(t)
        PROVE  (LockInv /\ PieceInv)'
    <2>1. /\ log_lock = t /\ UNCHANGED log_lock
          /\ last'.piece = "broken"
      BY <1>5 DEF WriteFails
    <2>2. /\ message'[t].pc = "unlock"
          /\ \A u \in Threads \ {t} : message'[u] = message[u]
      BY <1>5, OneMessage, MessageSteps DEF LogStep
    <2>3. \A u \in Threads \ {t} : ~Holding(u)'
      BY <2>1, <2>2
    <2>4. QED
      BY <2>1, <2>2, <2>3
  <1>6. ASSUME NEW t \in Threads, Unlock(t)
        PROVE  (LockInv /\ PieceInv)'
    BY <1>6, OneMessage, MessageSteps DEF LogStep, Unlock
  <1>7. ASSUME UNCHANGED <<log_lock, message, last>>
        PROVE  (LockInv /\ PieceInv)'
    BY <1>7
  <1>8. QED
    BY <1>1, <1>2, <1>3, <1>4, <1>5, <1>6, <1>7
    DEF LogNext, LogStep, Opened, log_close, logVars

LEMMA NextLogInv == LogInv /\ [LogNext]_logVars => LogInv'
  BY NextLogTypeOK, NextLockPieceInv DEF LogInv

\* The pieces of a message follow each other.
LinesWholeStep ==
    last' # last /\ last'.piece # "broken" => Follows(last'.thread, last'.piece)

LEMMA LogStepLinesWhole == LogInv /\ [LogNext]_logVars => LinesWholeStep
  <1> SUFFICES ASSUME LogInv, [LogNext]_logVars, last' # last, last'.piece # "broken"
               PROVE  Follows(last'.thread, last'.piece)
    BY DEF LinesWholeStep
  <1>1. PICK t \in Threads : Write(t)
    <2>1. ~(UNCHANGED last)
      OBVIOUS
    <2>2. \A t \in Threads : ~Check(t) /\ ~Lock(t) /\ ~Unlock(t) /\ ~WriteFails(t)
      BY <2>1 DEF Check, Lock, Unlock, WriteFails
    <2>3. \A t \in Threads, level \in Nat, loc \in BOOLEAN : ~Log(t, level, loc)
      BY <2>1 DEF Log
    <2>4. QED
      BY <2>1, <2>2, <2>3 DEF LogNext, LogStep, Opened, log_close, logVars
  <1>2. /\ message[t].pc \in {"where", "level", "text", "newline"}
        /\ last' = [thread |-> t, piece |-> message[t].pc]
    BY <1>1 DEF Write, After
  <1>3. QED
    BY <1>2 DEF LogInv, PieceInv, LineEnded, FirstPiece, Follows, Preceding

-----------------------------------------------------------------------------
(***************************************************************************)
(* A step of the driver is a step of main, or none, and a step of the log, *)
(* or none.                                                                *)
(***************************************************************************)

LEMMA LevelsAreLevels ==
    /\ LOG_ERROR \in Nat /\ LogLevels \subseteq Nat
    /\ pc \in DOMAIN LevelAt => LevelAt[pc] \in Nat
  BY DriverAssumption DEF LevelAt, LOG_DEBUG, LOG_INFO, LOG_WARNING, LOG_ERROR

LEMMA DriverSteps == [DriverNext]_driverVars => [Next]_vars /\ [LogNext]_logVars
  <1> SUFFICES ASSUME [DriverNext]_driverVars
               PROVE  [Next]_vars /\ [LogNext]_logVars
    OBVIOUS
  <1>1. CASE Quietly(Others)
    BY <1>1 DEF Quietly, Others, Next
  <1>2. CASE OpensLog
    BY <1>2, LevelsAreLevels
    DEF OpensLog, Next, LogNext, log_init_from_path, log_init_from_file
  <1>3. CASE PrintsInfo
    BY <1>3 DEF PrintsInfo, Quietly, Next
  <1>4. CASE LeavesLoop
    BY <1>4 DEF LeavesLoop, Quietly, Next
  <1>5. CASE ClosesLog
    BY <1>5 DEF ClosesLog, Next, LogNext
  <1>6. CASE MainLogs
    BY <1>6, LevelsAreLevels, DriverAssumption DEF MainLogs, Speaks, LogNext
  <1>7. ASSUME NEW t \in Workers, HandlerLogs(t)
        PROVE  [Next]_vars /\ [LogNext]_logVars
    BY <1>7, LevelsAreLevels DEF HandlerLogs, LogNext, Workers
  <1>8. ASSUME NEW t \in Threads, Logging(t)
        PROVE  [Next]_vars /\ [LogNext]_logVars
    BY <1>8 DEF Logging, LogNext
  <1>9. CASE UNCHANGED driverVars
    BY <1>9 DEF driverVars
  <1>10. QED
    BY <1>1, <1>2, <1>3, <1>4, <1>5, <1>6, <1>7, <1>8, <1>9 DEF DriverNext

LEMMA InitDriverInv == DriverInit => DriverInv
  <1> SUFFICES ASSUME DriverInit
               PROVE  DriverInv
    OBVIOUS
  <1>1. CloseInv
    BY DEF DriverInit, Init, LogInit, CloseInv, NoMessage, Logs, Workers
  <1>2. QED
    BY <1>1, InitMountInv, InitLogInv DEF DriverInit, DriverInv

\* Where the steps of main lead.
LEMMA OthersStayOut ==
  ASSUME Others
  PROVE  pc \notin {"loop", "ended"} /\ pc' \notin {"loop", "ended"}
  <1> USE DEF At
  <1>1. CASE ParseOptions \/ AllocateFs \/ AllocateLock \/ AllocateFat
    BY <1>1 DEF ParseOptions, MainCleanup, AllocateFs, AllocateLock, GiveUp, AllocateFat
  <1>2. CASE AllocateBpb \/ AllocateFsInfo \/ OpenDevice \/ CreateFhTable \/ CreateAllocator
    BY <1>2
    DEF AllocateBpb, AllocateFsInfo, OpenDevice, CreateFhTable, CreateAllocator, Obtain,
        GiveUp
  <1>3. CASE CheckDevice \/ ReadBpb \/ ReadFsInfo
    BY <1>3 DEF CheckDevice, ReadBpb, ReadFsInfo, Continue, GiveUp
  <1>4. CASE InitFat \/ CreateFileTable
    BY <1>4 DEF InitFat, CreateFileTable, Obtain, Die, GiveUp
  <1>5. CASE CloseFs \/ CleanupStructures \/ CleanupTables
    BY <1>5 DEF CloseFs, CleanupStructures, CleanupTables, Die
  <1>6. CASE CleanupDevice \/ CleanupFat
    BY <1>6 DEF CleanupDevice, CleanupFat, CleanupFails, Die
  <1>7. QED
    BY <1>1, <1>2, <1>3, <1>4, <1>5, <1>6 DEF Others

LEMMA MainSteps ==
    /\ OpenLog => pc = "log" /\ pc' \in {"fs", "main_cleanup"}
    /\ VerboseInfo => pc = "verbose" /\ pc' \in {"loop", "main_cleanup"}
    /\ FuseLoop => pc = "loop" /\ pc' = "main_cleanup"
    /\ CloseLog => pc = "close_log" /\ pc' = "ended"
  BY DEF OpenLog, VerboseInfo, FuseLoop, CloseLog, At, MainCleanup

(***************************************************************************)
(* Who leaves the loop has waited for the handlers, who closes the log is  *)
(* main and ends with that, and nobody starts a message later.             *)
(***************************************************************************)
LEMMA NextCloseInv == DriverInv /\ [DriverNext]_driverVars => CloseInv'
  <1> SUFFICES ASSUME DriverInv, [DriverNext]_driverVars
               PROVE  CloseInv'
    OBVIOUS
  <1> USE DEF DriverInv, CloseInv
  <1>1. CASE Quietly(Others)
    BY <1>1, OthersStayOut DEF Quietly, logVars, Logs
  <1>2. CASE OpensLog
    <2>1. UNCHANGED <<message, misuse>> /\ log_file' # "closed"
      BY <1>2, MainSteps
      DEF OpensLog, log_init_from_path, log_init_from_file, Opened, logVars
    <2>2. QED
      BY <1>2, <2>1, MainSteps DEF OpensLog, Logs
  <1>3. CASE PrintsInfo
    BY <1>3, MainSteps DEF PrintsInfo, Quietly, logVars, Logs
  <1>4. CASE LeavesLoop
    BY <1>4, MainSteps DEF LeavesLoop, Quietly, logVars, Logs
  <1>5. CASE ClosesLog
    BY <1>5, MainSteps DEF ClosesLog, Free, log_close, logVars, Logs
  <1>6. CASE MainLogs
    <2>1. /\ pc' = pc /\ pc # "ended"
          /\ UNCHANGED <<log_file, misuse>>
      BY <1>6 DEF MainLogs, Speaks, LevelAt, Log, vars
    <2>2. \A u \in Workers : message'[u] = message[u]
      BY <1>6, DriverAssumption DEF MainLogs, Log, Workers, LogInv, LogTypeOK
    <2>3. QED
      BY <2>1, <2>2 DEF Logs
  <1>7. ASSUME NEW t \in Workers, HandlerLogs(t)
        PROVE  CloseInv'
    BY <1>7 DEF HandlerLogs, At, Log, vars
  <1>8. ASSUME NEW t \in Threads, Logging(t)
        PROVE  CloseInv'
    <2>1. LogStep(t) /\ Logs(t) /\ UNCHANGED <<pc, log_file>>
      BY <1>8 DEF Logging, LogStep, Check, Lock, Write, WriteFails, Unlock, Logs, After, vars
    <2>2. log_file # "closed" /\ pc # "ended" /\ pc' = pc
      BY <2>1, DriverAssumption DEF Logs, Workers
    <2>3. ~misuse'
      BY <2>1, <2>2 DEF LogStep, Check, Lock, Write, WriteFails, Unlock
    <2>4. \A u \in Workers : ~Logs(u) => ~Logs(u)'
      BY <2>1, OneMessage DEF LogInv, Logs, Workers
    <2>5. QED
      BY <2>1, <2>2, <2>3, <2>4
  <1>9. CASE UNCHANGED driverVars
    BY <1>9 DEF driverVars, vars, logVars, Logs
  <1>10. QED
    BY <1>1, <1>2, <1>3, <1>4, <1>5, <1>6, <1>7, <1>8, <1>9 DEF DriverNext

LEMMA NextDriverInv == DriverInv /\ [DriverNext]_driverVars => DriverInv'
  BY DriverSteps, NextMountInv, NextLogInv, NextCloseInv DEF DriverInv

-----------------------------------------------------------------------------
(***************************************************************************)
(* The invariant is an invariant of the driver.                            *)
(***************************************************************************)
THEOREM DriverInvariant == DriverSpec => []DriverInv
  <1>1. QED
    BY InitDriverInv, NextDriverInv, PTL DEF DriverSpec

(***************************************************************************)
(* The FUSE loop is entered only with a block device that carries a valid  *)
(* volume and with everything the handlers dereference (fat32_fs_open and  *)
(* main).                                                                  *)
(***************************************************************************)
THEOREM LoopIsEnteredComplete == DriverSpec => []ServesComplete
  <1>1. DriverInv => ServesComplete
    <2> SUFFICES ASSUME DriverInv, pc = "loop"
                 PROVE  ServesComplete
      BY DEF ServesComplete
    <2>1. OpeningInv /\ fs \in FsType
      BY DEF DriverInv, MountInv, TypeOK
    <2>2. QED
      BY <2>1
      DEF OpeningInv, FsType, Obtained, ServesComplete, FromVerbose, FromAllocator,
          FromFhTable, FromFileTable, FromDup, FromFsInfoRead, FromBpbRead, FromFstat,
          FromFat, FromFsInfo, Opening
  <1>2. QED
    BY <1>1, DriverInvariant, PTL

(***************************************************************************)
(* A driver that ends without an error holds nothing its clean-up is       *)
(* responsible for, whichever step of main led there (fat32_fs_cleanup).   *)
(***************************************************************************)
THEOREM NothingHeldAtExit == DriverSpec => []ReleasedAtExit
  <1>1. DriverInv => ReleasedAtExit
    BY DEF DriverInv, MountInv, TypeOK, ClosingInv, ReleasedAtExit, Resources, NeverFreed,
           AfterDevice, AfterStructures, AfterFat, AfterTables
  <1>2. QED
    BY <1>1, DriverInvariant, PTL

(***************************************************************************)
(* Once the volume has been served, nothing goes wrong on the way out, and *)
(* no thread writes to a log that has been closed (main, log_close).       *)
(***************************************************************************)
THEOREM DriverEndsClean == DriverSpec => []EndsClean
  <1>1. DriverInv => EndsClean
    BY DEF DriverInv, MountInv, ServedInv, CloseInv, EndsClean, ServedEndsClean
  <1>2. QED
    BY <1>1, DriverInvariant, PTL

(***************************************************************************)
(* The pieces of a message come one after the other, whatever threads log  *)
(* at the same time (log_lock).                                            *)
(***************************************************************************)
THEOREM LogLinesAreWhole == DriverSpec => LinesWhole
  <1>1. DriverInv /\ [DriverNext]_driverVars => [LinesWholeStep]_logVars
    BY DriverSteps, LogStepLinesWhole DEF DriverInv
  <1>2. QED
    BY <1>1, DriverInvariant, PTL DEF DriverSpec, LinesWhole, LinesWholeStep


-----------------------------------------------------------------------------
(***************************************************************************)
(* Geometry: on a volume as a formatter makes it nothing wraps around, and *)
(* the code's places are those of the format.                              *)
(***************************************************************************)

BootSectors == [bps : Nat, spc : Nat, reserved : Nat, fats : Nat, fat_size : Nat,
                total : Nat, root : Nat, fs_info : Nat, fixed : BOOLEAN]

LEMMA GeometryConstants ==
  /\ Space32 \in Nat \ {0} /\ MaxClusterSize \in Nat \ {0} /\ MinClusters \in Nat \ {0}
  /\ EntrySize \in Nat \ {0} /\ EntrySize <= 16
  /\ \A s \in SectorSizes : s \in Nat /\ s >= 2
  BY GeometryAssumption

LEMMA Products ==
  ASSUME NEW a \in Nat, NEW b \in Nat, NEW n \in Nat
  PROVE  /\ a * n \in Nat
         /\ a <= b => a * n <= b * n
         /\ a < b => a * n + n <= b * n
         /\ n # 0 /\ a * n <= b * n => a <= b
         /\ (a + b) * n = a * n + b * n
  <1>1. a * n \in Nat /\ (a + b) * n = a * n + b * n
    BY SMT
  <1>2. a < b => a * n + n <= b * n
    BY SMT
  <1>3. a <= b => a * n <= b * n
    BY SMT
  <1>4. n # 0 /\ a * n <= b * n => a <= b
    BY SMT
  <1>5. QED
    BY <1>1, <1>2, <1>3, <1>4

LEMMA Quotients ==
  ASSUME NEW a \in Nat, NEW n \in Nat \ {0}
  PROVE  a \div n \in Nat /\ a % n \in Nat /\ a % n < n /\ a = (a \div n) * n + (a % n)
  <1>1. a \div n \in Nat /\ a % n \in Nat /\ a % n < n
    BY SMT
  <1>2. a = (a \div n) * n + (a % n)
    BY SMTT(60)
  <1>3. QED
    BY <1>1, <1>2

\* A quotient is the greatest number of times.
LEMMA QuotientBounds ==
  ASSUME NEW a \in Nat, NEW n \in Nat \ {0}, NEW q \in Nat
  PROVE  /\ q <= a \div n <=> q * n <= a
         /\ a < q * n => a \div n < q
  <1> DEFINE d == a \div n
             r == a % n
  <1>1. d \in Nat /\ r \in Nat /\ r < n /\ a = d * n + r
    BY Quotients
  <1> HIDE DEF d, r
  <1>2. q * n \in Nat /\ d * n \in Nat
    BY <1>1
  <1>3. q <= d => q * n <= d * n
    BY <1>1, Products
  <1>4. d < q => d * n + n <= q * n
    BY <1>1, Products
  <1>5. (q <= d <=> q * n <= a) /\ (a < q * n => d < q)
    BY <1>1, <1>2, <1>3, <1>4
  <1>6. QED
    BY <1>5 DEF d

\* What a division by n takes apart.
LEMMA QuotientIs ==
  ASSUME NEW n \in Nat \ {0}, NEW k \in Nat, NEW r \in Nat, r < n
  PROVE  (k * n + r) \div n = k /\ (k * n + r) % n = r
  <1> DEFINE a == k * n + r
             d == a \div n
  <1>1. k * n \in Nat /\ a \in Nat
    BY Products
  <1>2. d \in Nat /\ a % n \in Nat /\ a = d * n + (a % n) /\ a % n < n
    BY <1>1, Quotients
  <1>3. (k + 1) * n = k * n + n
    BY Products, SMT
  <1>4. a < (k + 1) * n /\ k * n <= a
    BY <1>1, <1>3
  <1>5. k <= d /\ d < k + 1
    <2>1. k + 1 \in Nat
      OBVIOUS
    <2>2. QED
      BY <1>1, <1>4, <2>1, QuotientBounds
  <1>6. d = k
    BY <1>2, <1>5
  <1>7. a = k * n + (a % n)
    BY <1>2, <1>6
  <1>8. a % n = r
    BY <1>1, <1>2, <1>7
  <1>9. QED
    BY <1>6, <1>8

LEMMA WordsOf32Bits ==
  ASSUME NEW n \in Nat
  PROVE  /\ U32(n) \in Nat /\ U32(n) < Space32 /\ U32(n) <= n
         /\ n < Space32 => U32(n) = n
         /\ U32(n + Space32) = U32(n)
  <1> DEFINE q == n \div Space32
             r == n % Space32
  <1>1. Space32 \in Nat \ {0}
    BY GeometryConstants
  <1>2. q \in Nat /\ r \in Nat /\ r < Space32 /\ n = q * Space32 + r /\ q * Space32 \in Nat
    BY <1>1, Quotients, Products
  <1>3. n < Space32 => r = n
    BY <1>1, SMT
  <1> HIDE DEF q, r
  <1>4. (q + 1) * Space32 = q * Space32 + Space32
    BY <1>1, <1>2, Products, SMT
  <1>5. n + Space32 = (q + 1) * Space32 + r
    BY <1>1, <1>2, <1>4
  <1>6. (n + Space32) % Space32 = r
    BY <1>1, <1>2, <1>5, QuotientIs
  <1>7. r <= n
    BY <1>2
  <1>8. QED
    BY <1>2, <1>3, <1>6, <1>7 DEF U32, r

\* Reserved sectors and tables of a volume, and its clusters.
LEMMA FormattedSizes ==
  ASSUME NEW b \in BootSectors, NEW size \in Nat, Formatted(b, size)
  PROVE  LET first == b.reserved + b.fats * b.fat_size
             count == (b.total - first) \div b.spc
         IN  /\ b.bps \in Nat /\ b.bps >= 2 /\ b.spc \in Nat \ {0}
             /\ b.total \in Nat /\ b.total < Space32
             /\ b.fats * b.fat_size \in Nat /\ first \in Nat /\ first <= b.total
             /\ b.reserved >= 2 /\ b.reserved + b.fat_size <= first
             /\ count \in Nat /\ count <= b.total
             /\ MinClusters <= count
             /\ \A c \in Nat : c \in ClustersOf(b) <=> c >= 2 /\ c <= count + 1
             /\ \A c \in Nat : c >= 2 =>
                  (c <= count + 1 <=> first + (c - 1) * b.spc <= b.total)
             /\ (count + 1) * 16 < Space32
  <1> DEFINE R == b.reserved
             F == b.fats * b.fat_size
             first == R + F
             count == (b.total - first) \div b.spc
  <1>1. /\ b.bps \in Nat /\ b.bps >= 2 /\ b.spc \in Nat \ {0}
        /\ R \in Nat /\ b.fats \in Nat \ {0} /\ b.fat_size \in Nat
        /\ b.total \in Nat /\ b.total < Space32
    BY GeometryConstants DEF Formatted, BootSectors, PowersOf2
  <1>2. F \in Nat /\ b.fat_size <= F
    <2>1. 1 \in Nat /\ 1 <= b.fats /\ 1 * b.fat_size = b.fat_size
      BY <1>1
    <2>2. 1 * b.fat_size <= b.fats * b.fat_size /\ F \in Nat
      BY <1>1, <2>1, Products
    <2>3. QED
      BY <2>1, <2>2
  <1>3. R >= 2
    BY <1>1 DEF Formatted, BootSectors
  <1> HIDE DEF F
  <1>4. first \in Nat /\ R + b.fat_size <= first
    BY <1>1, <1>2
  <1>5. ASSUME NEW c \in Nat, c >= 2
        PROVE  /\ ClusterPlace(b, c + 1) <= b.total * b.bps <=> first + (c - 1) * b.spc <= b.total
               /\ (c - 1) * b.spc \in Nat
    <2>1. c - 1 \in Nat /\ (c + 1) - 2 = c - 1
      BY <1>5
    <2>2. (c - 1) * b.spc \in Nat
      BY <1>1, <2>1, Products
    <2>3. ClusterPlace(b, c + 1) = first * b.bps + (c - 1) * (b.spc * b.bps)
      BY <2>1 DEF ClusterPlace, DataStart, ClusterBytes, F
    <2>4. (c - 1) * (b.spc * b.bps) = ((c - 1) * b.spc) * b.bps
      BY <1>1, <2>1, SMT
    <2> DEFINE k == (c - 1) * b.spc
    <2> HIDE DEF first, k
    <2>5. (first + k) * b.bps = first * b.bps + k * b.bps
      BY <1>1, <1>4, <2>2, Products DEF k
    <2>6. (first + k) * b.bps <= b.total * b.bps <=> first + k <= b.total
      <3>1. first + k \in Nat /\ b.bps # 0
        BY <1>1, <1>4, <2>2 DEF k
      <3>2. QED
        BY <1>1, <3>1, Products
    <2>7. QED
      BY <2>2, <2>3, <2>4, <2>5, <2>6 DEF k
  <1>6. first <= b.total
    <2>1. PICK c \in ClustersOf(b) : c = MinClusters + 1
      BY DEF Formatted
    <2>2. /\ c \in Nat /\ c >= 2 /\ ClusterPlace(b, c + 1) <= b.total * b.bps
      BY <1>1, <2>1 DEF ClustersOf, MinClusterNumber
    <2>3. first + (c - 1) * b.spc <= b.total /\ (c - 1) * b.spc \in Nat
      BY <1>5, <2>2
    <2> HIDE DEF first
    <2>4. QED
      BY <1>1, <1>4, <2>3
  <1>7. b.total - first \in Nat
    <2> HIDE DEF first
    <2>1. QED
      BY <1>1, <1>4, <1>6
  <1> HIDE DEF first
  <1>8. count \in Nat /\ count <= b.total
    <2>1. count \in Nat /\ count * b.spc <= b.total - first
      BY <1>1, <1>7, Quotients, QuotientBounds
    <2> HIDE DEF count
    <2>2. 1 * count <= b.spc * count
      BY <1>1, <2>1, Products
    <2>3. b.spc * count = count * b.spc /\ 1 * count = count
      BY <1>1, <2>1
    <2>4. QED
      BY <1>1, <1>4, <1>7, <2>1, <2>2, <2>3
  <1>9. ASSUME NEW c \in Nat, c >= 2
        PROVE  c <= count + 1 <=> first + (c - 1) * b.spc <= b.total
    <2>1. c - 1 \in Nat /\ (c - 1) * b.spc \in Nat
      BY <1>5, <1>9
    <2>2. c - 1 <= count <=> (c - 1) * b.spc <= b.total - first
      BY <1>1, <1>7, <2>1, QuotientBounds
    <2> HIDE DEF count
    <2>3. QED
      BY <1>1, <1>4, <1>8, <1>9, <2>1, <2>2
  <1> HIDE DEF count
  <1>10. ASSUME NEW c \in Nat
         PROVE  c \in ClustersOf(b) <=> c >= 2 /\ c <= count + 1
    <2>1. c \in ClustersOf(b) <=>
            /\ c >= 2 /\ c <= b.total + 1 /\ ClusterPlace(b, c + 1) <= b.total * b.bps
      BY <1>1 DEF ClustersOf, MinClusterNumber
    <2>2. c >= 2 => (ClusterPlace(b, c + 1) <= b.total * b.bps <=> c <= count + 1)
      BY <1>5, <1>9
    <2>3. c <= count + 1 => c <= b.total + 1
      BY <1>1, <1>8
    <2>4. QED
      BY <2>1, <2>2, <2>3
  <1>11. MinClusters <= count
    <2>1. MinClusters + 1 \in ClustersOf(b) /\ MinClusters \in Nat
      BY GeometryConstants DEF Formatted
    <2>2. MinClusters + 1 <= count + 1
      BY <1>10, <2>1
    <2>3. QED
      BY <1>8, <2>1, <2>2
  <1>12. (count + 1) * 16 < Space32
    <2>1. count + 1 \in Nat /\ count + 1 >= 2
      BY <1>8, <1>11, GeometryConstants
    <2>2. count + 1 \in ClustersOf(b)
      BY <1>10, <2>1
    <2>3. QED
      BY <2>2 DEF Formatted
  <1>13. QED
    BY <1>1, <1>2, <1>3, <1>4, <1>6, <1>8, <1>9, <1>10, <1>11, <1>12 DEF first, count, F
\* What a boot sector that a formatter made says, read by the code.
LEMMA FormattedReads ==
  ASSUME NEW b \in BootSectors, NEW size \in Nat, Formatted(b, size)
  PROVE  LET first == b.reserved + b.fats * b.fat_size
             count == (b.total - first) \div b.spc
         IN  /\ U32(b.fats * b.fat_size) = b.fats * b.fat_size
             /\ FirstDataSector(b) = first
             /\ fat32_bpb_clusters_count(b) = count
             /\ \A c \in Nat : fat32_bpb_is_valid_cluster(b, c) <=> c >= 2 /\ c <= count + 1
  <1> DEFINE F == b.fats * b.fat_size
             first == b.reserved + F
             count == (b.total - first) \div b.spc
  <1>1. /\ b.total \in Nat /\ b.total < Space32 /\ F \in Nat /\ first \in Nat
        /\ first <= b.total /\ count \in Nat /\ (count + 1) * 16 < Space32
        /\ b.reserved \in Nat
    BY FormattedSizes DEF BootSectors
  <1>2. Space32 \in Nat
    BY GeometryConstants
  <1> HIDE DEF F, count
  <1>3. F < Space32 /\ first < Space32 /\ F \in Nat /\ first \in Nat
    BY <1>1, <1>2
  <1>4. U32(F) = F /\ U32(first) = first
    BY <1>3, WordsOf32Bits
  <1>5. FirstDataSector(b) = first
    BY <1>4 DEF FirstDataSector, F
  <1>6. fat32_bpb_clusters_count(b) = count
    <2> DEFINE d == b.total - first
    <2>1. d \in Nat /\ d < Space32
      BY <1>1, <1>2
    <2>2. b.total + Space32 - b.reserved + Space32 - F = (d + Space32) + Space32
      BY <1>1, <1>2
    <2>3. d + Space32 \in Nat
      BY <1>2, <2>1
    <2> HIDE DEF d
    <2>4. U32((d + Space32) + Space32) = d
      BY <2>1, <2>3, WordsOf32Bits
    <2>5. U32(b.total + Space32 - b.reserved + Space32 - U32(b.fats * b.fat_size)) = d
      BY <1>4, <2>2, <2>4 DEF F
    <2>6. QED
      BY <2>5 DEF fat32_bpb_clusters_count, count, d
  <1>7. U32(count + 1) = count + 1
    <2>1. count + 1 \in Nat /\ count + 1 < Space32
      BY <1>1, <1>2
    <2>2. QED
      BY <2>1, WordsOf32Bits
  <1>8. ASSUME NEW c \in Nat
        PROVE  fat32_bpb_is_valid_cluster(b, c) <=> c >= 2 /\ c <= count + 1
    BY <1>6, <1>7 DEF fat32_bpb_is_valid_cluster, MinClusterNumber
  <1>9. QED
    BY <1>4, <1>5, <1>6, <1>8 DEF F, count

\* A volume as a formatter makes it is mounted, and its valid clusters are
\* where the format puts them.
LEMMA FormattedClusters ==
  ASSUME NEW b \in BootSectors, NEW size \in Nat, Formatted(b, size)
  PROVE  /\ fat32_bpb_check_validity(b)
         /\ \A c \in Nat : fat32_bpb_is_valid_cluster(b, c) <=> c \in ClustersOf(b)
         /\ \A c \in ClustersOf(b) : fat32_cluster_to_offset(b, c) = ClusterPlace(b, c)
  <1> DEFINE F == b.fats * b.fat_size
             first == b.reserved + F
             count == (b.total - first) \div b.spc
  <1>1. /\ b.bps \in Nat /\ b.bps >= 2 /\ b.spc \in Nat \ {0}
        /\ b.total \in Nat /\ b.total < Space32
        /\ F \in Nat /\ first \in Nat /\ first <= b.total
        /\ b.reserved >= 2 /\ b.reserved + b.fat_size <= first
        /\ count \in Nat /\ MinClusters <= count
        /\ \A c \in Nat : c \in ClustersOf(b) <=> c >= 2 /\ c <= count + 1
        /\ \A c \in Nat : c >= 2 => (c <= count + 1 <=> first + (c - 1) * b.spc <= b.total)
    BY FormattedSizes
  <1>2. /\ FirstDataSector(b) = first
        /\ fat32_bpb_clusters_count(b) = count
        /\ \A c \in Nat : fat32_bpb_is_valid_cluster(b, c) <=> c >= 2 /\ c <= count + 1
    BY FormattedReads
  <1>3. Space32 \in Nat \ {0} /\ b.reserved \in Nat /\ b.fat_size \in Nat /\ b.fs_info \in Nat
        /\ b.total # 0
    BY <1>1, GeometryConstants DEF BootSectors
  <1>4. \A c \in ClustersOf(b) : c \in Nat
    BY <1>1 DEF ClustersOf, MinClusterNumber
  <1> HIDE DEF F, first, count
  <1>5. \A c \in Nat : fat32_bpb_is_valid_cluster(b, c) <=> c \in ClustersOf(b)
    BY <1>1, <1>2
  <1>6. fat32_bpb_check_validity(b)
    <2>1. /\ b.fixed /\ b.bps \in SectorSizes \cup {0} /\ b.spc \in PowersOf2
          /\ b.spc * b.bps <= MaxClusterSize
          /\ b.fs_info >= 1 /\ b.fs_info <= b.reserved
      BY <1>3 DEF Formatted, ClusterBytes
    <2>2. b.fat_size # 0
      <3>1. PICK c \in ClustersOf(b) : c = MinClusters + 1
        BY DEF Formatted
      <3>2. c \in Nat /\ (c + 1) * EntrySize <= b.fat_size * b.bps
        BY <1>4 DEF Formatted
      <3>3. /\ 1 * EntrySize <= (c + 1) * EntrySize /\ 1 * EntrySize = EntrySize
            /\ (c + 1) * EntrySize \in Nat
        BY <3>2, GeometryConstants, Products
      <3> DEFINE sum == (c + 1) * EntrySize
                 table == b.fat_size * b.bps
      <3>4. /\ EntrySize \in Nat \ {0} /\ table \in Nat /\ sum \in Nat
            /\ EntrySize <= sum /\ sum <= table
        BY <1>1, <1>3, <3>2, <3>3, GeometryConstants, Products
      <3> HIDE DEF sum, table
      <3>5. table # 0
        BY <3>4
      <3>6. QED
        BY <1>1, <3>5 DEF table
    <2>3. b.root \in Nat /\ fat32_bpb_is_valid_cluster(b, b.root)
      BY <1>5 DEF Formatted, BootSectors
    <2>4. QED
      BY <1>1, <1>2, <1>3, <2>1, <2>2, <2>3, GeometryConstants DEF fat32_bpb_check_validity
  <1>7. ASSUME NEW c \in ClustersOf(b)
        PROVE  fat32_cluster_to_offset(b, c) = ClusterPlace(b, c)
    <2>1. c \in Nat /\ c >= 2 /\ first + (c - 1) * b.spc <= b.total
      BY <1>1, <1>4
    <2> DEFINE k == c - 2
    <2>2. k \in Nat /\ k < Space32 /\ c + Space32 - 2 = k + Space32
      <3>1. c <= b.total + 1
        BY DEF ClustersOf
      <3>2. QED
        BY <1>1, <1>3, <2>1, <3>1
    <2> HIDE DEF k
    <2>3. U32(c + Space32 - 2) = k
      BY <2>2, WordsOf32Bits
    <2>4. k <= c - 1 /\ c - 1 \in Nat
      BY <2>1, <2>2 DEF k
    <2>5. k * b.spc \in Nat /\ k * b.spc <= (c - 1) * b.spc /\ (c - 1) * b.spc \in Nat
      BY <1>1, <2>2, <2>4, Products
    <2>6. b.spc * k = k * b.spc
      BY <1>1, <2>2
    <2>7. b.spc * k + first \in Nat /\ b.spc * k + first < Space32
      BY <1>1, <1>3, <2>1, <2>5, <2>6
    <2>8. fat32_cluster_first_sector(b, c) = k * b.spc + first
      BY <1>2, <2>3, <2>6, <2>7, WordsOf32Bits DEF fat32_cluster_first_sector
    <2>9. fat32_cluster_to_offset(b, c) = b.bps * (k * b.spc + first)
      BY <2>8 DEF fat32_cluster_to_offset, fat32_sector_to_offset
    <2>10. ClusterPlace(b, c) = first * b.bps + k * (b.spc * b.bps)
      BY DEF ClusterPlace, DataStart, ClusterBytes, F, first, k
    <2>11. k * (b.spc * b.bps) = (k * b.spc) * b.bps
      BY <1>1, <2>2, SMT
    <2>12. (k * b.spc + first) * b.bps = (k * b.spc) * b.bps + first * b.bps
      BY <1>1, <2>5, Products
    <2>13. b.bps * (k * b.spc + first) = (k * b.spc + first) * b.bps
      BY <1>1, <2>5, SMT
    <2>14. first * b.bps \in Nat /\ (k * b.spc) * b.bps \in Nat
      BY <1>1, <2>5, Products
    <2>15. QED
      BY <2>9, <2>10, <2>11, <2>12, <2>13, <2>14
  <1>8. QED
    BY <1>5, <1>6, <1>7

\* Any number is an index into the sectors of a table or past them, never
\* before them.
LEMMA EntriesFollowTheReserved ==
  ASSUME NEW b \in BootSectors, NEW c \in Nat, b.bps >= 2, b.reserved * 2 <= Space32
  PROVE  /\ fat32_fat_entry_offset(b, c) \in Nat
         /\ fat32_fat_entry_offset(b, c) >= TableStart(b)
         /\ fat32_fat_entry_offset(b, c) = TableStart(b) + U32(c * EntrySize)
  <1> DEFINE at == U32(c * EntrySize)
             q == at \div b.bps
             r == at % b.bps
  <1>1. Space32 \in Nat \ {0} /\ EntrySize \in Nat /\ b.bps \in Nat \ {0} /\ b.reserved \in Nat
    BY GeometryConstants DEF BootSectors
  <1>2. c * EntrySize \in Nat
    BY <1>1, Products
  <1>3. at \in Nat /\ at < Space32
    BY <1>2, WordsOf32Bits
  <1> HIDE DEF at
  <1>4. q \in Nat /\ r \in Nat /\ at = q * b.bps + r /\ q * b.bps \in Nat
    BY <1>1, <1>3, Quotients, Products
  <1> HIDE DEF q, r
  <1>5. 2 * q <= b.bps * q /\ b.bps * q = q * b.bps
    BY <1>1, <1>4, Products
  <1>6. b.reserved + q \in Nat /\ b.reserved + q < Space32
    BY <1>1, <1>3, <1>4, <1>5
  <1>7. U32(b.reserved + q) = b.reserved + q
    BY <1>6, WordsOf32Bits
  <1>8. fat32_fat_entry_offset(b, c) = b.bps * (b.reserved + q) + r
    BY <1>7 DEF fat32_fat_entry_offset, fat32_sector_offset_to_offset, fat32_sector_to_offset,
       at, q, r
  <1>9. b.bps * (b.reserved + q) = b.reserved * b.bps + q * b.bps
    BY <1>1, <1>4, SMT
  <1>10. b.reserved * b.bps \in Nat
    BY <1>1, Products
  <1>11. QED
    BY <1>3, <1>4, <1>8, <1>9, <1>10 DEF TableStart, at

\* The entry of a cluster of the volume is in the first table, all of it.
LEMMA FormattedEntries ==
  ASSUME NEW b \in BootSectors, NEW size \in Nat, Formatted(b, size),
         b.reserved * 2 <= Space32, NEW c \in ClustersOf(b)
  PROVE  /\ c \in Nat
         /\ fat32_fat_entry_offset(b, c) = EntryPlace(b, c)
         /\ EntryPlace(b, c) \in Nat /\ EntryPlace(b, c) + EntrySize <= size
  <1> DEFINE F == b.fats * b.fat_size
             first == b.reserved + F
  <1>1. /\ b.bps \in Nat /\ b.bps >= 2 /\ b.total \in Nat
        /\ first \in Nat /\ first <= b.total /\ b.reserved + b.fat_size <= first
    BY FormattedSizes
  <1>2. /\ Space32 \in Nat \ {0} /\ EntrySize \in Nat /\ EntrySize <= 16
        /\ b.reserved \in Nat /\ b.fat_size \in Nat
    BY GeometryConstants DEF BootSectors
  <1>3. c \in Nat /\ c * 16 < Space32 /\ (c + 1) * EntrySize <= b.fat_size * b.bps
    BY <1>1 DEF Formatted, ClustersOf, MinClusterNumber
  <1> HIDE DEF F, first
  <1>4. c * EntrySize \in Nat /\ EntrySize * c <= 16 * c /\ EntrySize * c = c * EntrySize
    BY <1>2, <1>3, Products
  <1>5. U32(c * EntrySize) = c * EntrySize
    <2>1. c * EntrySize < Space32
      BY <1>2, <1>3, <1>4
    <2>2. QED
      BY <1>4, <2>1, WordsOf32Bits
  <1>6. fat32_fat_entry_offset(b, c) = EntryPlace(b, c) /\ fat32_fat_entry_offset(b, c) \in Nat
    BY <1>1, <1>3, <1>5, EntriesFollowTheReserved DEF EntryPlace
  <1>7. EntryPlace(b, c) + EntrySize <= size
    <2>1. /\ (b.reserved + b.fat_size) * b.bps <= b.total * b.bps
          /\ (b.reserved + b.fat_size) * b.bps = b.reserved * b.bps + b.fat_size * b.bps
      <3>1. b.reserved + b.fat_size \in Nat /\ b.reserved + b.fat_size <= b.total
        BY <1>1, <1>2
      <3>2. QED
        BY <1>1, <1>2, <3>1, Products
    <2>2. (c + 1) * EntrySize = c * EntrySize + EntrySize
      BY <1>2, <1>3, SMT
    <2>3. b.total * b.bps <= size
      BY DEF Formatted
    <2>4. /\ b.reserved * b.bps \in Nat /\ b.fat_size * b.bps \in Nat /\ b.total * b.bps \in Nat
      BY <1>1, <1>2, Products
    <2>5. QED
      BY <1>2, <1>3, <1>4, <2>1, <2>2, <2>3, <2>4 DEF EntryPlace, TableStart
  <1>8. QED
    BY <1>3, <1>6, <1>7
-----------------------------------------------------------------------------
(***************************************************************************)
(* The inductive invariant of the device, where a transfer is not split:   *)
(* how far the transfer of each call has come, and what is on the disk.    *)
(***************************************************************************)
Boots == {v.bpb : v \in Volumes}

Transfers ==
    [fn : {"none", "xread", "xwrite"}, count : Nat, done : Nat, signals : Nat, ret : Int,
     buf : UNION {[1..n -> Int] : n \in Nat}]

CallKinds == {"none", "mount", "get_entry", "set_entry", "read_cluster"}

DeviceCalls ==
    [fn : CallKinds, pc : {"idle", "bpb", "seek", "info", "transfer"}, cluster : Nat, saved : Nat]

DeviceTypeOK ==
    /\ volume \in Volumes
    /\ disk \in [0..volume.size - 1 -> Int]
    /\ offset \in Nat
    /\ io \in Transfers /\ io.buf \in [1..io.count -> Int]
    /\ bpb = NoBpb \/ bpb \in Boots
    /\ call \in DeviceCalls
    /\ reply \in [fn : CallKinds, cluster : Nat,
                  code : {FE_OK, FE_ERRNO, FE_INVALID_DEV, FE_INVALID_FS, FE_INVALID_CLUSTER}]

\* Which call is in which transfer.
DeviceShape ==
    /\ Idle => call = NoCall /\ Done
    /\ ~Idle => reply = NoReply
    /\ call.pc \in {"bpb", "seek", "info"} => call.fn = "mount" /\ io.fn # "xwrite"
    /\ call.pc = "bpb" => bpb = NoBpb /\ io.count = BpbSize
    /\ call.pc \in {"seek", "info", "transfer"} => bpb # NoBpb
    /\ call.pc = "seek" => Done
    /\ call.pc = "info" => io.count = FsInfoSize
    /\ call.pc = "transfer" =>
        /\ call.fn \in {"get_entry", "set_entry", "read_cluster"}
        /\ call.fn = "set_entry" =>
            /\ io.fn # "xread" /\ io.count = EntrySize
            /\ io.buf = [i \in 1..EntrySize |-> -i]
        /\ call.fn # "set_entry" => io.fn # "xwrite"
        /\ call.fn = "get_entry" => io.count = EntrySize

\* A boot sector that was accepted, and what was written to the disk.
DeviceContents ==
    /\ bpb # NoBpb => bpb.bps \in SectorSizes \cup {0}
    /\ bpb # NoBpb /\ call.pc \in {"idle", "transfer"} => bpb.bps # 0
    /\ \A o \in 0..volume.size - 1 : disk[o] = o \/ disk[o] < 0
    /\ Sane =>
        /\ bpb # NoBpb => bpb = volume.bpb
        /\ \A o \in 0..volume.size - 1 : o < TableStart(volume.bpb) => disk[o] = o

\* Transfer t, from place on a disk of size bytes, is at offset at.  It is made
\* in one piece, or the device ends first.
Progress(t, at, size, place) ==
    /\ t.fn # "none" =>
        \/ t.done = 0 /\ at = place
        \/ t.done < t.count /\ at >= size /\ place + t.count > size
    /\ t.fn = "none" =>
        \/ t.ret = -1
        \/ t.ret >= 0 /\ t.ret < t.count /\ place + t.count > size
        \/ t.ret = t.count /\ place + t.count <= size

\* What a read that ended well has in the buffer.
HasBytes(t, d, place) ==
    t.fn = "none" /\ t.ret = t.count => \A i \in 1..t.count : t.buf[i] = d[place + i - 1]

Advances(place) == Progress(io, offset, volume.size, place)

DeviceProgress ==
    /\ call.pc = "bpb" => Advances(0) /\ HasBytes(io, disk, 0)
    /\ call.pc = "info" =>
        /\ Advances(fat32_sector_to_offset(bpb, bpb.fs_info))
        /\ HasBytes(io, disk, fat32_sector_to_offset(bpb, bpb.fs_info))
    /\ call.pc = "transfer" /\ call.fn \in {"get_entry", "set_entry"} =>
        Advances(fat32_fat_entry_offset(bpb, call.cluster))
    /\ call.pc = "transfer" /\ call.fn = "get_entry" =>
        HasBytes(io, disk, fat32_fat_entry_offset(bpb, call.cluster))

\* A write to the entry of a cluster of the volume.
DeviceWrites ==
    call.fn = "set_entry" /\ OfSaneCluster(call.cluster) =>
        \/ disk = before /\ (Done => io.ret = -1)
        \/ Done /\ DOMAIN before = DOMAIN disk /\ disk = Stored(call.cluster)

DeviceReplies ==
    /\ Sane /\ Answered("mount") => reply.code \in {FE_OK, FE_ERRNO}
    /\ ReadsTheEntry
    /\ Answered("set_entry") /\ OfSaneCluster(reply.cluster) =>
        disk \in {Stored(reply.cluster)} \cup IF reply.code = FE_OK THEN {} ELSE {before}

DeviceInv ==
    DeviceTypeOK /\ DeviceShape /\ DeviceContents /\ DeviceProgress /\ DeviceWrites /\ DeviceReplies

LEMMA MinOfTwo ==
  ASSUME NEW a \in Int, NEW b \in Int
  PROVE  Min({a, b}) = IF a <= b THEN a ELSE b
  <1> DEFINE m == IF a <= b THEN a ELSE b
             P(x) == x \in {a, b} /\ \A y \in {a, b} : x <= y
  <1>1. P(m) /\ m \in Int
    OBVIOUS
  <1>2. \A x : P(x) => x = m
    OBVIOUS
  <1>3. Min({a, b}) = CHOOSE x \in {a, b} : \A y \in {a, b} : x <= y
    BY DEF Min
  <1>4. P(CHOOSE x : P(x))
    BY <1>1
  <1>5. Min({a, b}) = CHOOSE x : P(x)
    BY <1>3
  <1> HIDE DEF P, m
  <1>6. Min({a, b}) = m
    BY <1>2, <1>4, <1>5
  <1>7. QED
    BY <1>6 DEF m

LEMMA VolumesAreTyped ==
  ASSUME NEW v \in Volumes
  PROVE  /\ v.size \in Nat /\ v.info \in Nat \ {0}
         /\ v.bpb \in BootSectors /\ v.bpb.reserved * 2 <= Space32
  BY DeviceAssumption DEF BootSectors

LEMMA BootsAreTyped ==
  ASSUME NEW b \in Boots
  PROVE  b \in BootSectors /\ b.reserved * 2 <= Space32
  BY VolumesAreTyped DEF Boots

LEMMA SizeOfDisk ==
  ASSUME DeviceTypeOK
  PROVE  Size = volume.size /\ volume.size \in Nat
  <1>1. volume.size \in Nat
    BY VolumesAreTyped DEF DeviceTypeOK
  <1>2. DOMAIN disk = 0..volume.size - 1
    BY DEF DeviceTypeOK
  <1>3. Cardinality(0..volume.size - 1) = volume.size
    <2>1. 0 \in Int /\ volume.size - 1 \in Int
      BY <1>1
    <2>2. Cardinality(0..volume.size - 1) =
            IF 0 > volume.size - 1 THEN 0 ELSE (volume.size - 1) - 0 + 1
      BY <2>1, FS_Interval
    <2>3. QED
      BY <1>1, <2>2
  <1>4. QED
    BY <1>1, <1>2, <1>3 DEF Size

\* Where a transfer is not split, a call transfers all there is.
Whole == IF io.count <= volume.size - offset THEN io.count ELSE volume.size - offset

LEMMA OneLength ==
  ASSUME DeviceTypeOK, ~Splits, NEW length \in Lengths
  PROVE  /\ offset < volume.size
         /\ length = Whole
         /\ Whole \in Nat /\ Whole <= io.count /\ offset + Whole <= volume.size
  <1>1. Size = volume.size /\ volume.size \in Nat /\ offset \in Nat /\ io.count \in Nat
    BY SizeOfDisk DEF DeviceTypeOK, Transfers
  <1>2. Min({io.count, Size - offset}) = Whole
    BY <1>1, MinOfTwo DEF Whole
  <1>3. ~(offset >= Size) /\ length = Min({io.count, Size - offset})
    BY DEF Lengths
  <1>4. QED
    BY <1>1, <1>2, <1>3 DEF Whole

\* What Put leaves on the disk.
LEMMA PutBytes ==
  ASSUME DeviceTypeOK, NEW length \in 0..io.count
  PROVE  /\ Put(length) \in [0..volume.size - 1 -> Int]
         /\ \A o \in 0..volume.size - 1 :
              Put(length)[o] =
                IF o >= offset /\ o < offset + length THEN io.buf[o - offset + 1] ELSE disk[o]
  <1>1. /\ disk \in [0..volume.size - 1 -> Int] /\ volume.size \in Nat /\ offset \in Nat
        /\ io.count \in Nat /\ io.buf \in [1..io.count -> Int] /\ length \in Nat
        /\ length <= io.count
    BY SizeOfDisk DEF DeviceTypeOK, Transfers
  <1>2. DOMAIN Put(length) = 0..volume.size - 1
    BY <1>1 DEF Put
  <1>3. ASSUME NEW o \in 0..volume.size - 1
        PROVE  /\ Put(length)[o] =
                    IF o >= offset /\ o < offset + length THEN io.buf[o - offset + 1] ELSE disk[o]
               /\ Put(length)[o] \in Int
    <2>1. o \in offset..offset + length - 1 <=> o >= offset /\ o < offset + length
      BY <1>1
    <2>2. Put(length)[o] =
            IF o \in offset..offset + length - 1 THEN io.buf[o - offset + 1] ELSE disk[o]
      BY <1>1 DEF Put
    <2>3. CASE o >= offset /\ o < offset + length
      <3>1. o - offset + 1 \in 1..io.count
        BY <1>1, <2>3
      <3>2. QED
        BY <1>1, <2>1, <2>2, <2>3, <3>1
    <2>4. CASE ~(o >= offset /\ o < offset + length)
      BY <1>1, <2>1, <2>2, <2>4
    <2>5. QED
      BY <2>3, <2>4
  <1>4. Put(length) = [o \in 0..volume.size - 1 |-> Put(length)[o]]
    BY <1>1 DEF Put
  <1> HIDE DEF Put
  <1>5. QED
    BY <1>3, <1>4

(***************************************************************************)
(* The steps of a transfer, as what they change.                           *)
(***************************************************************************)
\* Interrupted.
Again ==
    /\ io'.fn = io.fn /\ io'.done = io.done /\ io'.buf = io.buf
    /\ offset' = offset /\ disk' = disk

\* Failed or WriteEnd.
Breaks ==
    /\ io'.fn = "none" /\ io'.ret = -1 /\ io'.buf = io.buf
    /\ offset' = offset
    /\ disk' = disk \/ (io.fn = "xwrite" /\ disk' = Put(io.count))

\* ReadEnd.
EndsEarly ==
    /\ io.fn = "xread" /\ offset >= volume.size
    /\ io'.fn = "none" /\ io'.ret = io.done /\ io'.buf = io.buf
    /\ offset' = offset /\ disk' = disk

\* ReadSome and WriteSome.
Moves ==
    /\ offset < volume.size /\ offset' = offset + Whole
    /\ Whole \in 0..io.count /\ offset + Whole <= volume.size
    /\ IF io.done + Whole >= io.count
       THEN io'.fn = "none" /\ io'.ret = io.done + Whole
       ELSE io'.fn = io.fn /\ io'.done = io.done + Whole
    /\ \/ /\ io.fn = "xread" /\ disk' = disk
          /\ io'.buf = [i \in 1..io.count |->
                            IF i <= Whole THEN disk[offset + i - 1] ELSE io.buf[i]]
       \/ io.fn = "xwrite" /\ disk' = Put(Whole) /\ io'.buf = io.buf

LEMMA TransferFields ==
  ASSUME NEW t \in Transfers, NEW n \in Nat
  PROVE  /\ LET u == [t EXCEPT !.done = n]
            IN  /\ u \in Transfers /\ u.done = n
                /\ u.fn = t.fn /\ u.count = t.count /\ u.buf = t.buf
         /\ LET u == [t EXCEPT !.signals = n]
            IN  /\ u \in Transfers /\ u.done = t.done
                /\ u.fn = t.fn /\ u.count = t.count /\ u.buf = t.buf
  <1> DEFINE Bufs == UNION {[1..k -> Int] : k \in Nat}
  <1>1. Transfers = [fn : {"none", "xread", "xwrite"}, count : Nat, done : Nat, signals : Nat,
                     ret : Int, buf : Bufs]
    BY DEF Transfers
  <1> HIDE DEF Bufs
  <1>2. QED
    BY <1>1

LEMMA TransferMoves ==
  ASSUME DeviceTypeOK, ~Splits, InTransfer \/ DeviceFails
  PROVE  /\ UNCHANGED <<volume, bpb, call, reply, before>>
         /\ ~Done /\ io'.count = io.count
         /\ io' \in Transfers /\ io'.buf \in [1..io'.count -> Int]
         /\ offset' \in Nat /\ disk' \in [0..volume.size - 1 -> Int]
         /\ Again \/ Breaks \/ EndsEarly \/ Moves
  <1>1. /\ disk \in [0..volume.size - 1 -> Int] /\ volume.size \in Nat /\ offset \in Nat
        /\ io \in Transfers /\ io.count \in Nat /\ io.buf \in [1..io.count -> Int]
        /\ io.done \in Nat /\ io.signals \in Nat /\ Size = volume.size
    BY SizeOfDisk DEF DeviceTypeOK, Transfers
  <1>2. UNCHANGED <<volume, bpb, call, reply, before>>
    BY DEF InTransfer, DeviceFails
  <1>3. ASSUME NEW ret \in Int
        PROVE  /\ Finished(ret) \in Transfers /\ Finished(ret).fn = "none"
               /\ Finished(ret).ret = ret /\ Finished(ret).buf = io.buf
               /\ Finished(ret).count = io.count
    BY <1>1 DEF Finished, Transfers
  <1>4. ASSUME NEW length \in Lengths
        PROVE  /\ length = Whole /\ Whole \in 0..io.count
               /\ offset < volume.size /\ offset + Whole <= volume.size
               /\ Advance(length) \in Transfers /\ Advance(length).count = io.count
               /\ Advance(length).buf = io.buf
               /\ IF io.done + Whole >= io.count
                  THEN Advance(length).fn = "none" /\ Advance(length).ret = io.done + Whole
                  ELSE Advance(length).fn = io.fn /\ Advance(length).done = io.done + Whole
    <2>1. /\ length = Whole /\ Whole \in Nat /\ Whole <= io.count
          /\ offset < volume.size /\ offset + Whole <= volume.size
      BY OneLength
    <2>2. io.done + Whole \in Nat /\ io.done + Whole \in Int
      BY <1>1, <2>1
    <2>3. CASE io.done + Whole >= io.count
      BY <1>1, <1>3, <2>1, <2>2, <2>3 DEF Advance
    <2>4. CASE ~(io.done + Whole >= io.count)
      <3>1. Advance(length) = [io EXCEPT !.done = io.done + Whole]
        BY <1>1, <2>1, <2>4 DEF Advance
      <3>2. QED
        <4> DEFINE u == [io EXCEPT !.done = io.done + Whole]
        <4>1. /\ u \in Transfers /\ u.done = io.done + Whole
              /\ u.fn = io.fn /\ u.count = io.count /\ u.buf = io.buf
          BY <1>1, <2>2, TransferFields
        <4>2. Whole \in 0..io.count
          BY <1>1, <2>1
        <4> HIDE DEF u
        <4>3. Advance(length) = u
          BY <3>1 DEF u
        <4>4. QED
          BY <2>1, <2>4, <4>1, <4>2, <4>3
    <2>5. QED
      BY <1>1, <2>1, <2>3, <2>4
  <1>5. CASE ReadSome
    <2>1. PICK length \in Lengths :
            /\ io' = [Advance(length) EXCEPT
                        !.buf = [i \in 1..io.count |->
                                    IF i <= length THEN disk[offset + i - 1] ELSE io.buf[i]]]
            /\ offset' = offset + length
      BY <1>5 DEF ReadSome
    <2> DEFINE buf == [i \in 1..io.count |-> IF i <= Whole THEN disk[offset + i - 1] ELSE io.buf[i]]
               next == Advance(length)
    <2>2. /\ length = Whole /\ Whole \in 0..io.count
          /\ offset < volume.size /\ offset + Whole <= volume.size
          /\ next \in Transfers /\ next.count = io.count
          /\ IF io.done + Whole >= io.count
             THEN next.fn = "none" /\ next.ret = io.done + Whole
             ELSE next.fn = io.fn /\ next.done = io.done + Whole
      BY <1>4
    <2>3. ASSUME NEW i \in 1..io.count
          PROVE  (IF i <= Whole THEN disk[offset + i - 1] ELSE io.buf[i]) \in Int
      <3>1. i <= Whole => offset + i - 1 \in 0..volume.size - 1
        BY <1>1, <2>2
      <3>2. QED
        BY <1>1, <3>1
    <2>4. buf \in [1..io.count -> Int]
      BY <2>3
    <2>5. buf \in UNION {[1..n -> Int] : n \in Nat}
      BY <1>1, <2>4
    <2>6. io' = [next EXCEPT !.buf = buf]
      BY <2>1, <2>2
    <2> HIDE DEF next, buf
    <2>7. /\ io' \in Transfers /\ io'.buf = buf /\ io'.count = io.count
          /\ io'.fn = next.fn /\ io'.ret = next.ret /\ io'.done = next.done
      BY <2>2, <2>5, <2>6 DEF Transfers
    <2>8. io.fn = "xread" /\ disk' = disk
      BY <1>5 DEF ReadSome
    <2>9. Moves
      BY <2>1, <2>2, <2>7, <2>8 DEF Moves, buf
    <2>10. offset' \in Nat
      BY <1>1, <2>1, <2>2
    <2>11. QED
      BY <1>1, <1>2, <2>4, <2>7, <2>8, <2>9, <2>10 DEF Done
  <1>6. CASE WriteSome
    <2>1. PICK length \in Lengths :
            io' = Advance(length) /\ disk' = Put(length) /\ offset' = offset + length
      BY <1>6 DEF WriteSome
    <2>2. /\ length = Whole /\ Whole \in 0..io.count
          /\ offset < volume.size /\ offset + Whole <= volume.size
          /\ io' \in Transfers /\ io'.count = io.count /\ io'.buf = io.buf
          /\ IF io.done + Whole >= io.count
             THEN io'.fn = "none" /\ io'.ret = io.done + Whole
             ELSE io'.fn = io.fn /\ io'.done = io.done + Whole
      BY <1>4, <2>1
    <2>3. Put(Whole) \in [0..volume.size - 1 -> Int]
      BY <2>2, PutBytes
    <2>4. io.fn = "xwrite"
      BY <1>6 DEF WriteSome
    <2>5. Moves
      BY <2>1, <2>2, <2>4 DEF Moves
    <2>6. offset' \in Nat
      BY <1>1, <2>1, <2>2
    <2>7. QED
      BY <1>1, <1>2, <2>1, <2>2, <2>3, <2>4, <2>5, <2>6 DEF Done
  <1>7. CASE ReadEnd
    <2>1. /\ io.fn = "xread" /\ offset >= volume.size /\ io' = Finished(io.done)
          /\ disk' = disk /\ offset' = offset
      BY <1>1, <1>7 DEF ReadEnd
    <2>2. EndsEarly
      BY <1>1, <1>3, <2>1 DEF EndsEarly
    <2>3. QED
      BY <1>1, <1>2, <1>3, <2>1, <2>2 DEF Done
  <1>8. CASE Interrupted
    <2>1. /\ ~Done /\ io' = [io EXCEPT !.signals = @ + 1]
          /\ disk' = disk /\ offset' = offset
      BY <1>8 DEF Interrupted
    <2>2. /\ io' \in Transfers /\ io'.count = io.count /\ io'.fn = io.fn /\ io'.done = io.done
          /\ io'.buf = io.buf
      <3>1. io.signals + 1 \in Nat /\ io' = [io EXCEPT !.signals = io.signals + 1]
        BY <1>1, <2>1
      <3>2. QED
        BY <1>1, <3>1, TransferFields
    <2>3. Again
      BY <2>1, <2>2 DEF Again
    <2>4. QED
      BY <1>1, <1>2, <2>1, <2>2, <2>3
  <1>9. ASSUME io.fn # "none", io' = Finished(-1), offset' = offset,
               disk' = disk \/ (io.fn = "xwrite" /\ disk' = Put(io.count))
        PROVE  /\ ~Done /\ io'.count = io.count
               /\ io' \in Transfers /\ io'.buf \in [1..io'.count -> Int]
               /\ offset' \in Nat /\ disk' \in [0..volume.size - 1 -> Int]
               /\ Breaks
    <2>1. /\ io' \in Transfers /\ io'.fn = "none" /\ io'.ret = -1 /\ io'.buf = io.buf
          /\ io'.count = io.count
      <3>1. -1 \in Int
        OBVIOUS
      <3>2. QED
        BY <1>3, <1>9, <3>1
    <2>2. Put(io.count) \in [0..volume.size - 1 -> Int]
      <3>1. io.count \in 0..io.count
        BY <1>1
      <3>2. QED
        BY <3>1, PutBytes
    <2>3. QED
      BY <1>1, <1>9, <2>1, <2>2 DEF Breaks, Done
  <1>10. CASE WriteEnd
    BY <1>2, <1>9, <1>10 DEF WriteEnd, Failed
  <1>11. CASE Fails
    BY <1>2, <1>9, <1>11 DEF Fails, Failed
  <1>12. QED
    BY <1>5, <1>6, <1>7, <1>8, <1>10, <1>11 DEF InTransfer, DeviceFails, TransferStep
LEMMA ProgressMoves ==
  ASSUME DeviceTypeOK, ~Splits, InTransfer \/ DeviceFails,
         NEW place \in Nat, io.count # 0, Advances(place)
  PROVE  /\ Progress(io', offset', volume.size, place)
         /\ io.fn = "xread" => HasBytes(io', disk', place)
  <1>1. /\ ~Done /\ io'.count = io.count
        /\ Again \/ Breaks \/ EndsEarly \/ Moves
        /\ io' \in Transfers /\ offset' \in Nat
    BY TransferMoves
  <1>2. /\ volume.size \in Nat /\ offset \in Nat /\ io.count \in Nat /\ io.done \in Nat
        /\ io.fn \in {"xread", "xwrite"}
    BY <1>1, SizeOfDisk DEF DeviceTypeOK, Transfers, Done
  <1>3. \/ io.done = 0 /\ offset = place
        \/ io.done < io.count /\ offset >= volume.size /\ place + io.count > volume.size
    BY <1>1 DEF Advances, Progress, Done
  <1>4. CASE Again
    BY <1>1, <1>2, <1>3, <1>4 DEF Again, Progress, HasBytes
  <1>5. CASE Breaks
    BY <1>1, <1>2, <1>5 DEF Breaks, Progress, HasBytes
  <1>6. CASE EndsEarly
    BY <1>1, <1>2, <1>3, <1>6 DEF EndsEarly, Progress, HasBytes
  <1>7. CASE Moves
    <2>1. io.done = 0 /\ offset = place /\ offset < volume.size /\ offset' = offset + Whole
      BY <1>2, <1>3, <1>7 DEF Moves
    <2>2. CASE io.count <= volume.size - offset
      <3>1. Whole = io.count
        BY <2>2 DEF Whole
      <3>2. io'.fn = "none" /\ io'.ret = io.count
        BY <1>2, <1>7, <2>1, <3>1 DEF Moves
      <3>3. Progress(io', offset', volume.size, place)
        BY <1>1, <1>2, <2>1, <2>2, <3>2 DEF Progress
      <3>4. ASSUME io.fn = "xread"
            PROVE  HasBytes(io', disk', place)
        <4>1. disk' = disk /\ io'.buf = [i \in 1..io.count |->
                            IF i <= Whole THEN disk[offset + i - 1] ELSE io.buf[i]]
          BY <1>7, <3>4 DEF Moves
        <4>2. \A i \in 1..io.count : io'.buf[i] = disk[place + i - 1]
          BY <1>2, <2>1, <3>1, <4>1
        <4>3. QED
          BY <1>1, <4>1, <4>2 DEF HasBytes
      <3>5. QED
        BY <3>3, <3>4
    <2>3. CASE ~(io.count <= volume.size - offset)
      <3>1. Whole = volume.size - offset
        BY <2>3 DEF Whole
      <3>2. io'.fn = io.fn /\ io'.done = Whole
        BY <1>2, <1>7, <2>1, <2>3, <3>1 DEF Moves
      <3>3. Progress(io', offset', volume.size, place)
        BY <1>1, <1>2, <2>1, <2>3, <3>1, <3>2 DEF Progress
      <3>4. QED
        BY <1>2, <3>2, <3>3 DEF HasBytes
    <2>4. QED
      BY <2>2, <2>3
  <1>8. QED
    BY <1>1, <1>4, <1>5, <1>6, <1>7

\* A byte that a step changes is one from the buffer, and none is before the
\* file offset.
LEMMA BytesMove ==
  ASSUME DeviceTypeOK, ~Splits, InTransfer \/ DeviceFails, NEW o \in 0..volume.size - 1
  PROVE  \/ disk'[o] = disk[o]
         \/ /\ io.fn = "xwrite" /\ o >= offset
            /\ o - offset + 1 \in 1..io.count
            /\ disk'[o] = io.buf[o - offset + 1]
  <1>1. ~Done /\ (Again \/ Breaks \/ EndsEarly \/ Moves)
    BY TransferMoves
  <1>2. /\ volume.size \in Nat /\ offset \in Nat /\ io.count \in Nat
    BY SizeOfDisk DEF DeviceTypeOK, Transfers
  <1>3. ASSUME NEW length \in 0..io.count, io.fn = "xwrite", disk' = Put(length)
        PROVE  \/ disk'[o] = disk[o]
               \/ /\ io.fn = "xwrite" /\ o >= offset
                  /\ o - offset + 1 \in 1..io.count
                  /\ disk'[o] = io.buf[o - offset + 1]
    <2>1. disk'[o] = IF o >= offset /\ o < offset + length THEN io.buf[o - offset + 1] ELSE disk[o]
      BY <1>3, PutBytes
    <2>2. o >= offset /\ o < offset + length => o - offset + 1 \in 1..io.count
      BY <1>2
    <2>3. QED
      BY <1>3, <2>1, <2>2
  <1>4. CASE Breaks
    <2>1. io.count \in 0..io.count
      BY <1>2
    <2>2. disk' = disk \/ (io.fn = "xwrite" /\ disk' = Put(io.count))
      BY <1>4 DEF Breaks
    <2>3. QED
      BY <1>3, <2>1, <2>2
  <1>5. CASE Moves
    BY <1>3, <1>5 DEF Moves
  <1>6. CASE Again \/ EndsEarly
    BY <1>6 DEF Again, EndsEarly
  <1>7. QED
    BY <1>1, <1>4, <1>5, <1>6

LEMMA SaneStays ==
  ASSUME volume' = volume
  PROVE  /\ Sane' <=> Sane
         /\ \A c : OfSaneCluster(c)' <=> OfSaneCluster(c)
  BY DEF Sane, OfSaneCluster

LEMMA NewTransfer ==
  ASSUME DeviceTypeOK, NEW fn \in {"xread", "xwrite"}, NEW count \in Nat
  PROVE  LET t == Transfer(fn, count)
         IN  /\ t \in Transfers /\ t.fn = fn /\ t.count = count /\ t.done = 0
             /\ t.buf \in [1..count -> Int]
             /\ fn = "xwrite" => t.buf = [i \in 1..count |-> -i]
  <1> DEFINE t == Transfer(fn, count)
             buf == [i \in 1..count |-> IF fn = "xread" THEN Junk ELSE -i]
  <1>1. Junk \in Int
    BY SizeOfDisk DEF Junk
  <1>2. buf \in [1..count -> Int]
    BY <1>1
  <1>3. fn = "xwrite" => buf = [i \in 1..count |-> -i]
    OBVIOUS
  <1>4. buf \in UNION {[1..n -> Int] : n \in Nat}
    BY <1>2
  <1>5. t = [fn |-> fn, count |-> count, done |-> 0, signals |-> 0, ret |-> 0, buf |-> buf]
    BY DEF Transfer
  <1> HIDE DEF t, buf
  <1>6. QED
    BY <1>2, <1>3, <1>4, <1>5 DEF Transfers, t

\* Where the boot sector and FSInfo of a volume are: before its table.
LEMMA SanePlaces ==
  ASSUME DeviceTypeOK, Sane
  PROVE  LET b == volume.bpb
         IN  /\ b \in BootSectors /\ b.reserved * 2 <= Space32
             /\ Formatted(b, volume.size)
             /\ TableStart(b) \in Nat /\ TableStart(b) <= volume.size
             /\ BpbSize <= TableStart(b)
             /\ fat32_sector_to_offset(b, b.fs_info) = volume.info
             /\ volume.info + FsInfoSize <= TableStart(b)
  <1> DEFINE b == volume.bpb
  <1>1. b \in BootSectors /\ b.reserved * 2 <= Space32 /\ volume.size \in Nat
    BY VolumesAreTyped DEF DeviceTypeOK
  <1>2. Formatted(b, volume.size) /\ volume.info = b.fs_info * b.bps
    BY DEF Sane
  <1>3. /\ b.bps \in Nat /\ b.bps >= 2 /\ b.reserved >= 2 /\ b.total \in Nat /\ b.fat_size \in Nat
        /\ b.reserved \in Nat /\ b.fs_info \in Nat
        /\ b.reserved <= b.total
    <2>1. /\ b.bps \in Nat /\ b.bps >= 2 /\ b.reserved >= 2 /\ b.total \in Nat
          /\ b.reserved + b.fats * b.fat_size \in Nat
          /\ b.reserved + b.fats * b.fat_size <= b.total
          /\ b.reserved + b.fat_size <= b.reserved + b.fats * b.fat_size
      BY <1>1, <1>2, FormattedSizes
    <2> HIDE DEF b
    <2>2. b.fat_size \in Nat /\ b.reserved \in Nat /\ b.fs_info \in Nat
      BY <1>1 DEF BootSectors
    <2>3. QED
      BY <2>1, <2>2
  <1>4. BpbSize \in Nat /\ FsInfoSize \in Nat /\ BpbSize <= b.bps /\ FsInfoSize <= b.bps
    BY <1>2, DeviceAssumption DEF Formatted
  <1>5. b.total * b.bps <= volume.size /\ b.fs_info \in 1..b.reserved - 1
    BY <1>2 DEF Formatted
  <1> HIDE DEF b
  <1>6. /\ b.reserved * b.bps \in Nat /\ b.total * b.bps \in Nat
        /\ b.reserved * b.bps <= b.total * b.bps
    BY <1>3, Products
  <1>7. 1 * b.bps <= b.reserved * b.bps /\ 1 * b.bps = b.bps
    BY <1>3, Products
  <1>8. b.fs_info < b.reserved
    BY <1>3, <1>5
  <1>9. b.fs_info * b.bps + b.bps <= b.reserved * b.bps /\ b.fs_info * b.bps \in Nat
    BY <1>3, <1>8, Products
  <1>10. b.bps * b.fs_info = b.fs_info * b.bps
    BY <1>3
  <1>11. /\ TableStart(b) = b.reserved * b.bps
         /\ fat32_sector_to_offset(b, b.fs_info) = b.bps * b.fs_info
    BY DEF TableStart, fat32_sector_to_offset
  <1>12. volume.info = b.fs_info * b.bps
    BY <1>2 DEF b
  <1>13. TableStart(b) <= volume.size /\ BpbSize <= TableStart(b)
    <2>1. TableStart(b) <= volume.size
      BY <1>1, <1>5, <1>6, <1>11
    <2>2. BpbSize <= TableStart(b)
      BY <1>3, <1>4, <1>6, <1>7, <1>11
    <2>3. QED
      BY <2>1, <2>2
  <1>14. volume.info + FsInfoSize <= TableStart(b)
    BY <1>4, <1>6, <1>9, <1>11, <1>12, <1>3
  <1>15. QED
    BY <1>1, <1>2, <1>6, <1>10, <1>11, <1>12, <1>13, <1>14 DEF b

\* A read that ended, of bytes before the table of a volume.
LEMMA ReservedBytes ==
  ASSUME DeviceInv, Sane, Done, NEW place \in Nat, NEW n \in Nat \ {0}, io.count = n,
         Advances(place), HasBytes(io, disk, place), place + n <= TableStart(volume.bpb)
  PROVE  /\ transfer_code(n) \in {FE_OK, FE_ERRNO}
         /\ transfer_code(n) = FE_OK => Holds(place)
  <1>1. /\ DeviceTypeOK /\ io.ret \in Int /\ io.buf \in [1..n -> Int] /\ volume.size \in Nat
    BY SizeOfDisk DEF DeviceInv, DeviceTypeOK, Transfers
  <1>2. TableStart(volume.bpb) \in Nat /\ TableStart(volume.bpb) <= volume.size
    BY <1>1, SanePlaces
  <1>3. io.ret = -1 \/ io.ret = n
    BY <1>1, <1>2 DEF Advances, Progress, Done
  <1>4. CASE io.ret = -1
    BY <1>4 DEF transfer_code, FE_OK, FE_ERRNO
  <1>5. CASE io.ret = n
    <2>1. transfer_code(n) = FE_OK
      BY <1>5 DEF transfer_code, FE_OK, FE_ERRNO
    <2>2. ASSUME NEW i \in 1..n
          PROVE  io.buf[i] = place + i - 1
      <3>1. io.buf[i] = disk[place + i - 1]
        BY <1>5 DEF HasBytes, Done
      <3>2. /\ place + i - 1 \in 0..volume.size - 1
            /\ place + i - 1 < TableStart(volume.bpb)
        BY <1>1, <1>2
      <3>3. disk[place + i - 1] = place + i - 1
        BY <3>2 DEF DeviceInv, DeviceContents
      <3>4. QED
        BY <3>1, <3>3
    <2>3. Holds(place)
      BY <1>1, <2>2 DEF Holds
    <2>4. QED
      BY <2>1, <2>3
  <1>6. QED
    BY <1>3, <1>4, <1>5
-----------------------------------------------------------------------------
(***************************************************************************)
(* The invariant holds at first, and every step keeps it.                  *)
(***************************************************************************)
LEMMA DeviceInitInv ==
  ASSUME DeviceInit
  PROVE  DeviceInv
  <1>1. /\ volume \in Volumes /\ disk = [o \in 0..volume.size - 1 |-> o]
        /\ offset = 0 /\ io = NoTransfer /\ bpb = NoBpb /\ call = NoCall /\ reply = NoReply
    BY DEF DeviceInit
  <1>2. volume.size \in Nat
    BY <1>1, VolumesAreTyped
  <1>3. /\ disk \in [0..volume.size - 1 -> Int]
        /\ \A o \in 0..volume.size - 1 : disk[o] = o
    BY <1>1, <1>2
  <1>4. io \in Transfers /\ io.buf \in [1..io.count -> Int] /\ io.fn = "none"
    <2> DEFINE buf == [i \in 1..0 |-> IF "xread" = "xread" THEN Junk ELSE -i]
    <2>1. buf \in [1..0 -> Int]
      OBVIOUS
    <2>2. buf \in UNION {[1..n -> Int] : n \in Nat}
      BY <2>1
    <2>3. io = [fn |-> "none", count |-> 0, done |-> 0, signals |-> 0, ret |-> 0, buf |-> buf]
      BY <1>1 DEF NoTransfer, Transfer
    <2> HIDE DEF buf
    <2>4. QED
      BY <2>1, <2>2, <2>3 DEF Transfers
  <1>5. DeviceTypeOK
    BY <1>1, <1>3, <1>4 DEF DeviceTypeOK, DeviceCalls, NoCall, NoReply, CallKinds, FE_OK
  <1>6. DeviceShape
    BY <1>1, <1>4 DEF DeviceShape, NoCall, Idle, Done
  <1>7. DeviceContents
    BY <1>1, <1>3 DEF DeviceContents
  <1>8. DeviceProgress /\ DeviceWrites
    BY <1>1 DEF DeviceProgress, DeviceWrites, NoCall
  <1>9. DeviceReplies
    BY <1>1 DEF DeviceReplies, ReadsTheEntry, Answered, NoReply
  <1>10. QED
    BY <1>5, <1>6, <1>7, <1>8, <1>9 DEF DeviceInv

LEMMA BpbReadBegins ==
  ASSUME DeviceInv, fat32_bpb_read
  PROVE  DeviceInv'
  <1>1. DeviceTypeOK /\ DeviceContents /\ volume.size \in Nat
    BY SizeOfDisk DEF DeviceInv
  <1>2. /\ call' = [fn |-> "mount", pc |-> "bpb", cluster |-> 0, saved |-> 0]
        /\ reply' = NoReply /\ offset' = 0 /\ io' = Transfer("xread", BpbSize)
        /\ bpb' = NoBpb /\ disk' = disk /\ volume' = volume
    BY DEF fat32_bpb_read, NoCall
  <1>3. /\ io' \in Transfers /\ io'.fn = "xread" /\ io'.count = BpbSize /\ io'.done = 0
        /\ io'.buf \in [1..io'.count -> Int]
    <2>1. BpbSize \in Nat
      BY DeviceAssumption
    <2>2. QED
      BY <1>1, <1>2, <2>1, NewTransfer
  <1>4. DeviceTypeOK'
    BY <1>1, <1>2, <1>3 DEF DeviceTypeOK, DeviceCalls, NoReply, CallKinds
  <1>5. DeviceShape'
    BY <1>2, <1>3 DEF DeviceShape, Idle, Done
  <1>6. DeviceContents'
    BY <1>1, <1>2, SaneStays DEF DeviceContents
  <1>7. DeviceProgress'
    BY <1>2, <1>3 DEF DeviceProgress, Advances, Progress, HasBytes
  <1>8. DeviceWrites'
    BY <1>2 DEF DeviceWrites
  <1>9. DeviceReplies'
    BY <1>2 DEF DeviceReplies, ReadsTheEntry, Answered, NoReply
  <1>10. QED
    BY <1>4, <1>5, <1>6, <1>7, <1>8, <1>9 DEF DeviceInv

LEMMA CodesOfTransfers ==
  ASSUME NEW n \in Nat
  PROVE  transfer_code(n) \in {FE_OK, FE_ERRNO, FE_INVALID_DEV}
  BY DEF transfer_code

LEMMA BpbReadEnds ==
  ASSUME DeviceInv, BpbRead
  PROVE  DeviceInv'
  <1>1. /\ DeviceTypeOK /\ DeviceShape /\ DeviceContents /\ DeviceProgress
        /\ volume.size \in Nat
    BY SizeOfDisk DEF DeviceInv
  <1>2. /\ call.pc = "bpb" /\ Done
        /\ volume' = volume /\ disk' = disk /\ offset' = offset /\ io' = io
        /\ before' = before
    BY DEF BpbRead, Go, Return
  <1> DEFINE code == transfer_code(BpbSize)
  <1>3. PICK found \in IF Holds(0) THEN {volume.bpb} ELSE Boots :
          IF code = FE_OK /\ fat32_bpb_check_validity(found)
          THEN bpb' = found /\ Go([call EXCEPT !.pc = "seek"])
          ELSE bpb' = bpb /\ Return(IF code = FE_OK THEN FE_INVALID_FS ELSE code)
    BY DEF BpbRead, Boots
  <1>4. found \in Boots
    BY <1>1, <1>3 DEF Boots, DeviceTypeOK
  <1>5. /\ call.fn = "mount" /\ bpb = NoBpb /\ io.count = BpbSize /\ io.fn = "none"
        /\ call.cluster \in Nat
    BY <1>1, <1>2 DEF DeviceShape, DeviceTypeOK, DeviceCalls, Done
  <1>6. ASSUME Sane
        PROVE  /\ code \in {FE_OK, FE_ERRNO}
               /\ code = FE_OK => found = volume.bpb /\ fat32_bpb_check_validity(found)
    <2>1. Advances(0) /\ HasBytes(io, disk, 0)
      BY <1>1, <1>2 DEF DeviceProgress
    <2>2. /\ 0 + BpbSize <= TableStart(volume.bpb) /\ BpbSize \in Nat \ {0}
          /\ volume.bpb \in BootSectors /\ Formatted(volume.bpb, volume.size)
      BY <1>1, <1>6, SanePlaces, DeviceAssumption
    <2>3. code \in {FE_OK, FE_ERRNO} /\ (code = FE_OK => Holds(0))
      BY <1>2, <1>5, <1>6, <2>1, <2>2, ReservedBytes
    <2>4. fat32_bpb_check_validity(volume.bpb)
      BY <1>1, <2>2, FormattedClusters
    <2>5. QED
      BY <1>3, <2>3, <2>4
  <1>7. CASE code = FE_OK /\ fat32_bpb_check_validity(found)
    <2>1. /\ bpb' = found /\ call' = [call EXCEPT !.pc = "seek"] /\ reply' = NoReply
      BY <1>3, <1>7 DEF Go
    <2>2. call'.pc = "seek" /\ call'.fn = "mount" /\ call' \in DeviceCalls
      BY <1>1, <1>5, <2>1 DEF DeviceTypeOK, DeviceCalls
    <2>3. found.bps \in SectorSizes \cup {0} /\ found # NoBpb
      <3>1. found.bps \in SectorSizes \cup {0}
        BY <1>7 DEF fat32_bpb_check_validity
      <3>2. found.spc \in PowersOf2
        BY <1>7 DEF fat32_bpb_check_validity
      <3>3. DOMAIN found # DOMAIN NoBpb
        <4>1. found \in BootSectors
          BY <1>4, BootsAreTyped
        <4>2. "spc" \in DOMAIN found
          BY <4>1 DEF BootSectors
        <4>3. "spc" \notin DOMAIN NoBpb
          BY DEF NoBpb
        <4>4. QED
          BY <4>2, <4>3
      <3>4. QED
        BY <3>1, <3>3
    <2>4. DeviceTypeOK'
      BY <1>1, <1>2, <1>4, <2>1, <2>2 DEF DeviceTypeOK, NoReply, CallKinds
    <2>5. DeviceShape'
      BY <1>2, <1>5, <2>1, <2>2, <2>3 DEF DeviceShape, Idle, Done
    <2>6. DeviceContents'
      BY <1>1, <1>2, <1>6, <1>7, <2>1, <2>2, <2>3, SaneStays DEF DeviceContents
    <2>7. DeviceProgress' /\ DeviceWrites'
      BY <2>2 DEF DeviceProgress, DeviceWrites
    <2>8. DeviceReplies'
      BY <2>2 DEF DeviceReplies, ReadsTheEntry, Answered, Idle
    <2>9. QED
      BY <2>4, <2>5, <2>6, <2>7, <2>8 DEF DeviceInv
  <1>8. CASE ~(code = FE_OK /\ fat32_bpb_check_validity(found))
    <2> DEFINE c == IF code = FE_OK THEN FE_INVALID_FS ELSE code
    <2>1. /\ bpb' = NoBpb /\ call' = NoCall
          /\ reply' = [fn |-> "mount", cluster |-> call.cluster, code |-> c]
      BY <1>3, <1>5, <1>8 DEF Return
    <2>2. c \in {FE_OK, FE_ERRNO, FE_INVALID_DEV, FE_INVALID_FS, FE_INVALID_CLUSTER}
      BY CodesOfTransfers, DeviceAssumption
    <2>3. Sane => c = FE_ERRNO
      BY <1>6, <1>8
    <2> HIDE DEF c
    <2>4. DeviceTypeOK'
      BY <1>1, <1>2, <1>5, <2>1, <2>2 DEF DeviceTypeOK, DeviceCalls, CallKinds, NoCall
    <2>5. DeviceShape'
      BY <1>2, <2>1 DEF DeviceShape, Idle, Done, NoCall
    <2>6. DeviceContents'
      BY <1>1, <1>2, <2>1, SaneStays DEF DeviceContents
    <2>7. DeviceProgress' /\ DeviceWrites'
      BY <2>1 DEF DeviceProgress, DeviceWrites, NoCall
    <2>8. DeviceReplies'
      BY <1>2, <2>1, <2>3, SaneStays DEF DeviceReplies, ReadsTheEntry, Answered
    <2>9. QED
      BY <2>4, <2>5, <2>6, <2>7, <2>8 DEF DeviceInv
  <1>9. QED
    BY <1>7, <1>8

LEMMA PlaceOfInfo ==
  ASSUME NEW b \in Boots
  PROVE  fat32_sector_to_offset(b, b.fs_info) \in Nat
  <1>1. b.bps \in Nat /\ b.fs_info \in Nat
    BY BootsAreTyped DEF BootSectors
  <1>2. b.bps * b.fs_info \in Nat
    BY <1>1, Products
  <1>3. QED
    BY <1>2 DEF fat32_sector_to_offset

\* A mount that gives up leaves nothing mounted.
LEMMA MountGivesUp ==
  ASSUME DeviceInv, call.fn = "mount", Done,
         NEW code \in {FE_ERRNO, FE_INVALID_DEV, FE_INVALID_FS}, Sane => code = FE_ERRNO,
         GivesUp(code), UNCHANGED <<disk, offset, io>>
  PROVE  DeviceInv'
  <1>1. DeviceTypeOK /\ DeviceContents /\ call.cluster \in Nat
    BY DEF DeviceInv, DeviceTypeOK, DeviceCalls
  <1>2. /\ bpb' = NoBpb /\ call' = NoCall
        /\ reply' = [fn |-> "mount", cluster |-> call.cluster, code |-> code]
        /\ volume' = volume /\ before' = before
    BY DEF GivesUp, Return
  <1>3. DeviceTypeOK'
    BY <1>1, <1>2 DEF DeviceTypeOK, DeviceCalls, CallKinds, NoCall
  <1>4. DeviceShape'
    BY <1>2 DEF DeviceShape, Idle, Done, NoCall
  <1>5. DeviceContents'
    BY <1>1, <1>2, SaneStays DEF DeviceContents
  <1>6. DeviceProgress' /\ DeviceWrites'
    BY <1>2 DEF DeviceProgress, DeviceWrites, NoCall
  <1>7. DeviceReplies'
    BY <1>2, SaneStays DEF DeviceReplies, ReadsTheEntry, Answered
  <1>8. QED
    BY <1>3, <1>4, <1>5, <1>6, <1>7 DEF DeviceInv

LEMMA InfoReadBegins ==
  ASSUME DeviceInv, fat32_fs_info_read
  PROVE  DeviceInv'
  <1>1. /\ DeviceTypeOK /\ DeviceShape /\ DeviceContents /\ volume.size \in Nat
        /\ call.pc = "seek"
    BY SizeOfDisk DEF DeviceInv, fat32_fs_info_read
  <1>2. call.fn = "mount" /\ Done /\ bpb # NoBpb /\ bpb \in Boots /\ call.cluster \in Nat
    BY <1>1 DEF DeviceShape, DeviceTypeOK, DeviceCalls
  <1> DEFINE place == fat32_sector_to_offset(bpb, bpb.fs_info)
  <1>3. CASE /\ lseek(place) /\ io' = Transfer("xread", FsInfoSize)
             /\ Go([call EXCEPT !.pc = "info", !.saved = offset])
             /\ bpb' = bpb /\ disk' = disk
    <2>1. place \in Nat
      BY <1>2, PlaceOfInfo
    <2>2. /\ offset' = place /\ volume' = volume /\ reply' = NoReply /\ before' = before
          /\ call' = [call EXCEPT !.pc = "info", !.saved = offset]
      BY <1>3 DEF lseek, Go
    <2>3. /\ io' \in Transfers /\ io'.fn = "xread" /\ io'.count = FsInfoSize /\ io'.done = 0
          /\ io'.buf \in [1..io'.count -> Int]
      <3>1. FsInfoSize \in Nat
        BY DeviceAssumption
      <3>2. QED
        BY <1>1, <1>3, <3>1, NewTransfer
    <2>4. /\ call'.pc = "info" /\ call'.fn = "mount"
          /\ call' \in DeviceCalls
      BY <1>1, <1>2, <2>2 DEF DeviceTypeOK, DeviceCalls
    <2>5. DeviceTypeOK'
      BY <1>1, <1>3, <2>1, <2>2, <2>3, <2>4 DEF DeviceTypeOK, NoReply, CallKinds
    <2>6. DeviceShape'
      BY <1>2, <1>3, <2>2, <2>3, <2>4 DEF DeviceShape, Idle, Done
    <2>7. DeviceContents'
      BY <1>1, <1>3, <2>2, <2>4, SaneStays DEF DeviceContents
    <2>8. Progress(io', offset', volume'.size, place) /\ HasBytes(io', disk', place)
      BY <2>2, <2>3 DEF Progress, HasBytes
    <2>9. DeviceProgress'
      BY <1>3, <2>2, <2>4, <2>8 DEF DeviceProgress, Advances
    <2>10. DeviceWrites' /\ DeviceReplies'
      BY <2>4 DEF DeviceWrites, DeviceReplies, ReadsTheEntry, Answered, Idle
    <2>11. QED
      BY <2>5, <2>6, <2>7, <2>9, <2>10 DEF DeviceInv
  <1>4. CASE GivesUp(FE_ERRNO) /\ UNCHANGED <<disk, offset, io>>
    BY <1>2, <1>4, MountGivesUp
  <1>5. QED
    BY <1>3, <1>4 DEF fat32_fs_info_read

LEMMA InfoReadEnds ==
  ASSUME DeviceInv, InfoRead
  PROVE  DeviceInv'
  <1>1. /\ DeviceTypeOK /\ DeviceShape /\ DeviceContents /\ DeviceProgress
        /\ volume.size \in Nat /\ call.pc = "info" /\ Done
        /\ disk' = disk /\ io' = io
    BY SizeOfDisk DEF DeviceInv, InfoRead
  <1>2. /\ call.fn = "mount" /\ bpb # NoBpb /\ bpb \in Boots /\ call.cluster \in Nat
        /\ call.saved \in Nat /\ io.count = FsInfoSize /\ io.fn = "none"
    BY <1>1 DEF DeviceShape, DeviceTypeOK, DeviceCalls, Done
  <1> DEFINE code == transfer_code(FsInfoSize)
             place == fat32_sector_to_offset(bpb, bpb.fs_info)
  <1>3. /\ place \in Nat /\ Advances(place) /\ HasBytes(io, disk, place)
        /\ FsInfoSize \in Nat \ {0}
    BY <1>1, <1>2, PlaceOfInfo, DeviceAssumption DEF DeviceProgress
  <1>4. code \in {FE_OK, FE_ERRNO, FE_INVALID_DEV}
    BY <1>3, CodesOfTransfers
  <1>5. ASSUME Sane
        PROVE  code \in {FE_OK, FE_ERRNO} /\ (code = FE_OK => Holds(volume.info))
    <2>1. place = volume.info /\ volume.info + FsInfoSize <= TableStart(volume.bpb)
      BY <1>1, <1>2, <1>5, SanePlaces DEF DeviceContents
    <2> HIDE DEF place
    <2>2. QED
      BY <1>1, <1>2, <1>3, <1>5, <2>1, ReservedBytes
  <1>6. CASE code # FE_OK \/ ~Holds(volume.info)
    <2> DEFINE c == IF code = FE_OK THEN FE_INVALID_FS ELSE code
    <2>1. GivesUp(c) /\ UNCHANGED <<disk, offset, io>>
      BY <1>1, <1>6 DEF InfoRead
    <2>2. c \in {FE_ERRNO, FE_INVALID_DEV, FE_INVALID_FS} /\ (Sane => c = FE_ERRNO)
      BY <1>4, <1>5, <1>6
    <2> HIDE DEF c
    <2>3. QED
      BY <1>1, <1>2, <2>1, <2>2, MountGivesUp
  <1>7. CASE code = FE_OK /\ Holds(volume.info) /\ GivesUp(FE_ERRNO) /\ offset' = offset
    BY <1>1, <1>2, <1>7, MountGivesUp
  <1>8. CASE /\ code = FE_OK /\ Holds(volume.info)
             /\ lseek(call.saved) /\ Return(FE_OK) /\ bpb' = bpb
    <2>1. /\ call' = NoCall /\ volume' = volume /\ offset' = call.saved /\ before' = before
          /\ reply' = [fn |-> "mount", cluster |-> call.cluster, code |-> FE_OK]
      BY <1>2, <1>8 DEF lseek, Return
    <2>2. bpb.bps # 0
      <3>1. SUFFICES ASSUME bpb.bps = 0 PROVE FALSE
        OBVIOUS
      <3>2. bpb.fs_info \in Nat
        BY <1>2, BootsAreTyped DEF BootSectors
      <3>3. place = 0
        BY <3>1, <3>2 DEF fat32_sector_to_offset
      <3>4. io.ret \in Int /\ io.ret >= FsInfoSize
        BY <1>1, <1>3, <1>8
        DEF transfer_code, FE_OK, FE_ERRNO, FE_INVALID_DEV, DeviceTypeOK, Transfers
      <3>5. io.ret = FsInfoSize /\ 0 + FsInfoSize <= volume.size
        BY <1>2, <1>3, <3>3, <3>4 DEF Advances, Progress
      <3>6. io.buf[1] = disk[0]
        BY <1>2, <1>3, <3>3, <3>5 DEF HasBytes
      <3>7. disk[0] = 0 \/ disk[0] < 0
        BY <1>1, <1>3, <3>5 DEF DeviceContents
      <3>8. io.buf[1] = volume.info + 1 - 1
        BY <1>2, <1>3, <1>8 DEF Holds
      <3>9. volume.info \in Nat \ {0}
        BY <1>1, VolumesAreTyped DEF DeviceTypeOK
      <3>10. QED
        BY <3>6, <3>7, <3>8, <3>9
    <2>3. DeviceTypeOK'
      BY <1>1, <1>2, <1>8, <2>1 DEF DeviceTypeOK, DeviceCalls, CallKinds, NoCall
    <2>4. DeviceShape'
      BY <1>1, <2>1 DEF DeviceShape, Idle, Done, NoCall
    <2>5. DeviceContents'
      BY <1>1, <1>8, <2>1, <2>2, SaneStays DEF DeviceContents
    <2>6. DeviceProgress' /\ DeviceWrites'
      BY <2>1 DEF DeviceProgress, DeviceWrites, NoCall
    <2>7. DeviceReplies'
      BY <2>1 DEF DeviceReplies, ReadsTheEntry, Answered
    <2>8. QED
      BY <2>3, <2>4, <2>5, <2>6, <2>7 DEF DeviceInv
  <1>9. QED
    BY <1>6, <1>7, <1>8 DEF InfoRead
\* An access that begins, or whose seek failed.
LEMMA AccessBegins ==
  ASSUME DeviceInv, Mounted,
         NEW fn \in {"get_entry", "set_entry", "read_cluster"}, NEW cluster \in Nat,
         NEW place \in Nat, NEW transfer \in Transfers,
         transfer.buf \in [1..transfer.count -> Int], transfer.done = 0,
         fn = "set_entry" =>
            /\ transfer.fn = "xwrite" /\ transfer.count = EntrySize
            /\ transfer.buf = [i \in 1..EntrySize |-> -i],
         fn # "set_entry" => transfer.fn = "xread",
         fn = "get_entry" => transfer.count = EntrySize,
         fn \in {"get_entry", "set_entry"} => place = fat32_fat_entry_offset(bpb, cluster),
         Access(fn, cluster, place, transfer)
  PROVE  DeviceInv'
  <1>1. /\ DeviceTypeOK /\ DeviceShape /\ DeviceContents /\ volume.size \in Nat
        /\ call = NoCall /\ Done /\ call.pc = "idle" /\ bpb # NoBpb
    BY SizeOfDisk DEF DeviceInv, Mounted, DeviceShape, Idle
  <1>2. /\ disk' = disk /\ volume' = volume /\ bpb' = bpb
        /\ fn = "set_entry" => before' = disk
    BY DEF Access
  <1>3. DeviceContents'
    <2>1. bpb.bps \in SectorSizes \cup {0} /\ bpb.bps # 0
      BY <1>1 DEF DeviceContents
    <2>2. QED
      BY <1>1, <1>2, <2>1, SaneStays DEF DeviceContents
  <1>4. CASE /\ lseek(place) /\ io' = transfer
             /\ call' = [NoCall EXCEPT !.fn = fn, !.pc = "transfer", !.cluster = cluster]
             /\ reply' = NoReply
    <2>1. /\ call' = [fn |-> fn, pc |-> "transfer", cluster |-> cluster, saved |-> 0]
          /\ offset' = place
      BY <1>4 DEF NoCall, lseek
    <2>2. DeviceTypeOK'
      BY <1>1, <1>2, <1>4, <2>1 DEF DeviceTypeOK, DeviceCalls, CallKinds, NoReply
    <2>3. DeviceShape'
      BY <1>1, <1>2, <1>4, <2>1 DEF DeviceShape, Idle
    <2>4. DeviceProgress'
      <3>1. Progress(io', offset', volume'.size, place) /\ HasBytes(io', disk', place)
        BY <1>4, <2>1 DEF Progress, HasBytes
      <3>2. QED
        BY <1>2, <2>1, <3>1 DEF DeviceProgress, Advances
    <2>5. DeviceWrites'
      BY <1>2, <1>4, <2>1 DEF DeviceWrites, Done
    <2>6. DeviceReplies'
      BY <2>1 DEF DeviceReplies, ReadsTheEntry, Answered, Idle
    <2>7. QED
      BY <1>3, <2>2, <2>3, <2>4, <2>5, <2>6 DEF DeviceInv
  <1>5. CASE /\ reply' = [fn |-> fn, cluster |-> cluster, code |-> FE_ERRNO]
             /\ offset' = offset /\ io' = io /\ call' = call
    <2>1. call' = NoCall
      BY <1>1, <1>5
    <2>2. DeviceTypeOK'
      BY <1>1, <1>2, <1>5 DEF DeviceTypeOK, DeviceCalls, CallKinds
    <2>3. DeviceShape'
      BY <1>1, <1>5 DEF DeviceShape, Idle, Done, NoCall
    <2>4. DeviceProgress' /\ DeviceWrites'
      BY <2>1 DEF DeviceProgress, DeviceWrites, NoCall
    <2>5. DeviceReplies'
      BY <1>2, <1>5 DEF DeviceReplies, ReadsTheEntry, Answered, FE_ERRNO, FE_OK
    <2>6. QED
      BY <1>3, <2>2, <2>3, <2>4, <2>5 DEF DeviceInv
  <1>6. QED
    BY <1>4, <1>5 DEF Access

\* The sectors of what is mounted are not empty.
LEMMA MountedEntries ==
  ASSUME DeviceInv, bpb # NoBpb, call.pc \in {"idle", "transfer"}, NEW cluster \in Nat
  PROVE  /\ bpb \in BootSectors /\ bpb.reserved * 2 <= Space32 /\ bpb.bps >= 2
         /\ fat32_fat_entry_offset(bpb, cluster) \in Nat
         /\ fat32_fat_entry_offset(bpb, cluster) >= TableStart(bpb)
  <1>1. bpb \in Boots /\ bpb.bps \in SectorSizes
    BY DEF DeviceInv, DeviceTypeOK, DeviceContents
  <1>2. bpb \in BootSectors /\ bpb.reserved * 2 <= Space32 /\ bpb.bps >= 2
    BY <1>1, BootsAreTyped, GeometryConstants
  <1>3. QED
    BY <1>2, EntriesFollowTheReserved

LEMMA EntryAccessBegins ==
  ASSUME DeviceInv, NEW cluster \in Clusters,
         fat32_fat_get_entry(cluster) \/ fat32_fat_set_entry(cluster)
  PROVE  DeviceInv'
  <1>1. /\ Mounted /\ DeviceTypeOK /\ bpb # NoBpb /\ call.pc = "idle"
        /\ cluster \in Nat /\ EntrySize \in Nat
    BY DeviceAssumption, GeometryConstants
    DEF fat32_fat_get_entry, fat32_fat_set_entry, Mounted, DeviceInv, Idle
  <1> DEFINE place == fat32_fat_entry_offset(bpb, cluster)
  <1>2. place \in Nat
    BY <1>1, MountedEntries
  <1>3. CASE fat32_fat_get_entry(cluster)
    <2> DEFINE t == Transfer("xread", EntrySize)
    <2>1. /\ t \in Transfers /\ t.fn = "xread" /\ t.count = EntrySize /\ t.done = 0
          /\ t.buf \in [1..EntrySize -> Int]
      BY <1>1, NewTransfer
    <2>2. Access("get_entry", cluster, place, t)
      BY <1>3 DEF fat32_fat_get_entry
    <2> HIDE DEF t
    <2>3. QED
      BY <1>1, <1>2, <2>1, <2>2, AccessBegins
  <1>4. CASE fat32_fat_set_entry(cluster)
    <2> DEFINE t == Transfer("xwrite", EntrySize)
    <2>1. /\ t \in Transfers /\ t.fn = "xwrite" /\ t.count = EntrySize /\ t.done = 0
          /\ t.buf \in [1..EntrySize -> Int] /\ t.buf = [i \in 1..EntrySize |-> -i]
      BY <1>1, NewTransfer
    <2>2. Access("set_entry", cluster, place, t)
      BY <1>4 DEF fat32_fat_set_entry
    <2> HIDE DEF t
    <2>3. QED
      BY <1>1, <1>2, <2>1, <2>2, AccessBegins
  <1>5. QED
    BY <1>3, <1>4

LEMMA ReadClusterBegins ==
  ASSUME DeviceInv, NEW cluster \in Clusters, fat32_fs_read_cluster(cluster)
  PROVE  DeviceInv'
  <1>1. /\ Mounted /\ DeviceTypeOK /\ bpb # NoBpb /\ call.pc = "idle" /\ call = NoCall
        /\ cluster \in Nat /\ DeviceContents /\ DeviceShape /\ offset \in Nat
    BY DeviceAssumption
    DEF fat32_fs_read_cluster, Mounted, DeviceInv, DeviceTypeOK, DeviceCalls, DeviceShape, Idle
  <1>2. bpb \in BootSectors
    BY <1>1, MountedEntries
  <1>3. /\ bpb.bps \in Nat /\ bpb.spc \in Nat /\ bpb.reserved \in Nat
        /\ bpb.fats * bpb.fat_size \in Nat
    BY <1>2, Products DEF BootSectors
  <1>4. CASE fat32_bpb_is_valid_cluster(bpb, cluster)
    <2> DEFINE place == offset + fat32_cluster_to_offset(bpb, cluster)
               t == Transfer("xread", fat32_bpb_cluster_size(bpb))
    <2>1. place \in Nat
      <3>1. cluster >= 2
        BY <1>4 DEF fat32_bpb_is_valid_cluster, MinClusterNumber
      <3>2. cluster + Space32 - 2 \in Nat
        BY <1>1, <3>1, GeometryConstants
      <3>3. U32(cluster + Space32 - 2) \in Nat
        BY <3>2, WordsOf32Bits
      <3>4. FirstDataSector(bpb) \in Nat
        <4>1. U32(bpb.fats * bpb.fat_size) \in Nat
          BY <1>3, WordsOf32Bits
        <4>2. bpb.reserved + U32(bpb.fats * bpb.fat_size) \in Nat
          BY <1>3, <4>1
        <4>3. QED
          BY <4>2, WordsOf32Bits DEF FirstDataSector
      <3>5. bpb.spc * U32(cluster + Space32 - 2) \in Nat
        BY <1>3, <3>3, Products
      <3>6. bpb.spc * U32(cluster + Space32 - 2) + FirstDataSector(bpb) \in Nat
        BY <3>4, <3>5
      <3>7. fat32_cluster_first_sector(bpb, cluster) \in Nat
        BY <3>6, WordsOf32Bits DEF fat32_cluster_first_sector
      <3>8. fat32_cluster_to_offset(bpb, cluster) \in Nat
        BY <1>3, <3>7, Products DEF fat32_cluster_to_offset, fat32_sector_to_offset
      <3>9. QED
        BY <1>1, <3>8
    <2>2. fat32_bpb_cluster_size(bpb) \in Nat
      BY <1>3, Products DEF fat32_bpb_cluster_size
    <2>3. /\ t \in Transfers /\ t.fn = "xread" /\ t.done = 0 /\ t.buf \in [1..t.count -> Int]
      BY <1>1, <2>2, NewTransfer
    <2>4. Access("read_cluster", cluster, place, t)
      BY <1>4 DEF fat32_fs_read_cluster
    <2> HIDE DEF t, place
    <2>5. QED
      BY <1>1, <2>1, <2>3, <2>4, AccessBegins
  <1>5. CASE ~fat32_bpb_is_valid_cluster(bpb, cluster)
    <2>1. /\ reply' = [fn |-> "read_cluster", cluster |-> cluster, code |-> FE_INVALID_CLUSTER]
          /\ disk' = disk /\ offset' = offset /\ io' = io /\ volume' = volume /\ bpb' = bpb
          /\ call' = NoCall
      BY <1>1, <1>5 DEF fat32_fs_read_cluster
    <2>2. DeviceTypeOK'
      BY <1>1, <2>1 DEF DeviceTypeOK, DeviceCalls, CallKinds
    <2>3. DeviceShape'
      BY <1>1, <2>1 DEF DeviceShape, Idle, Done, NoCall
    <2>4. DeviceContents'
      BY <1>1, <2>1, SaneStays DEF DeviceContents, NoCall
    <2>5. DeviceProgress' /\ DeviceWrites'
      BY <2>1 DEF DeviceProgress, DeviceWrites, NoCall
    <2>6. DeviceReplies'
      BY <2>1 DEF DeviceReplies, ReadsTheEntry, Answered
    <2>7. QED
      BY <2>2, <2>3, <2>4, <2>5, <2>6 DEF DeviceInv
  <1>6. QED
    BY <1>4, <1>5

\* The entry of a cluster of the volume, as an access addresses it.
LEMMA SaneEntries ==
  ASSUME DeviceInv, bpb # NoBpb, NEW cluster \in Nat, OfSaneCluster(cluster)
  PROVE  /\ bpb = volume.bpb
         /\ fat32_fat_entry_offset(bpb, cluster) = EntryPlace(volume.bpb, cluster)
         /\ EntryPlace(volume.bpb, cluster) \in Nat
         /\ EntryPlace(volume.bpb, cluster) + EntrySize <= volume.size
  <1>1. Sane /\ cluster \in ClustersOf(volume.bpb) /\ DeviceTypeOK
    BY DEF OfSaneCluster, DeviceInv
  <1>2. bpb = volume.bpb
    BY <1>1 DEF DeviceInv, DeviceContents
  <1>3. /\ volume.bpb \in BootSectors /\ volume.bpb.reserved * 2 <= Space32
        /\ Formatted(volume.bpb, volume.size) /\ volume.size \in Nat
    BY <1>1, SanePlaces, SizeOfDisk
  <1>4. QED
    BY <1>1, <1>2, <1>3, FormattedEntries

LEMMA AccessReturns ==
  ASSUME DeviceInv, AccessEnds
  PROVE  DeviceInv'
  <1>1. /\ DeviceTypeOK /\ DeviceShape /\ DeviceContents /\ DeviceProgress /\ DeviceWrites
        /\ volume.size \in Nat /\ call.pc = "transfer" /\ Done
        /\ disk' = disk /\ offset' = offset /\ io' = io /\ bpb' = bpb
    BY SizeOfDisk DEF DeviceInv, AccessEnds
  <1> DEFINE code == IF call.fn = "set_entry"
                     THEN IF io.ret = -1 THEN FE_ERRNO ELSE FE_OK
                     ELSE transfer_code(io.count)
  <1>2. /\ call' = NoCall /\ volume' = volume /\ before' = before
        /\ reply' = [fn |-> call.fn, cluster |-> call.cluster, code |-> code]
    BY DEF AccessEnds, Return
  <1>3. /\ call.fn \in {"get_entry", "set_entry", "read_cluster"} /\ bpb # NoBpb
        /\ call.cluster \in Nat /\ io.count \in Nat /\ io.ret \in Int /\ io.fn = "none"
        /\ EntrySize \in Nat \ {0}
    BY <1>1, GeometryConstants DEF DeviceShape, DeviceTypeOK, DeviceCalls, Transfers, Done
  <1>4. code \in {FE_OK, FE_ERRNO, FE_INVALID_DEV}
    BY <1>3, CodesOfTransfers
  <1>5. DeviceTypeOK'
    BY <1>1, <1>2, <1>3, <1>4 DEF DeviceTypeOK, DeviceCalls, CallKinds, NoCall
  <1>6. DeviceShape'
    BY <1>1, <1>2 DEF DeviceShape, Idle, Done, NoCall
  <1>7. DeviceContents'
    BY <1>1, <1>2, SaneStays DEF DeviceContents, NoCall
  <1>8. DeviceProgress' /\ DeviceWrites'
    BY <1>2 DEF DeviceProgress, DeviceWrites, NoCall
  <1>9. DeviceReplies'
    <2>1. ReadsTheEntry'
      <3>1. SUFFICES ASSUME call.fn = "get_entry", code = FE_OK, OfSaneCluster(call.cluster)
                     PROVE  io.buf = [i \in 1..EntrySize |->
                                disk[EntryPlace(volume.bpb, call.cluster) + i - 1]]
        BY <1>1, <1>2, SaneStays DEF ReadsTheEntry, Answered
      <3> DEFINE place == fat32_fat_entry_offset(bpb, call.cluster)
      <3>2. /\ io.count = EntrySize /\ io.buf \in [1..EntrySize -> Int]
            /\ Advances(place) /\ HasBytes(io, disk, place)
        BY <1>1, <3>1 DEF DeviceShape, DeviceTypeOK, DeviceProgress
      <3>3. place = EntryPlace(volume.bpb, call.cluster)
        BY <1>3, <3>1, SaneEntries
      <3>4. io.ret >= EntrySize
        BY <1>3, <3>1, <3>2 DEF transfer_code, FE_OK, FE_ERRNO, FE_INVALID_DEV
      <3>5. io.ret = EntrySize
        BY <1>3, <3>2, <3>4 DEF Advances, Progress
      <3>6. \A i \in 1..EntrySize : io.buf[i] = disk[place + i - 1]
        BY <1>3, <3>2, <3>5 DEF HasBytes
      <3> HIDE DEF place
      <3>7. QED
        BY <3>2, <3>3, <3>6
    <2>2. ASSUME call.fn = "set_entry", OfSaneCluster(call.cluster)
          PROVE  disk \in {Stored(call.cluster)} \cup IF code = FE_OK THEN {} ELSE {before}
      <3>1. (disk = before /\ io.ret = -1) \/ disk = Stored(call.cluster)
        BY <1>1, <2>2 DEF DeviceWrites
      <3>2. io.ret = -1 => code # FE_OK
        BY <2>2 DEF FE_OK, FE_ERRNO
      <3>3. QED
        BY <3>1, <3>2
    <2>4. (Answered("set_entry") /\ OfSaneCluster(reply.cluster) =>
            disk \in {Stored(reply.cluster)} \cup IF reply.code = FE_OK THEN {} ELSE {before})'
      BY <1>1, <1>2, <2>2, SaneStays DEF Answered, Stored
    <2>5. QED
      BY <1>2, <1>3, <2>1, <2>4 DEF DeviceReplies, Answered
  <1>10. QED
    BY <1>5, <1>6, <1>7, <1>8, <1>9 DEF DeviceInv
LEMMA TransferKeeps ==
  ASSUME DeviceInv, ~Splits, InTransfer \/ DeviceFails
  PROVE  DeviceInv'
  <1>1. /\ DeviceTypeOK /\ DeviceShape /\ DeviceContents /\ DeviceProgress /\ DeviceWrites
        /\ volume.size \in Nat
    BY SizeOfDisk DEF DeviceInv
  <1>2. /\ volume' = volume /\ bpb' = bpb /\ call' = call /\ reply' = reply /\ before' = before
        /\ ~Done /\ io'.count = io.count
        /\ io' \in Transfers /\ io'.buf \in [1..io'.count -> Int]
        /\ offset' \in Nat /\ disk' \in [0..volume.size - 1 -> Int]
        /\ Again \/ Breaks \/ EndsEarly \/ Moves
    BY <1>1, TransferMoves
  <1>3. /\ offset \in Nat /\ io.count \in Nat /\ io.done \in Nat
        /\ io.fn \in {"xread", "xwrite"} /\ disk \in [0..volume.size - 1 -> Int]
        /\ call.cluster \in Nat
    BY <1>1, <1>2 DEF DeviceTypeOK, DeviceCalls, Transfers, Done
  <1>4. ~Idle /\ call.pc \in {"bpb", "info", "transfer"}
    BY <1>1, <1>2 DEF DeviceShape, DeviceTypeOK, DeviceCalls, Idle
  <1>5. /\ BpbSize \in Nat \ {0} /\ FsInfoSize \in Nat \ {0} /\ EntrySize \in Nat \ {0}
    BY DeviceAssumption, GeometryConstants
  <1>6. \/ io'.fn = io.fn
        \/ io'.fn = "none"
    BY <1>2 DEF Again, Breaks, EndsEarly, Moves
  <1>7. io.fn = "xwrite" => io'.buf = io.buf
    BY <1>2 DEF Again, Breaks, EndsEarly, Moves
  <1>8. io.fn = "xread" => disk' = disk
    BY <1>2 DEF Again, Breaks, EndsEarly, Moves
  <1>9. DeviceTypeOK'
    BY <1>1, <1>2 DEF DeviceTypeOK
  <1>10. DeviceShape'
    BY <1>1, <1>2, <1>3, <1>4, <1>6, <1>7 DEF DeviceShape, Idle, Done
  <1>11. io.fn = "xwrite" =>
           /\ call.pc = "transfer" /\ call.fn = "set_entry" /\ io.count = EntrySize
           /\ io.buf = [i \in 1..EntrySize |-> -i] /\ bpb # NoBpb
    BY <1>1, <1>4 DEF DeviceShape
  <1>12. DeviceContents'
    <2>1. ASSUME NEW o \in 0..volume.size - 1
          PROVE  disk'[o] = o \/ disk'[o] < 0
      <3>1. CASE disk'[o] = disk[o]
        BY <1>1, <3>1 DEF DeviceContents
      <3>2. CASE /\ io.fn = "xwrite" /\ o >= offset
                 /\ o - offset + 1 \in 1..io.count /\ disk'[o] = io.buf[o - offset + 1]
        <4> DEFINE i == o - offset + 1
        <4>1. i \in 1..EntrySize /\ disk'[o] = [k \in 1..EntrySize |-> -k][i]
          BY <1>11, <3>2
        <4> HIDE DEF i
        <4>2. disk'[o] = -i /\ i \in Nat /\ i >= 1
          BY <1>5, <4>1
        <4>3. QED
          BY <4>2
      <3>3. QED
        BY <1>1, <3>1, <3>2, BytesMove
    <2>2. ASSUME Sane, NEW o \in 0..volume.size - 1, o < TableStart(volume.bpb)
          PROVE  disk'[o] = o
      <3>1. disk[o] = o
        BY <1>1, <2>2 DEF DeviceContents
      <3>2. ASSUME io.fn = "xwrite" PROVE ~(o >= offset)
        <4>1. bpb = volume.bpb /\ call.pc = "transfer" /\ call.fn = "set_entry" /\ bpb # NoBpb
          BY <1>1, <1>11, <2>2, <3>2 DEF DeviceContents
        <4> DEFINE place == fat32_fat_entry_offset(bpb, call.cluster)
        <4>2. place \in Nat /\ place >= TableStart(bpb)
          BY <1>3, <4>1, MountedEntries
        <4>3. Advances(place)
          BY <1>1, <4>1 DEF DeviceProgress
        <4> HIDE DEF place
        <4>4. offset = place \/ offset >= volume.size
          BY <1>2, <4>3 DEF Advances, Progress, Done
        <4>5. TableStart(volume.bpb) \in Nat
          BY <1>1, <2>2, SanePlaces
        <4>6. QED
          BY <1>1, <1>3, <2>2, <4>1, <4>2, <4>4, <4>5
      <3>3. QED
        BY <1>1, <3>1, <3>2, BytesMove
    <2>3. QED
      BY <1>1, <1>2, <2>1, <2>2, SaneStays DEF DeviceContents
  <1>13. DeviceProgress'
    <2>1. ASSUME NEW place \in Nat, io.count # 0, Advances(place)
          PROVE  /\ Progress(io', offset', volume.size, place)
                 /\ io.fn = "xread" => HasBytes(io', disk', place)
      BY <1>1, <2>1, ProgressMoves
    <2>2. CASE call.pc = "bpb"
      <3>1. io.count # 0 /\ io.fn = "xread" /\ Advances(0)
        BY <1>1, <1>2, <1>3, <1>5, <2>2 DEF DeviceShape, DeviceProgress
      <3>2. Progress(io', offset', volume.size, 0) /\ HasBytes(io', disk', 0)
        BY <2>1, <3>1
      <3>3. QED
        BY <1>2, <2>2, <3>2 DEF DeviceProgress, Advances
    <2>3. CASE call.pc = "info"
      <3> DEFINE place == fat32_sector_to_offset(bpb, bpb.fs_info)
      <3>1. io.count # 0 /\ io.fn = "xread" /\ Advances(place) /\ bpb # NoBpb
        BY <1>1, <1>2, <1>3, <1>5, <2>3 DEF DeviceShape, DeviceProgress
      <3>2. place \in Nat
        BY <1>1, <3>1, PlaceOfInfo DEF DeviceTypeOK
      <3>3. Progress(io', offset', volume.size, place) /\ HasBytes(io', disk', place)
        BY <2>1, <3>1, <3>2
      <3>4. QED
        BY <1>2, <2>3, <3>3 DEF DeviceProgress, Advances
    <2>4. CASE call.pc = "transfer" /\ call.fn \in {"get_entry", "set_entry"}
      <3> DEFINE place == fat32_fat_entry_offset(bpb, call.cluster)
      <3>1. /\ io.count # 0 /\ Advances(place) /\ bpb # NoBpb
            /\ call.fn = "get_entry" => io.fn = "xread"
        BY <1>1, <1>2, <1>3, <1>5, <2>4 DEF DeviceShape, DeviceProgress
      <3>2. place \in Nat
        BY <1>3, <2>4, <3>1, MountedEntries
      <3>3. /\ Progress(io', offset', volume.size, place)
            /\ call.fn = "get_entry" => HasBytes(io', disk', place)
        BY <2>1, <3>1, <3>2
      <3>4. QED
        BY <1>2, <2>4, <3>3 DEF DeviceProgress, Advances
    <2>5. CASE call.pc = "transfer" /\ call.fn \notin {"get_entry", "set_entry"}
      BY <1>2, <2>5 DEF DeviceProgress
    <2>6. QED
      BY <1>4, <2>2, <2>3, <2>4, <2>5
  <1>14. DeviceWrites'
    <2>1. SUFFICES ASSUME call.fn = "set_entry", OfSaneCluster(call.cluster)
                   PROVE  \/ disk' = before /\ (io'.fn = "none" => io'.ret = -1)
                          \/ /\ io'.fn = "none" /\ DOMAIN before = DOMAIN disk'
                             /\ disk' = Stored(call.cluster)
      BY <1>2, SaneStays DEF DeviceWrites, Done, Stored
    <2>2. disk = before
      BY <1>1, <1>2, <2>1 DEF DeviceWrites
    <2>3. call.pc = "transfer" /\ bpb # NoBpb /\ io.fn = "xwrite"
      BY <1>1, <1>2, <1>3, <1>4, <2>1 DEF DeviceShape
    <2> DEFINE place == EntryPlace(volume.bpb, call.cluster)
    <2>4. /\ place \in Nat /\ place + EntrySize <= volume.size
          /\ fat32_fat_entry_offset(bpb, call.cluster) = place
      BY <1>3, <2>1, <2>3, SaneEntries
    <2>5. Advances(place)
      BY <1>1, <2>1, <2>3, <2>4 DEF DeviceProgress
    <2>6. io.count = EntrySize /\ io.buf = [i \in 1..EntrySize |-> -i]
      BY <1>11, <2>3
    <2> HIDE DEF place
    <2>7. io.done = 0 /\ offset = place
      BY <1>1, <1>2, <1>3, <1>5, <2>4, <2>5, <2>6 DEF Advances, Progress, Done
    <2>8. Put(EntrySize) = Stored(call.cluster)
      <3>1. EntrySize \in 0..io.count
        BY <1>5, <2>6
      <3>2. /\ Put(EntrySize) \in [0..volume.size - 1 -> Int]
            /\ \A o \in 0..volume.size - 1 :
                 Put(EntrySize)[o] =
                   IF o >= offset /\ o < offset + EntrySize THEN io.buf[o - offset + 1] ELSE disk[o]
        BY <1>1, <3>1, PutBytes
      <3>3. Stored(call.cluster) =
              [o \in 0..volume.size - 1 |->
                 IF o \in Bytes(place, EntrySize) THEN place - o - 1 ELSE disk[o]]
        BY <1>3, <2>2 DEF Stored, place
      <3>4. ASSUME NEW o \in 0..volume.size - 1
            PROVE  Put(EntrySize)[o] = Stored(call.cluster)[o]
        <4>1. o \in Bytes(place, EntrySize) <=> o >= place /\ o < place + EntrySize
          BY <1>1, <1>5, <2>4 DEF Bytes
        <4>2. CASE o >= place /\ o < place + EntrySize
          <5>1. o - place + 1 \in 1..EntrySize
            BY <1>1, <1>5, <2>4, <4>2
          <5>2. Put(EntrySize)[o] = -(o - place + 1)
            BY <2>6, <2>7, <3>2, <4>2, <5>1
          <5>3. -(o - place + 1) = place - o - 1
            BY <1>1, <2>4
          <5>4. QED
            BY <3>3, <4>1, <4>2, <5>2, <5>3
        <4>3. CASE ~(o >= place /\ o < place + EntrySize)
          BY <2>7, <3>2, <3>3, <4>1, <4>3
        <4>4. QED
          BY <4>2, <4>3
      <3>5. Stored(call.cluster) = [o \in 0..volume.size - 1 |-> Stored(call.cluster)[o]]
        BY <3>3
      <3>6. Put(EntrySize) = [o \in 0..volume.size - 1 |-> Put(EntrySize)[o]]
        BY <3>2
      <3>7. QED
        BY <3>4, <3>5, <3>6
    <2>9. DOMAIN before = DOMAIN disk'
      BY <1>2, <1>3, <2>2
    <2>10. CASE Again
      BY <1>2, <2>2, <2>3, <2>10 DEF Again
    <2>11. CASE Breaks
      BY <2>2, <2>6, <2>8, <2>9, <2>11 DEF Breaks
    <2>12. CASE EndsEarly
      BY <2>3, <2>12 DEF EndsEarly
    <2>13. CASE Moves
      <3>1. Whole = EntrySize
        BY <1>1, <1>5, <2>4, <2>6, <2>7 DEF Whole
      <3>2. io'.fn = "none" /\ disk' = Put(EntrySize)
        BY <1>5, <2>3, <2>6, <2>7, <2>13, <3>1 DEF Moves
      <3>3. QED
        BY <2>8, <2>9, <3>2
    <2>14. QED
      BY <1>2, <2>10, <2>11, <2>12, <2>13
  <1>15. DeviceReplies'
    BY <1>2, <1>4 DEF DeviceReplies, ReadsTheEntry, Answered, Idle
  <1>16. QED
    BY <1>9, <1>10, <1>12, <1>13, <1>14, <1>15 DEF DeviceInv

LEMMA DeviceStutters ==
  ASSUME DeviceInv, UNCHANGED devicevars
  PROVE  DeviceInv'
  BY DEF devicevars, DeviceInv, DeviceTypeOK, DeviceShape, DeviceContents, DeviceProgress,
     DeviceWrites, DeviceReplies, ReadsTheEntry, Answered, OfSaneCluster, Sane, Idle, Done,
     Advances, Stored

LEMMA DeviceNextInv ==
  ASSUME ~Splits, DeviceInv, [DeviceNext]_devicevars
  PROVE  DeviceInv'
  <1>1. CASE fat32_bpb_read
    BY <1>1, BpbReadBegins
  <1>2. CASE \E cluster \in Clusters : fat32_fat_get_entry(cluster) \/ fat32_fat_set_entry(cluster)
    BY <1>2, EntryAccessBegins
  <1>3. CASE \E cluster \in Clusters : fat32_fs_read_cluster(cluster)
    BY <1>3, ReadClusterBegins
  <1>4. CASE BpbRead
    BY <1>4, BpbReadEnds
  <1>5. CASE fat32_fs_info_read
    BY <1>5, InfoReadBegins
  <1>6. CASE InfoRead
    BY <1>6, InfoReadEnds
  <1>7. CASE AccessEnds
    BY <1>7, AccessReturns
  <1>8. CASE InTransfer \/ DeviceFails
    BY <1>8, TransferKeeps
  <1>9. CASE UNCHANGED devicevars
    BY <1>9, DeviceStutters
  <1>10. QED
    BY <1>1, <1>2, <1>3, <1>4, <1>5, <1>6, <1>7, <1>8, <1>9 DEF DeviceNext, Begin, DeviceStep

(***************************************************************************)
(* How far every transfer has come, what it has in its buffer, and what is *)
(* on the device, for devices and boot sectors of any size, any cluster    *)
(* numbers, any failures and any number of signals.                        *)
(***************************************************************************)
THEOREM DeviceInvariant ==
  ASSUME ~Splits
  PROVE  DeviceSpec => []DeviceInv
  <1>1. DeviceInit => DeviceInv
    BY DeviceInitInv
  <1>2. DeviceInv /\ [DeviceNext]_devicevars => DeviceInv'
    BY DeviceNextInv
  <1>3. QED
    BY <1>1, <1>2, PTL DEF DeviceSpec

(***************************************************************************)
(* fat32_bpb_check_validity and the arithmetic of 32 bits: what a          *)
(* formatter made is mounted unless the device fails, its valid clusters   *)
(* are those of the format, each where the format puts it, and sectors of  *)
(* no bytes are never mounted.                                             *)
(***************************************************************************)
THEOREM MountsWhatIsUsable ==
  ASSUME ~Splits
  PROVE  DeviceSpec => []MountedIsUsable
  <1>1. ASSUME DeviceInv
        PROVE  MountedIsUsable
    <2>1. Sane /\ Answered("mount") => reply.code \in {FE_OK, FE_ERRNO}
      BY <1>1 DEF DeviceInv, DeviceReplies
    <2>2. Mounted => bpb.bps # 0
      BY <1>1 DEF DeviceInv, DeviceContents, Mounted, Idle
    <2>3. ASSUME Sane, Mounted, NEW c \in 0..Space32 - 1
          PROVE  /\ fat32_bpb_is_valid_cluster(bpb, c) <=> c \in ClustersOf(volume.bpb)
                 /\ c \in ClustersOf(volume.bpb) =>
                      fat32_cluster_to_offset(bpb, c) = ClusterPlace(volume.bpb, c)
      <3>1. bpb = volume.bpb /\ c \in Nat /\ volume.size \in Nat
        BY <1>1, <2>3, SizeOfDisk, GeometryConstants DEF DeviceInv, DeviceContents, Mounted
      <3>2. volume.bpb \in BootSectors /\ Formatted(volume.bpb, volume.size)
        BY <1>1, <2>3, SanePlaces DEF DeviceInv
      <3>3. QED
        BY <3>1, <3>2, FormattedClusters
    <2>4. QED
      BY <2>1, <2>2, <2>3 DEF MountedIsUsable
  <1>2. QED
    BY <1>1, DeviceInvariant, PTL

(***************************************************************************)
(* xread: a read of an entry that succeeds has the entry of that cluster   *)
(* in the first table, all of it.                                          *)
(***************************************************************************)
THEOREM ReadsEntries ==
  ASSUME ~Splits
  PROVE  DeviceSpec => []ReadsTheEntry
  <1>1. DeviceInv => ReadsTheEntry
    BY DEF DeviceInv, DeviceReplies
  <1>2. QED
    BY <1>1, DeviceInvariant, PTL

(***************************************************************************)
(* xwrite: the entry of a cluster is never half written, nothing beside it *)
(* is, and success means that it is there.                                 *)
(***************************************************************************)
THEOREM WritesEntries ==
  ASSUME ~Splits
  PROVE  DeviceSpec => []WritesOnlyTheEntry
  <1>1. DeviceInv => WritesOnlyTheEntry
    BY DEF DeviceInv, DeviceReplies, DeviceWrites, WritesOnlyTheEntry
  <1>2. QED
    BY <1>1, DeviceInvariant, PTL
=============================================================================
