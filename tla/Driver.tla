------------------------------- MODULE Driver -------------------------------
(***************************************************************************)
(* The whole life of the process: Mount is what main does, and Log what it *)
(* and the threads of the FUSE loop write meanwhile.  main logs once at    *)
(* each of the points below and goes on when that is done; handlers log    *)
(* what went wrong (operations.c), any number of times.                    *)
(***************************************************************************)
EXTENDS Mount, Log

CONSTANTS Main, LogLevels

ASSUME DriverAssumption == Main \in Threads /\ LogLevels \subseteq {LOG_DEBUG, LOG_WARNING}

VARIABLE said    \* has main logged what it logs at this point?

driverVars == <<vars, logVars, said>>

Workers == Threads \ {Main}

DriverInit == Init /\ LogInit /\ said = FALSE

\* What main logs before it leaves each point; verbose_info logs at LOG_DEBUG.
LevelAt == [fs |-> LOG_INFO, verbose |-> LOG_DEBUG, loop |-> LOG_INFO,
            main_cleanup |-> IF error = FE_OK THEN LOG_INFO ELSE LOG_ERROR]

Speaks == pc \in DOMAIN LevelAt /\ failure = "none"

MainLogs ==
    /\ Speaks /\ ~said
    /\ Log(Main, LevelAt[pc], FALSE)
    /\ said' = TRUE
    /\ UNCHANGED vars

\* main is not in the middle of a message.
Free == (Speaks => said) /\ ~Logs(Main)

Quietly(action) == Free /\ action /\ said' = FALSE /\ UNCHANGED logVars

OpensLog ==
    /\ Free /\ OpenLog
    /\ said' = FALSE
    /\ \/ "log" \in held' /\ \E level \in LogLevels : log_init_from_path(level)
       \/ "log" \notin held' /\ pc' = "fs" /\ \E level \in LogLevels : log_init_from_file(level)
       \/ "log" \notin held' /\ UNCHANGED logVars

\* It is given up exactly if a message could not be written.
PrintsInfo ==
    /\ Quietly(VerboseInfo)
    /\ pc' = "main_cleanup" <=> message[Main].result # 0

\* Mutant: main does not wait for the handlers.
LeavesLoopEarly == Quietly(FuseLoop)

\* libfuse lets the handlers end and joins their threads.
LeavesLoop == Quietly(FuseLoop) /\ \A t \in Workers : ~Logs(t)

ClosesLog ==
    /\ Free /\ CloseLog
    /\ said' = FALSE
    /\ IF log_file = "null" THEN UNCHANGED logVars ELSE log_close

Others ==
    \/ ParseOptions \/ AllocateFs \/ AllocateLock \/ AllocateBpb \/ AllocateFsInfo
    \/ AllocateFat \/ OpenDevice \/ CheckDevice \/ ReadBpb \/ ReadFsInfo \/ InitFat
    \/ CreateFileTable \/ CreateFhTable \/ CreateAllocator
    \/ CloseFs \/ CleanupDevice \/ CleanupStructures \/ CleanupFat \/ CleanupTables

\* log_error_loc in a handler.
HandlerLogs(t) ==
    /\ At("loop") /\ Free
    /\ Log(t, LOG_ERROR, TRUE)
    /\ UNCHANGED <<vars, said>>

Logging(t) == LogStep(t) /\ UNCHANGED <<vars, said>>

DriverNext ==
    \/ Quietly(Others) \/ OpensLog \/ PrintsInfo \/ LeavesLoop \/ ClosesLog \/ MainLogs
    \/ \E t \in Workers : HandlerLogs(t)
    \/ \E t \in Threads : Logging(t)

\* A thread that is logging goes on; log_lock itself is not fair.
DriverSpec ==
    DriverInit /\ [][DriverNext]_driverVars
    /\ \A t \in Threads : WF_driverVars(Logging(t))

-----------------------------------------------------------------------------
(***************************************************************************)
(* Once the volume has been served nothing goes wrong on the way out, and  *)
(* no thread writes to a log that has been closed, the handlers that were  *)
(* still under way when the volume was unmounted included (main).          *)
(***************************************************************************)
EndsClean == ServedEndsClean /\ ~misuse

=============================================================================
