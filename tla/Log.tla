--------------------------------- MODULE Log ---------------------------------
(***************************************************************************)
(* The log of src/utils/log.c.  A message is written piece by piece under  *)
(* log_lock; whether there is a log, and from which level on, is read      *)
(* before the lock is taken.  log_close closes the file and leaves         *)
(* log_file as it is.                                                      *)
(*                                                                         *)
(* The text is left out: the file is the piece that was written last.      *)
(***************************************************************************)
EXTENDS Naturals

CONSTANTS
    Threads,
    NoThread,
    WritesFail    \* may a write to the log fail?

ASSUME LogAssumption == NoThread \notin Threads /\ WritesFail \in BOOLEAN

VARIABLES
    log_file,     \* "null", "open", or "closed": a pointer to a closed file
    restricted,   \* does log_close close the file?
    log_level,
    log_lock,     \* the thread that holds it, or NoThread
    message,      \* of each thread, the message it is logging
    last,         \* the last piece written, and by whom
    misuse        \* was a closed file written to?

logVars == <<log_file, restricted, log_level, log_lock, message, last, misuse>>

LOG_DEBUG == 0
LOG_INFO == 1
LOG_WARNING == 3
LOG_ERROR == 4

\* "loc" tells log_message_loc from log_message.
NoMessage == [pc |-> "idle", level |-> LOG_DEBUG, loc |-> FALSE, result |-> 0]

LogInit ==
    /\ log_file = "null" /\ restricted = FALSE /\ log_level = LOG_DEBUG
    /\ log_lock = NoThread
    /\ message = [t \in Threads |-> NoMessage]
    /\ last = [thread |-> NoThread, piece |-> "none"]
    /\ misuse = FALSE

Opened(closes, level) ==
    /\ log_file' = "open" /\ restricted' = closes /\ log_level' = level
    /\ UNCHANGED <<log_lock, message, last, misuse>>

log_init_from_file(level) == Opened(FALSE, level)

log_init_from_path(level) == Opened(TRUE, level)

log_close ==
    /\ log_file' = IF log_file = "open" /\ restricted THEN "closed" ELSE log_file
    /\ misuse' = (misuse \/ (log_file = "closed" /\ restricted))
    /\ UNCHANGED <<restricted, log_level, log_lock, message, last>>

-----------------------------------------------------------------------------
Logs(t) == message[t].pc # "idle"

Step(t, pc) == message' = [message EXCEPT ![t].pc = pc]

\* A call of log_message or log_message_loc.
Log(t, level, loc) ==
    /\ ~Logs(t)
    /\ message' = [message EXCEPT ![t] = [NoMessage EXCEPT !.pc = "check", !.level = level, !.loc = loc]]
    /\ UNCHANGED <<log_file, restricted, log_level, log_lock, last, misuse>>

Check(t) ==
    /\ message[t].pc = "check"
    /\ Step(t, IF log_file = "null" \/ message[t].level < log_level THEN "idle" ELSE "lock")
    /\ UNCHANGED <<log_file, restricted, log_level, log_lock, last, misuse>>

FirstPiece(t) == IF message[t].loc THEN "where" ELSE "level"

\* Mutant: a lock that is held is not waited for.
LockTried(t) ==
    /\ message[t].pc = "lock"
    /\ log_lock' = t
    /\ Step(t, FirstPiece(t))
    /\ UNCHANGED <<log_file, restricted, log_level, last, misuse>>

Lock(t) ==
    /\ message[t].pc = "lock" /\ log_lock = NoThread
    /\ log_lock' = t
    /\ Step(t, FirstPiece(t))
    /\ UNCHANGED <<log_file, restricted, log_level, last, misuse>>

\* What is done after each piece; flushing writes nothing of its own.
After == [where |-> "level", level |-> "text", text |-> "flush", flush |-> "newline",
          newline |-> "unlock"]

Write(t) ==
    /\ message[t].pc \in DOMAIN After
    /\ Step(t, After[message[t].pc])
    /\ last' = IF message[t].pc = "flush" THEN last
               ELSE [thread |-> t, piece |-> message[t].pc]
    /\ misuse' = (misuse \/ log_file = "closed")
    /\ UNCHANGED <<log_file, restricted, log_level, log_lock>>

\* Mutant: the function returns from where the write failed.
WriteFailsReturns(t) ==
    /\ message[t].pc \in DOMAIN After /\ WritesFail
    /\ message' = [message EXCEPT ![t].pc = "idle", ![t].result = 1]
    /\ last' = [thread |-> t, piece |-> "broken"]
    /\ misuse' = (misuse \/ log_file = "closed")
    /\ UNCHANGED <<log_file, restricted, log_level, log_lock>>

\* The line stays as far as it got; the next message continues it.
WriteFails(t) ==
    /\ message[t].pc \in DOMAIN After /\ WritesFail
    /\ message' = [message EXCEPT ![t].pc = "unlock", ![t].result = 1]
    /\ last' = [thread |-> t, piece |-> "broken"]
    /\ misuse' = (misuse \/ log_file = "closed")
    /\ UNCHANGED <<log_file, restricted, log_level, log_lock>>

Unlock(t) ==
    /\ message[t].pc = "unlock"
    /\ log_lock' = NoThread
    /\ Step(t, "idle")
    /\ UNCHANGED <<log_file, restricted, log_level, last, misuse>>

LogStep(t) == Check(t) \/ Lock(t) \/ Write(t) \/ WriteFails(t) \/ Unlock(t)

-----------------------------------------------------------------------------
Preceding == [level |-> "where", text |-> "level", newline |-> "text"]

Follows(t, piece) ==
    IF piece = FirstPiece(t) THEN last.piece \in {"none", "newline", "broken"}
    ELSE last = [thread |-> t, piece |-> Preceding[piece]]

(***************************************************************************)
(* The pieces of a message come one after the other, whatever threads log  *)
(* at the same time, and a message starts on a line of its own unless a    *)
(* write failed before (log_lock).                                         *)
(***************************************************************************)
LinesWhole ==
    [][last' # last /\ last'.piece # "broken" => Follows(last'.thread, last'.piece)]_logVars

(***************************************************************************)
(* A thread that got the lock gives it back, whichever write fails.        *)
(***************************************************************************)
LockReleased == \A t \in Threads : log_lock = t ~> log_lock # t

=============================================================================
