------------------------------ MODULE LogFile -------------------------------
(***************************************************************************)
(* internal/logfile: the daemon's log writer, which must follow a log that  *)
(* newsyslog renames, removes and recreates under it.  The calls are         *)
(* serialized by the mutex, so one call is under way at a time; between two  *)
(* of its system calls newsyslog can act.                                    *)
(*                                                                           *)
(*   Write: closed -------------------------------------------> ErrClosed    *)
(*          age < checkInterval ------------------------------> append       *)
(*          else: stat --same file, or an error---------------> append       *)
(*                  +-----other file, or none--> open --> fstat --> append   *)
(*                                                +--error--------> append   *)
(***************************************************************************)
EXTENDS Naturals

CONSTANTS
    Inode,          \* the files there can be
    NoFile,         \* nothing at the path
    nil,            \* no file held, no FileInfo
    CheckInterval,  \* checkInterval
    Slow            \* the longest a call takes

ASSUME LogFileAssumption ==
    /\ NoFile \notin Inode
    /\ nil \notin Inode \cup {NoFile}
    /\ CheckInterval \in Nat \ {0}
    /\ Slow \in Nat

VARIABLES
    path,    \* the inode at the path, or NoFile
    archive, \* the inode newsyslog has renamed and not yet compressed, or NoFile
    file,    \* the inode held open, nil before Open and after Close
    info,    \* the identity recorded for it
    age,     \* time since lastCheck, no longer counted from checkInterval on
    op,      \* the call that holds the mutex
    at,      \* its next system call
    took,    \* how long it has been running
    gone,    \* history: how long the held file has been away from the path
    failed,  \* history: the last check or reopening swallowed an error
    closed   \* history: Close has been called

disk == <<path, archive>>
held == <<file, info>>
vars == <<disk, held, age, op, at, took, gone, failed, closed>>

TypeOK ==
    /\ path \in Inode \cup {NoFile}
    /\ archive \in Inode \cup {NoFile}
    /\ file \in Inode \cup {nil}
    /\ info \in Inode \cup {nil}
    /\ age \in 0 .. CheckInterval
    /\ op \in {"none", "Open", "Write"}
    /\ at \in {"idle", "closed", "stat", "open", "fstat", "append"}
    /\ at = "idle" <=> op = "none"
    /\ took \in 0 .. Slow
    /\ gone \in Nat
    /\ failed \in BOOLEAN
    /\ closed \in BOOLEAN

Init ==
    /\ path \in Inode \cup {NoFile}
    /\ archive = NoFile
    /\ file = nil /\ info = nil
    /\ age = 0
    /\ op = "none" /\ at = "idle" /\ took = 0
    /\ gone = 0
    /\ failed = FALSE
    /\ closed = FALSE

-----------------------------------------------------------------------------
\* The call ends and lets go of the mutex.
Unlock == op' = "none" /\ at' = "idle" /\ took' = 0

\* A check or a reopening is over: a Write goes on to append, Open returns.
Checked ==
    IF op = "Write" THEN at' = "append" /\ UNCHANGED <<op, took>> ELSE Unlock

\* Inodes are reused once nothing names them and nobody holds them.
Fresh == Inode \ {path, archive, file}

(* Open, until its system call.  The daemon opens its log once. *)
Open ==
    /\ op = "none" /\ file = nil /\ ~closed
    /\ op' = "Open" /\ at' = "open"
    /\ UNCHANGED <<disk, held, age, took, gone, failed, closed>>

\* Mutant of Write: a closed writer is not refused.
WriteUnrefused ==
    /\ op = "none" /\ (file # nil \/ closed)
    /\ op' = "Write"
    /\ IF age < CheckInterval
       THEN at' = "append" /\ UNCHANGED age
       ELSE at' = "stat" /\ age' = 0
    /\ UNCHANGED <<disk, held, took, gone, failed, closed>>

(* Write, until its first system call, once Open has returned the writer.
   lastCheck is set before the check has succeeded. *)
Write ==
    /\ op = "none" /\ (file # nil \/ closed)
    /\ op' = "Write"
    /\ \/ file = nil /\ at' = "closed" /\ UNCHANGED age
       \/ file # nil /\ age < CheckInterval /\ at' = "append" /\ UNCHANGED age
       \/ file # nil /\ age = CheckInterval /\ at' = "stat" /\ age' = 0
    /\ UNCHANGED <<disk, held, took, gone, failed, closed>>

(* Write on a closed writer: ErrClosed. *)
Refuse ==
    /\ at = "closed"
    /\ Unlock
    /\ UNCHANGED <<disk, held, age, gone, failed, closed>>

\* Mutant of Stat: a missing file is an error like any other.
StatIgnoresMissing ==
    /\ at = "stat"
    /\ \/ path \in Inode /\ path # info /\ at' = "open" /\ UNCHANGED failed
       \/ path \in Inode /\ path = info /\ at' = "append" /\ failed' = FALSE
       \/ path = NoFile /\ at' = "append" /\ UNCHANGED failed
    /\ UNCHANGED <<disk, held, age, op, took, gone, closed>>

(* os.Stat of the path. *)
Stat ==
    /\ at = "stat"
    /\ \/ path # info /\ at' = "open" /\ UNCHANGED failed
       \/ path = info /\ at' = "append" /\ failed' = FALSE
       \/ at' = "append" /\ failed' = TRUE
    /\ UNCHANGED <<disk, held, age, op, took, gone, closed>>

\* Mutant of OpenFile: the old file is closed before the new one is open.
CloseThenOpenFile ==
    /\ at = "open"
    /\ \/ \E i \in IF path = NoFile THEN Fresh ELSE {path} :
            /\ path' = i
            /\ file' = i
            /\ info' = nil
            /\ at' = "fstat"
            /\ gone' = 0
            /\ failed' = FALSE
            /\ UNCHANGED <<op, took>>
       \/ /\ file' = nil
          /\ failed' = (op = "Write")
          /\ Checked
          /\ UNCHANGED <<path, info, gone>>
    /\ UNCHANGED <<archive, age, closed>>

(* openLocked: the directory and the file are created where they are missing,
   and the old file is closed once the new one is open. *)
OpenFile ==
    /\ at = "open"
    /\ \/ \E i \in IF path = NoFile THEN Fresh ELSE {path} :
            /\ path' = i
            /\ file' = i
            /\ info' = nil
            /\ at' = "fstat"
            /\ gone' = 0
            /\ failed' = FALSE
            /\ UNCHANGED <<op, took>>
       \/ /\ failed' = (op = "Write")
          /\ Checked
          /\ UNCHANGED <<path, held, gone>>
    /\ UNCHANGED <<archive, age, closed>>

\* Mutant of FStat: asks for the file at the path.
StatOfPath ==
    /\ at = "fstat"
    /\ info' = path
    /\ age' = 0
    /\ Checked
    /\ UNCHANGED <<disk, file, gone, failed, closed>>

(* The rest of openLocked: the identity is that of the file held. *)
FStat ==
    /\ at = "fstat"
    /\ info' \in {file, nil}
    /\ age' = 0
    /\ Checked
    /\ UNCHANGED <<disk, file, gone, failed, closed>>

(* file.Write, to whatever is held. *)
Append ==
    /\ at = "append"
    /\ Unlock
    /\ UNCHANGED <<disk, held, age, gone, failed, closed>>

(* Close.  A second one finds no file and changes nothing. *)
Close ==
    /\ op = "none" /\ file # nil
    /\ file' = nil
    /\ closed' = TRUE
    /\ UNCHANGED <<disk, info, age, op, at, took, gone, failed>>

-----------------------------------------------------------------------------
(* newsyslog, and time. *)

Rename ==
    /\ path # NoFile
    /\ archive' = path
    /\ path' = NoFile
    /\ UNCHANGED <<held, age, op, at, took, gone, failed, closed>>

\* The new log is moved into place, over one the writer may have created.
Create ==
    /\ path' \in Fresh
    /\ UNCHANGED <<archive, held, age, op, at, took, gone, failed, closed>>

Compress ==
    /\ archive # NoFile
    /\ archive' = NoFile
    /\ UNCHANGED <<path, held, age, op, at, took, gone, failed, closed>>

Remove ==
    /\ path # NoFile
    /\ path' = NoFile
    /\ UNCHANGED <<archive, held, age, op, at, took, gone, failed, closed>>

\* A unit of time.  What is gone longer than any property asks is not counted.
Tick ==
    /\ op # "none" => took < Slow
    /\ took' = IF op # "none" THEN took + 1 ELSE took
    /\ age' = IF age < CheckInterval THEN age + 1 ELSE age
    /\ gone' = IF file \notin {nil, path} /\ gone < CheckInterval + 2 * Slow THEN gone + 1 ELSE gone
    /\ UNCHANGED <<disk, held, op, at, failed, closed>>

Calls == Open \/ Write \/ Refuse \/ Stat \/ OpenFile \/ FStat \/ Append \/ Close

Next == Calls \/ Rename \/ Create \/ Compress \/ Remove \/ Tick

Spec == Init /\ [][Next]_vars

-----------------------------------------------------------------------------
(* Properties. *)

\* However newsyslog's steps fall between the writer's, a line does not go to a
\* file that has been away from the path for checkInterval, give or take the
\* length of two calls, unless the last attempt to reopen has failed.
FollowsRotation ==
    at = "append" /\ ~failed => gone < CheckInterval + 2 * Slow

\* The writer holds a file from Open until Close and never after: neither a
\* failed reopening nor a write that comes after Close changes that.
OpenUntilClosed ==
    /\ closed => file = nil
    /\ at = "append" => file # nil

\* logfile.go:119: after a swallowed error the next write retries, if the writer
\* has not been closed meanwhile.
NextWriteRetries ==
    [][failed /\ ~closed /\ op = "none" /\ op' = "Write" => at' = "stat"]_vars

=============================================================================
