------------------------------- MODULE Daemon -------------------------------
(***************************************************************************)
(* internal/daemon: the poll loop of the `daemon` subcommand, one action    *)
(* per step between which another process, the KDC, the keychain, a signal  *)
(* or time can get in.                                                      *)
(*                                                                          *)
(*   select --StartCycle--> poll --CheckStatus--> lookup --> kinit --+      *)
(*      ^                    | ^  (one profile after the other)      |      *)
(*      +-----EndCycle-------+ +----------HandleResult---- result <--+      *)
(***************************************************************************)
EXTENDS Krb

CONSTANTS
    Files,          \* the contents the config file may have
    Wanted,         \* the --profile names the daemon was started with, <<>> for all
    StatusTimeout,  \* statusTimeout of klist
    AcquireTimeout, \* acquireTimeout of kinit
    none            \* no entry in the blocklist

ASSUME DaemonAssumption ==
    /\ Files \subseteq RawFile
    /\ Wanted \in Seq(Name)
    /\ StatusTimeout \in Nat
    /\ AcquireTimeout \in Nat
    /\ none \notin Credential

VARIABLES
    file,      \* the config file on disk
    pc,        \* where Run or pollAll is, or how the last process ended
    selected,  \* the profiles of the running cycle
    at,        \* index in selected of the profile being polled
    pw,        \* the password LookupPassword returned
    err,       \* the error AcquireProfile returned
    spent,     \* time spent in the running klist, keychain lookup or kinit
    blocked,   \* the blocklist
    interval,  \* poll interval, fixed when the daemon starts
    until,     \* time until the ticker fires next, 0 before it exists
    fired,     \* ticker.C holds a tick
    stopping,  \* ctx is canceled: SIGTERM or SIGINT has been received
    moved      \* the machine is in another time zone than the process was started in

loopVars == <<pc, selected, at, pw, err, spent>>
timerVars == <<interval, until, fired>>
daemonVars == <<loopVars, blocked, timerVars, stopping, moved>>

InCycle == pc \in {"poll", "lookup", "kinit", "result"}
Ended == {"down", "exited", "failed", "panicked"}
Running == InCycle \/ pc = "select"
Current == selected[at]

DaemonTypeOK ==
    /\ file \in Files
    /\ pc \in {"down", "exited", "failed", "panicked",
               "poll", "lookup", "kinit", "result", "select"}
    /\ selected \in Seq(Profile)
    /\ at \in Nat
    /\ InCycle => at \in 1 .. Len(selected) + 1
    /\ pc \in {"lookup", "kinit", "result"} => at \in DOMAIN selected
    /\ pw \in Password
    /\ err \in Error
    /\ spent \in Nat
    /\ blocked \in [Name -> Credential \cup {none}]
    /\ interval \in Int
    /\ until \in Int
    /\ fired \in BOOLEAN
    /\ stopping \in BOOLEAN
    /\ moved \in BOOLEAN

DaemonInit ==
    /\ file \in Files
    /\ pc = "down"
    /\ selected = <<>>
    /\ at = 0
    /\ pw = "good"
    /\ err = "none"
    /\ spent = 0
    /\ blocked = [n \in Name |-> none]
    /\ interval = 0
    /\ until = 0
    /\ fired = FALSE
    /\ stopping = FALSE
    /\ moved = FALSE

-----------------------------------------------------------------------------
\* The process is gone, and everything it kept in memory with it.
Gone(how) ==
    /\ pc' = how
    /\ selected' = <<>>
    /\ at' = 0
    /\ pw' = "good"
    /\ err' = "none"
    /\ spent' = 0
    /\ blocked' = [n \in Name |-> none]
    /\ interval' = 0
    /\ until' = 0
    /\ fired' = FALSE
    /\ stopping' = FALSE
    /\ moved' = FALSE

BeginCycle(ps) ==
    /\ pc' = "poll"
    /\ selected' = ps
    /\ at' = 1
    /\ spent' = 0
    /\ UNCHANGED <<pw, err>>

NextProfile ==
    /\ pc' = "poll"
    /\ at' = at + 1
    /\ spent' = 0
    /\ pw' = "good"
    /\ err' = "none"
    /\ UNCHANGED selected

(* Run returns an error before it has done anything: the file does not load or
   select, or setupLogging fails. *)
StartFails ==
    /\ pc \in Ended
    /\ pc' = "failed"
    /\ UNCHANGED <<krbVars, file, selected, at, pw, err, spent, blocked, timerVars, stopping, moved>>

(* Run until the first pollAll: an empty blocklist and no ticker yet. *)
StartDaemon ==
    /\ pc \in Ended
    /\ Usable(file, Wanted)
    /\ BeginCycle(Selected(file, Wanted))
    /\ interval' = PollInterval(file)
    /\ blocked' = [n \in Name |-> none]
    /\ UNCHANGED <<krbVars, file, until, fired, stopping, moved>>

\* Mutant of StartCycle: a reload that fails ends Run, as a load at the start does.
StartCycleOrFail ==
    /\ pc = "select"
    /\ fired
    /\ IF Usable(file, Wanted)
       THEN fired' = FALSE /\ BeginCycle(Selected(file, Wanted)) /\ UNCHANGED <<blocked, interval, until, stopping, moved>>
       ELSE Gone("failed")
    /\ UNCHANGED <<krbVars, file>>

(* The ticker case: reload and poll.  A file that cannot be used costs the
   tick, and the loop goes back to select. *)
StartCycle ==
    /\ pc = "select"
    /\ fired
    /\ fired' = FALSE
    /\ IF Usable(file, Wanted) THEN BeginCycle(Selected(file, Wanted)) ELSE UNCHANGED loopVars
    /\ UNCHANGED <<krbVars, file, blocked, interval, until, stopping, moved>>

\* Mutant of EndCycle: the ticker is not created.
EndCycleNoTicker ==
    /\ pc = "poll"
    /\ at = Len(selected) + 1
    /\ pc' = "select"
    /\ selected' = <<>>
    /\ at' = 0
    /\ UNCHANGED <<krbVars, file, pw, err, spent, blocked, timerVars, stopping, moved>>

(* pollAll returns.  After the first one the ticker is created, and
   time.NewTicker panics on an interval that is not positive. *)
EndCycle ==
    /\ pc = "poll"
    /\ at = Len(selected) + 1
    /\ IF until = 0 /\ interval <= 0
       THEN Gone("panicked")
       ELSE /\ pc' = "select"
            /\ selected' = <<>>
            /\ at' = 0
            /\ until' = IF until = 0 THEN interval ELSE until
            /\ UNCHANGED <<pw, err, spent, blocked, interval, fired, stopping, moved>>
    /\ UNCHANGED <<krbVars, file>>

-----------------------------------------------------------------------------
(* pollAll, one profile. *)

\* Mutant of Blocks: the credential in the entry is not compared.
BlocksName(p) == blocked[p.name] # none

\* The entry under the profile's name holds the credential it has now.
Blocks(p) == blocked[p.name] = p.cred

SkipBlocked ==
    /\ pc = "poll"
    /\ at \in DOMAIN selected
    /\ Blocks(Current)
    /\ NextProfile
    /\ UNCHANGED <<krbVars, file, blocked, timerVars, stopping, moved>>

(* NeedsRefresh has its answer: a status that could not be read, a missing, an
   expired or a nearly expired ticket is due. *)
CheckStatus ==
    /\ pc = "poll"
    /\ at \in DOMAIN selected
    /\ ~Blocks(Current)
    /\ \E st \in ReadStatus(Current.ccache, moved) :
         IF NeedsRefresh(Current, st)
         THEN /\ pc' = "lookup"
              /\ spent' = 0
              /\ UNCHANGED <<selected, at, pw, err>>
         ELSE NextProfile
    /\ UNCHANGED <<krbVars, file, blocked, timerVars, stopping, moved>>

Fails(e) ==
    /\ pc' = "result"
    /\ err' = e
    /\ spent' = 0
    /\ pw' = "good"
    /\ UNCHANGED <<selected, at>>

(* LookupPassword returns: an error, or the secret as it is now, which kinit
   gets however late it runs.  With ctx canceled exec starts no kinit. *)
LookupPassword ==
    /\ pc = "lookup"
    /\ \E e \in LookupErrors(Current.cred) :
         IF e # "none" \/ stopping
         THEN Fails(IF e # "none" THEN e ELSE "other")
         ELSE /\ pc' = "kinit"
              /\ pw' = vault[Current.cred]
              /\ UNCHANGED <<selected, at, err, spent>>
    /\ UNCHANGED <<krbVars, file, blocked, timerVars, stopping, moved>>

(* kinit ends with the KDC's answer; a ticket is in the cache exactly when the
   error is nil. *)
KinitAnswered ==
    /\ pc = "kinit"
    /\ kdc = "up"
    /\ \E e \in Answers(pw) :
         /\ Fails(e)
         /\ IF e = "none" THEN WriteTicket(Current) ELSE UNCHANGED ticketVars
    /\ UNCHANGED <<vault, kdc, file, blocked, timerVars, stopping, moved>>

\* Mutant of KinitKilled: neither the deadline nor the shutdown reaches a kinit
\* that gets no answer.
KinitHangs ==
    /\ pc = "kinit"
    /\ Fails("other")
    /\ spent = AcquireTimeout \/ stopping
    /\ kdc = "up" /\ pw = "good"
    /\ WriteTicket(Current)
    /\ UNCHANGED <<vault, kdc, file, blocked, timerVars, stopping, moved>>

(* kinit gives up, or is killed by the deadline or the shutdown, in which case
   it may already have written the cache. *)
KinitKilled ==
    /\ pc = "kinit"
    /\ Fails("other")
    /\ \/ /\ kdc = "down" \/ stopping
          /\ UNCHANGED ticketVars
       \/ /\ spent = AcquireTimeout \/ stopping
          /\ kdc = "up" /\ pw = "good"
          /\ WriteTicket(Current)
    /\ UNCHANGED <<vault, kdc, file, blocked, timerVars, stopping, moved>>

\* Mutants of HandleResult: the entry is the profile's name; a failure that is not
\* permanent is retried at once.
HandleResultByName ==
    /\ pc = "result"
    /\ blocked' = IF IsPermanent(err)
                  THEN [blocked EXCEPT ![Current.name] = Current.name]
                  ELSE blocked
    /\ NextProfile
    /\ UNCHANGED <<krbVars, file, timerVars, stopping, moved>>

HandleResultRetries ==
    /\ pc = "result"
    /\ blocked' = IF IsPermanent(err)
                  THEN [blocked EXCEPT ![Current.name] = Current.cred]
                  ELSE blocked
    /\ IF err = "other"
       THEN pc' = "lookup" /\ spent' = 0 /\ UNCHANGED <<selected, at, pw, err>>
       ELSE NextProfile
    /\ UNCHANGED <<krbVars, file, timerVars, stopping, moved>>

(* pollAll looks at AcquireProfile's error and goes on to the next profile. *)
HandleResult ==
    /\ pc = "result"
    /\ blocked' = IF IsPermanent(err)
                  THEN [blocked EXCEPT ![Current.name] = Current.cred]
                  ELSE blocked
    /\ NextProfile
    /\ UNCHANGED <<krbVars, file, timerVars, stopping, moved>>

-----------------------------------------------------------------------------
(* The end of the process. *)

Signal ==
    /\ Running
    /\ ~stopping
    /\ stopping' = TRUE
    /\ UNCHANGED <<krbVars, file, loopVars, blocked, timerVars, moved>>

Exit ==
    /\ pc = "select"
    /\ stopping
    /\ Gone("exited")
    /\ UNCHANGED <<krbVars, file>>

Crash ==
    /\ Running
    /\ Gone("down")
    /\ UNCHANGED <<krbVars, file>>

-----------------------------------------------------------------------------
(* Time, as the daemon sees it. *)

\* LookupPassword waits for somebody to answer the keychain's prompt.
Prompting == pc = "lookup" /\ vault[Current.cred] = "locked"

(* Nothing the daemon could do at once is pending: it sleeps in select, or a
   child process or a prompt keeps it. *)
Idle ==
    \/ ~Running
    \/ pc = "select" /\ ~fired /\ ~stopping
    \/ pc = "poll" /\ at \in DOMAIN selected /\ ~Blocks(Current)
         /\ Current.ccache = CCacheAPI /\ spent < StatusTimeout
    \/ pc = "kinit" /\ spent < AcquireTimeout
    \/ Prompting

(* One unit of time passes on the ticker, which keeps at most one tick that
   nobody has received, and in the running child process. *)
TimerTick ==
    /\ Idle
    /\ IF until = 1
       THEN until' = interval /\ fired' = TRUE
       ELSE until' = (IF until > 1 THEN until - 1 ELSE until) /\ UNCHANGED fired
    /\ spent' = IF pc \in {"poll", "kinit"} THEN spent + 1 ELSE spent
    /\ UNCHANGED <<file, pc, selected, at, pw, err, blocked, interval, stopping, moved>>

=============================================================================
