-------------------------------- MODULE Agent --------------------------------
(***************************************************************************)
(* The LaunchAgent as a whole: the `service` verbs of module Service, the    *)
(* daemon of module Process, and launchd between them, which starts, restarts *)
(* and ends the process by the keys of the plist template.                    *)
(*                                                                            *)
(*   RunAtLoad                      a job that is loaded starts at once       *)
(*   KeepAlive/SuccessfulExit=false a process that ends is started again,     *)
(*                                  unless it exited with 0                   *)
(*   ThrottleInterval               but not at once                           *)
(***************************************************************************)
EXTENDS Service

CONSTANT Configs

ASSUME AgentAssumption == Configs \subseteq {"bad", "good", "crashing"}

VARIABLES
    proc, term, doomed, config,  \* those of Process
    due,    \* launchd is to start the process: "now", "later" when throttled, or "no"
    asked   \* history: a signal has asked the running process, or the last, to stop

P == INSTANCE Process

process == <<proc, term, doomed, config>>
agentVars == <<process, due, asked>>
allVars == <<vars, agentVars>>

AgentTypeOK ==
    /\ TypeOK
    /\ P!ProcessTypeOK
    /\ due \in {"no", "later", "now"}
    /\ asked \in BOOLEAN
    /\ proc \in P!Alive => due = "no"

AgentInit ==
    /\ Init
    /\ P!ProcessInit
    /\ due = "no"
    /\ asked = FALSE

-----------------------------------------------------------------------------
(* launchd. *)

\* RunAtLoad.
RunAtLoad ==
    /\ due' = "now"
    /\ asked' = FALSE
    /\ UNCHANGED process

\* launchd begins to tear a job down by asking its process to stop.
AsksToStop ==
    /\ asked' = TRUE
    /\ IF proc \in P!Alive THEN P!Signalled ELSE UNCHANGED process
    /\ UNCHANGED due

\* What launchd makes of the step a verb has taken.
Follows ==
    CASE job' = job -> UNCHANGED agentVars
      [] job' # job /\ job' = "loaded" -> RunAtLoad
      [] job' # job /\ job' = "unloading" -> AsksToStop

\* Mutant of Restarts: KeepAlive/Crashed, which a process that exits is no case of.
RestartsCrashed == due' = IF proc' = "down" THEN "later" ELSE "no"

\* KeepAlive, once the process has ended.
Restarts == due' = IF proc' = "exited" THEN "no" ELSE "later"

\* Mutant of Spawn: a start that succeeds stays due.
SpawnStaysDue ==
    /\ job # "unloaded"
    /\ due = "now"
    /\ asked' = FALSE
    /\ \/ P!Start /\ UNCHANGED due
       \/ P!StartFails /\ Restarts
    /\ UNCHANGED vars

\* While the job is torn down launchd goes on starting its process.
Spawn ==
    /\ job # "unloaded"
    /\ due = "now"
    /\ asked' = FALSE
    /\ \/ P!Start /\ due' = "no"
       \/ P!StartFails /\ Restarts
    /\ UNCHANGED vars

ThrottleEnds ==
    /\ due = "later"
    /\ due' = "now"
    /\ UNCHANGED <<vars, process, asked>>

\* The job is gone when its process is.
Unloads ==
    /\ TornDown
    /\ proc \in P!Ended
    /\ due' = "no"
    /\ UNCHANGED <<process, asked>>

-----------------------------------------------------------------------------
(* The process, and what happens to it. *)

Runs ==
    /\ P!ProcessWorks
    /\ IF proc' \in P!Ended THEN Restarts ELSE UNCHANGED due
    /\ UNCHANGED <<vars, asked>>

\* `kill` with the process's number.
UserTerminates ==
    /\ P!Signalled
    /\ asked' = TRUE
    /\ UNCHANGED <<vars, due>>

\* A crash, kill -9, or launchd's own SIGKILL after a stop that takes too long.
Dies ==
    /\ P!Killed
    /\ Restarts
    /\ UNCHANGED <<vars, asked>>

Edits ==
    /\ \E c \in Configs : P!ConfigChanges(c)
    /\ UNCHANGED <<vars, due, asked>>

\* The machine restarts: no process is left, and what is installed is loaded.
Reboots ==
    /\ Relogin
    /\ IF proc \in P!Alive THEN P!Killed ELSE UNCHANGED process
    /\ due' = IF job' = "loaded" THEN "now" ELSE "no"
    /\ asked' = FALSE

-----------------------------------------------------------------------------
(* The verbs.  An install goes on only with a config that loads. *)

VerbSteps ==
    /\ \E k \in Caller :
         \/ \E v \in Verb : Invoke(k, v)
         \/ Proceeds(k) /\ (at[k] = "prepare" /\ at'[k] = "compare" => config # "bad")
         \/ Killed(k)
    /\ Follows

AgentNext ==
    \/ VerbSteps
    \/ Spawn \/ ThrottleEnds \/ Unloads
    \/ Runs \/ UserTerminates \/ Dies
    \/ Edits \/ Reboots

AgentSpec == AgentInit /\ [][AgentNext]_allVars

(* launchd's throttle ends, and a start that could succeed again and again
   does in the end: the log cannot be opened only so often. *)
AgentFairness ==
    /\ WF_allVars(ThrottleEnds)
    /\ SF_allVars(Spawn /\ P!Start)

AgentFairSpec == AgentSpec /\ AgentFairness

-----------------------------------------------------------------------------
(* Properties. *)

\* A loaded job is never forgotten: its process runs, or launchd is to start it,
\* or somebody asked the process to stop.
NeverForgotten ==
    job = "loaded" /\ proc \in P!Ended /\ ~asked => due # "no"

\* What is not loaded does not run, and will not be started.
UnloadedIsGone == job = "unloaded" => proc \in P!Ended /\ due = "no"

\* A stop is a real stop, and so is the one in an uninstall: no process is left,
\* however it was caught, and none comes back.
StopIsReal ==
    [][\A k \in Caller :
         Returns(k, "stop", "ok") \/ Returns(k, "uninstall", "ok")
           => proc' \in P!Ended /\ due' = "no"]_allVars

\* However it failed before, once the config works and the job stays loaded the
\* daemon runs again and again, as long as nobody asks it to stop.
RepairBringsBack ==
    <>[](job = "loaded" /\ config = "good" /\ ~asked) => []<>(proc \in P!Alive)

=============================================================================
