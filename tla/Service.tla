------------------------------ MODULE Service -------------------------------
(***************************************************************************)
(* internal/service: the `service` verbs - install, uninstall, start, stop,  *)
(* restart - as processes that share a plist on disk and a launchd job.      *)
(* Every launchctl call and every file operation is a step of its own:       *)
(* between two of them another invocation, launchd or a reboot can act.      *)
(*                                                                           *)
(*   install:   prepare - compare - same - truncate - write - STOP - START   *)
(*   uninstall: STOP - remove      stop: STOP      start: START              *)
(*   restart:   STOP - START                                                 *)
(*   STOP = check - bootout - wait          START = stat - already - bootstrap *)
(***************************************************************************)
EXTENDS Naturals

CONSTANTS
    Caller,       \* concurrent invocations of the command
    Plist,        \* the plists that Render may produce
    NoPlist,      \* no file at PlistPath, and the plist of no job
    Torn,         \* a truncated file, as os.WriteFile leaves it when interrupted
    MaxPolls,     \* polls of waitUnloaded within bootoutTimeout
    PrintMayFail  \* `launchctl print` may fail or time out for a registered job

ASSUME ServiceAssumption ==
    /\ NoPlist \notin Plist \cup {Torn}
    /\ Torn \notin Plist
    /\ MaxPolls \in Nat
    /\ PrintMayFail \in BOOLEAN

VARIABLES
    plist,   \* the file at PlistPath
    job,     \* launchd's view of the job
    source,  \* the plist the job was bootstrapped from
    verb,    \* [Caller -> the verb it runs, or "none"]
    want,    \* [Caller -> what Render returned to an install, NoPlist otherwise]
    at,      \* [Caller -> the step it is about to take]
    polls,   \* [Caller -> polls of the running waitUnloaded]
    result,  \* [Caller -> how its last invocation ended]
    fresh    \* history: the callers since whose write the job has been loaded anew

disk == <<plist, job, source>>
vars == <<disk, verb, want, at, polls, result, fresh>>

Verb == {"install", "uninstall", "start", "stop", "restart"}
Step == {"idle", "prepare", "compare", "same", "truncate", "write", "check", "bootout", "wait",
         "remove", "stat", "already", "bootstrap"}

TypeOK ==
    /\ plist \in Plist \cup {NoPlist, Torn}
    /\ job \in {"unloaded", "loaded", "unloading"}
    /\ source \in Plist \cup {NoPlist}
    /\ source = NoPlist <=> job = "unloaded"
    /\ verb \in [Caller -> Verb \cup {"none"}]
    /\ want \in [Caller -> Plist \cup {NoPlist}]
    /\ at \in [Caller -> Step]
    /\ polls \in [Caller -> 0 .. MaxPolls]
    /\ result \in [Caller -> {"none", "ok", "unchanged", "error", "killed"}]
    /\ fresh \subseteq Caller

Init ==
    /\ plist = NoPlist
    /\ job = "unloaded"
    /\ source = NoPlist
    /\ verb = [k \in Caller |-> "none"]
    /\ want = [k \in Caller |-> NoPlist]
    /\ at = [k \in Caller |-> "idle"]
    /\ polls = [k \in Caller |-> 0]
    /\ result = [k \in Caller |-> "ok"]
    /\ fresh = {}

-----------------------------------------------------------------------------
Goto(k, step) ==
    /\ at' = [at EXCEPT ![k] = step]
    /\ UNCHANGED <<verb, want, polls, result>>

Return(k, r) ==
    /\ at' = [at EXCEPT ![k] = "idle"]
    /\ result' = [result EXCEPT ![k] = r]
    /\ polls' = [polls EXCEPT ![k] = 0]
    /\ verb' = [verb EXCEPT ![k] = "none"]
    /\ want' = [want EXCEPT ![k] = NoPlist]

\* What Loaded can answer: a job being torn down is still registered.
Loaded == {job # "unloaded"} \cup IF PrintMayFail THEN {FALSE} ELSE {}

\* launchd takes the job from the plist on disk, or has none.
Load ==
    /\ job' = "loaded"
    /\ source' = plist
    /\ fresh' = Caller

(* The command line. *)
Invoke(k, v) ==
    /\ at[k] = "idle"
    /\ verb' = [verb EXCEPT ![k] = v]
    /\ at' = [at EXCEPT ![k] = CASE v = "install" -> "prepare"
                                 [] v = "start" -> "stat"
                                 [] OTHER -> "check"]
    /\ result' = [result EXCEPT ![k] = "none"]
    /\ UNCHANGED <<disk, want, polls, fresh>>

(* Before Install touches anything: the prepare function loads the config and
   fixes the arguments, Render makes the plist of them and of the binary's path,
   and the directories are made.  A config that does not load, a binary of
   `go run` and a directory that cannot be made all end the install. *)
Prepare(k) ==
    /\ at[k] = "prepare"
    /\ \/ Return(k, "error")
       \/ /\ \E w \in Plist : want' = [want EXCEPT ![k] = w]
          /\ at' = [at EXCEPT ![k] = "compare"]
          /\ UNCHANGED <<verb, polls, result>>
    /\ UNCHANGED <<disk, fresh>>

(* Install: nothing to do if the plist is already there and the job loaded; one
   that cannot be read is written anew. *)
Compare(k) ==
    /\ at[k] = "compare"
    /\ (plist = want[k] /\ Goto(k, "same")) \/ Goto(k, "truncate")
    /\ UNCHANGED <<disk, fresh>>

Same(k) ==
    /\ at[k] = "same"
    /\ \E loaded \in Loaded : IF loaded THEN Return(k, "unchanged") ELSE Goto(k, "truncate")
    /\ UNCHANGED <<disk, fresh>>

\* os.WriteFile fails, or truncates and then writes.
Truncate(k) ==
    /\ at[k] = "truncate"
    /\ \/ Return(k, "error") /\ UNCHANGED plist
       \/ Goto(k, "write") /\ plist' = Torn
    /\ UNCHANGED <<job, source, fresh>>

\* Mutant of Write: Install starts without stopping first.
WriteThenStart(k) ==
    /\ at[k] = "write"
    /\ \/ Return(k, "error") /\ UNCHANGED <<plist, fresh>>
       \/ Goto(k, "stat") /\ plist' = want[k] /\ fresh' = fresh \ {k}
    /\ UNCHANGED <<job, source>>

Write(k) ==
    /\ at[k] = "write"
    /\ \/ Return(k, "error") /\ UNCHANGED <<plist, fresh>>
       \/ Goto(k, "check") /\ plist' = want[k] /\ fresh' = fresh \ {k}
    /\ UNCHANGED <<job, source>>

\* What follows a Stop that returned nil.
Stopped(k) ==
    CASE verb[k] = "stop" -> Return(k, "ok")
      [] verb[k] = "uninstall" -> Goto(k, "remove")
      [] OTHER -> Goto(k, "stat")

(* Stop. *)
Check(k) ==
    /\ at[k] = "check"
    /\ \E loaded \in Loaded : IF loaded THEN Goto(k, "bootout") ELSE Stopped(k)
    /\ UNCHANGED <<disk, fresh>>

\* Mutant of Bootout: Stop does not wait for the unload.
BootoutOnly(k) ==
    /\ at[k] = "bootout"
    /\ Stopped(k)
    /\ \/ job = "loaded" /\ job' = "unloading"
       \/ UNCHANGED job
    /\ UNCHANGED <<plist, source, fresh>>

\* bootout returns once the unload is requested; it may fail, and its error
\* does not change what Stop does next.
Bootout(k) ==
    /\ at[k] = "bootout"
    /\ Goto(k, "wait")
    /\ \/ job = "loaded" /\ job' = "unloading"
       \/ UNCHANGED job
    /\ UNCHANGED <<plist, source, fresh>>

\* Mutants of WaitUnloaded: one poll too many; no deadline; a bootout more after it.
WaitOncePastDeadline(k) ==
    /\ at[k] = "wait"
    /\ \E loaded \in Loaded :
         IF ~loaded THEN Stopped(k)
         ELSE IF polls[k] > MaxPolls THEN Return(k, "error")
         ELSE /\ polls' = [polls EXCEPT ![k] = @ + 1]
              /\ UNCHANGED <<verb, want, at, result>>
    /\ UNCHANGED <<disk, fresh>>

WaitForever(k) ==
    /\ at[k] = "wait"
    /\ FALSE \in Loaded
    /\ Stopped(k)
    /\ UNCHANGED <<disk, fresh>>

WaitAgain(k) ==
    /\ at[k] = "wait"
    /\ \E loaded \in Loaded :
         IF ~loaded THEN Stopped(k)
         ELSE /\ IF polls[k] = MaxPolls
                 THEN at' = [at EXCEPT ![k] = "bootout"] /\ polls' = [polls EXCEPT ![k] = 0]
                 ELSE polls' = [polls EXCEPT ![k] = @ + 1] /\ UNCHANGED at
              /\ UNCHANGED <<verb, want, result>>
    /\ UNCHANGED <<disk, fresh>>

\* waitUnloaded, and what Stop makes of it: the job is gone, or the deadline
\* has passed with the job still there.
WaitUnloaded(k) ==
    /\ at[k] = "wait"
    /\ \E loaded \in Loaded :
         IF ~loaded THEN Stopped(k)
         ELSE IF polls[k] = MaxPolls THEN Return(k, "error")
         ELSE /\ polls' = [polls EXCEPT ![k] = @ + 1]
              /\ UNCHANGED <<verb, want, at, result>>
    /\ UNCHANGED <<disk, fresh>>

(* The end of Uninstall. *)
Remove(k) ==
    /\ at[k] = "remove"
    /\ \/ plist' = NoPlist /\ Return(k, "ok")
       \/ UNCHANGED plist /\ Return(k, "error")
    /\ UNCHANGED <<job, source, fresh>>

(* Start.  The stat finds no plist, or fails for another reason. *)
Stat(k) ==
    /\ at[k] = "stat"
    /\ (plist # NoPlist /\ Goto(k, "already")) \/ Return(k, "error")
    /\ UNCHANGED <<disk, fresh>>

Already(k) ==
    /\ at[k] = "already"
    /\ \E loaded \in Loaded : IF loaded THEN Return(k, "ok") ELSE Goto(k, "bootstrap")
    /\ UNCHANGED <<disk, fresh>>

\* bootstrap fails for a registered job and for a plist launchd cannot read;
\* its answer may be lost to the timeout.
Bootstrap(k) ==
    /\ at[k] = "bootstrap"
    /\ \/ /\ job = "unloaded" /\ plist \in Plist
          /\ Load
          /\ Return(k, "ok") \/ Return(k, "error")
       \/ /\ Return(k, "error")
          /\ UNCHANGED <<job, source, fresh>>
    /\ UNCHANGED plist

-----------------------------------------------------------------------------
(* launchd, the user and the machine. *)

TornDown ==
    /\ job = "unloading"
    /\ job' = "unloaded"
    /\ source' = NoPlist
    /\ UNCHANGED <<plist, verb, want, at, polls, result, fresh>>

\* Ctrl-C, or the end of the terminal session.
Killed(k) ==
    /\ at[k] # "idle"
    /\ Return(k, "killed")
    /\ UNCHANGED <<disk, fresh>>

\* A reboot ends every invocation, and the next login loads what is installed.
Relogin ==
    /\ IF plist \in Plist THEN Load ELSE job' = "unloaded" /\ source' = NoPlist /\ UNCHANGED fresh
    /\ at' = [k \in Caller |-> "idle"]
    /\ polls' = [k \in Caller |-> 0]
    /\ verb' = [k \in Caller |-> "none"]
    /\ want' = [k \in Caller |-> NoPlist]
    /\ result' = [k \in Caller |-> IF at[k] = "idle" THEN result[k] ELSE "killed"]
    /\ UNCHANGED plist

Proceeds(k) ==
    \/ Prepare(k) \/ Compare(k) \/ Same(k) \/ Truncate(k) \/ Write(k)
    \/ Check(k) \/ Bootout(k) \/ WaitUnloaded(k) \/ Remove(k)
    \/ Stat(k) \/ Already(k) \/ Bootstrap(k)

Next ==
    \/ \E k \in Caller :
         \/ \E v \in Verb : Invoke(k, v)
         \/ Proceeds(k)
         \/ Killed(k)
    \/ TornDown
    \/ Relogin

Spec == Init /\ [][Next]_vars

FairSpec == Spec /\ \A k \in Caller : WF_vars(Proceeds(k))

-----------------------------------------------------------------------------
(* Properties. *)

\* The step is the return of k's invocation of verb v with result r.
Returns(k, v, r) == at[k] # "idle" /\ at'[k] = "idle" /\ verb[k] = v /\ result'[k] = r

\* An install, restart, uninstall or stop that reports success has brought about what
\* it reports - whatever a killed or timed-out invocation before it had left behind.
\* Of a start no more can be said than that the job is registered: one that a stop
\* killed in its wait has left on its way out passes for started, and then is gone.
SuccessMeansDone ==
    [][\A k \in Caller :
         /\ Returns(k, "install", "ok") => job' = "loaded" /\ source' = want[k] /\ plist' = want[k]
         /\ Returns(k, "restart", "ok") => job' = "loaded" /\ source' = plist'
         /\ Returns(k, "start", "ok") => job' \in {"loaded", "unloading"}
         /\ Returns(k, "uninstall", "ok") => job' = "unloaded" /\ plist' = NoPlist
         /\ Returns(k, "stop", "ok") => job' = "unloaded"]_vars

\* A registered job always has a plist: `service status`, which looks for the one
\* and then for the other, sees a job without a plist only when the plist has been
\* written between its two looks.
NoOrphan == job # "unloaded" => plist # NoPlist

\* Whatever other invocations do meanwhile, an install that reports a change
\* does not leave a job running from a plist older than the one it wrote.
InstallRetiresOldJob ==
    [][\A k \in Caller :
         Returns(k, "install", "ok") /\ job' # "unloaded" => k \in fresh']_vars

\* Every invocation comes to an end, even while others undo what it waits for.
EveryVerbEnds == \A k \in Caller : at[k] # "idle" ~> at[k] = "idle"

\* How many steps a verb can still take: those that follow in its order, and the
\* polls its wait has left.
Rank ==
    [idle |-> 0, bootstrap |-> 1, already |-> 2, stat |-> 3, remove |-> 3, wait |-> 4,
     bootout |-> 5, check |-> 6, write |-> 7, truncate |-> 8, same |-> 9, compare |-> 10,
     prepare |-> 11]

StepsLeft(k) == IF at[k] = "idle" THEN 0 ELSE Rank[at[k]] + MaxPolls - polls[k]

\* No verb starts over: whatever others do meanwhile, and whatever launchctl
\* answers, each step of an invocation brings it closer to its end, and no step
\* of others sets it back.
EveryStepCounts ==
    [][\A k \in Caller :
         at[k] # "idle" => UNCHANGED <<at[k], polls[k]>> \/ StepsLeft(k)' < StepsLeft(k)]_vars

\* An install that finds nothing to change has the job running from its plist.
UnchangedMeansCurrent ==
    [][\A k \in Caller : Returns(k, "install", "unchanged") => source' = want[k]]_vars

\* Stop unloads the job.
StopMeansUnloaded ==
    [][\A k \in Caller : Returns(k, "stop", "ok") => job' # "loaded"]_vars

=============================================================================
