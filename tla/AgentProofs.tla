----------------------------- MODULE AgentProofs -----------------------------
(***************************************************************************)
(* Theorems about Agent: launchd never forgets a loaded job, and a stop that  *)
(* reports success leaves no process.                                         *)
(***************************************************************************)
EXTENDS Agent, ServiceProofs

\* What a verb can do to the job: load it, or begin to tear it down.
LEMMA VerbsAndJob ==
    ASSUME NEW k \in Caller, Proceeds(k) \/ Killed(k) \/ (\E v \in Verb : Invoke(k, v))
    PROVE  \/ job' = job
           \/ job = "unloaded" /\ job' = "loaded"
           \/ job = "loaded" /\ job' = "unloading"
<1>1. CASE Bootout(k)
    BY <1>1 DEF Bootout
<1>2. CASE Bootstrap(k)
    BY <1>2 DEF Bootstrap, Load
<1>3. CASE Killed(k) \/ \E v \in Verb : Invoke(k, v)
    BY <1>3 DEF Killed, Invoke, disk
<1>4. CASE Prepare(k) \/ Compare(k) \/ Same(k) \/ Check(k) \/ WaitUnloaded(k) \/ Stat(k) \/ Already(k)
    BY <1>4 DEF Prepare, Compare, Same, Check, WaitUnloaded, Stat, Already, disk
<1>5. CASE Truncate(k) \/ Write(k) \/ Remove(k)
    BY <1>5 DEF Truncate, Write, Remove
<1> QED BY <1>1, <1>2, <1>3, <1>4, <1>5 DEF Proceeds

-----------------------------------------------------------------------------
(* The agent composes the verbs with a process. *)

\* The invariant: what NeverForgotten needs to know of the steps that may end
\* the process or the job.
Minds ==
    /\ P!ProcessTypeOK
    /\ NeverForgotten
    /\ UnloadedIsGone
    /\ term => asked
    /\ proc \in P!Alive => due = "no"

LEMMA MindsInit == ASSUME AgentInit PROVE Minds
BY AgentAssumption DEF AgentInit, Init, Minds, NeverForgotten, UnloadedIsGone, P!ProcessInit,
       P!ProcessTypeOK, P!Alive, P!Ended, P!Config

\* What launchd makes of a verb's step.
LEMMA MindsFollows ==
    ASSUME Minds, Follows,
           \/ job' = job
           \/ job = "unloaded" /\ job' = "loaded"
           \/ job = "loaded" /\ job' = "unloading"
    PROVE  Minds'
<1> USE DEF Minds, P!ProcessTypeOK, P!Alive, P!Ended, P!Config, NeverForgotten, UnloadedIsGone
<1>1. CASE job' = job
    BY <1>1 DEF Follows, agentVars, process
<1>2. CASE job = "unloaded" /\ job' = "loaded"
    BY <1>2 DEF Follows, RunAtLoad, process
<1>3. CASE job = "loaded" /\ job' = "unloading"
    <2>1. CASE proc \in P!Alive
        BY <1>3, <2>1 DEF Follows, AsksToStop, P!Signalled
    <2>2. CASE proc \notin P!Alive
        BY <1>3, <2>2 DEF Follows, AsksToStop, process
    <2> QED BY <2>1, <2>2
<1> QED BY <1>1, <1>2, <1>3

LEMMA MindsStep ==
    ASSUME Minds, [AgentNext]_allVars
    PROVE  Minds'
<1> USE DEF Minds, P!ProcessTypeOK, P!Alive, P!Ended, P!Config, NeverForgotten, UnloadedIsGone
<1>1. CASE UNCHANGED allVars
    BY <1>1 DEF allVars, agentVars, process, vars, disk
<1>2. CASE VerbSteps
    BY <1>2, VerbsAndJob, MindsFollows DEF VerbSteps
<1>3. CASE Spawn
    BY <1>3 DEF Spawn, P!Start, P!StartFails, P!Ends, P!procVars, Restarts, vars, disk
<1>4. CASE ThrottleEnds
    BY <1>4 DEF ThrottleEnds, process, vars, disk
<1>5. CASE Unloads
    BY <1>5 DEF Unloads, TornDown, process
<1>6. CASE Runs
    <2>1. job' = job
        BY <1>6 DEF Runs, vars, disk
    <2>2. asked' = asked
        BY <1>6 DEF Runs
    <2>3. proc \in P!Alive /\ config' = config
        BY <1>6 DEF Runs, P!ProcessWorks, P!EndFirst, P!Poll, P!EndPoll, P!Exit
    <2>4. job # "unloaded"
        BY <2>3
    <2>5. CASE P!EndFirst /\ doomed
        <3>1. proc' = "panicked" /\ term' = FALSE /\ doomed' = FALSE /\ due' = "later"
            BY <1>6, <2>5 DEF Runs, Restarts, P!EndFirst, P!Ends
        <3> QED BY <2>1, <2>3, <2>4, <3>1
    <2>6. CASE (P!EndFirst /\ ~doomed) \/ P!Poll \/ P!EndPoll
        <3>1. proc' \in P!Alive
            BY <2>6 DEF P!EndFirst, P!Poll, P!EndPoll
        <3>2. term' = term
            BY <2>6 DEF P!EndFirst, P!Poll, P!EndPoll
        <3>3. doomed' = doomed
            BY <2>6 DEF P!EndFirst, P!Poll, P!EndPoll
        <3>4. term' => asked'
            BY <2>2, <3>2
        <3>5. due' = due
            BY <1>6, <3>1 DEF Runs
        <3> QED BY <2>1, <2>3, <2>4, <3>1, <3>2, <3>3, <3>4, <3>5
    <2>7. CASE P!Exit
        <3>1. proc' = "exited" /\ term' = FALSE /\ doomed' = FALSE /\ term
            BY <2>7 DEF P!Exit, P!Ends
        <3>2. asked'
            BY <2>2, <3>1
        <3> QED BY <2>1, <2>3, <2>4, <3>1, <3>2
    <2> QED BY <1>6, <2>5, <2>6, <2>7 DEF Runs, P!ProcessWorks
<1>7. CASE UserTerminates
    BY <1>7 DEF UserTerminates, P!Signalled, vars, disk
<1>8. CASE Dies
    BY <1>8 DEF Dies, P!Killed, P!Ends, Restarts, vars, disk
<1>9. CASE Edits
    BY <1>9, AgentAssumption DEF Edits, P!ConfigChanges, P!procVars, vars, disk
<1>10. CASE Reboots
    <2>1. job' \in {"loaded", "unloaded"}
        BY <1>10 DEF Reboots, Relogin, Load
    <2> QED BY <1>10, <2>1 DEF Reboots, P!Killed, P!Ends, process
<1> QED
    BY <1>1, <1>2, <1>3, <1>4, <1>5, <1>6, <1>7, <1>8, <1>9, <1>10 DEF AgentNext

\* Whatever verbs run, however the daemon ends and whatever its config is then,
\* launchd does not forget a loaded job whose process nobody asked to stop.
THEOREM Remembered == AgentSpec => []NeverForgotten
<1>1. Minds => NeverForgotten
    BY DEF Minds
<1> QED BY <1>1, MindsInit, MindsStep, PTL DEF AgentSpec

-----------------------------------------------------------------------------
(* The agent implements both of its parts. *)

LEMMA VerbsRefined == ASSUME [AgentNext]_allVars PROVE [Next]_vars
<1>1. CASE UNCHANGED allVars
    BY <1>1 DEF allVars
<1>2. CASE VerbSteps
    BY <1>2 DEF VerbSteps, Next
<1>3. CASE Unloads \/ Reboots
    BY <1>3 DEF Unloads, Reboots, Next
<1>4. CASE Spawn \/ ThrottleEnds \/ Runs \/ UserTerminates \/ Dies \/ Edits
    BY <1>4 DEF Spawn, ThrottleEnds, Runs, UserTerminates, Dies, Edits
<1> QED BY <1>1, <1>2, <1>3, <1>4 DEF AgentNext

LEMMA ProcessRefined ==
    ASSUME [AgentNext]_allVars
    PROVE  [P!ProcessNext]_<<P!procVars, config>>
<1> USE DEF P!procVars, process, P!ProcessNext
<1>1. CASE UNCHANGED allVars
    BY <1>1 DEF allVars, agentVars
<1>2. CASE VerbSteps
    <2>1. PICK k \in Caller : Proceeds(k) \/ Killed(k) \/ (\E v \in Verb : Invoke(k, v))
        BY <1>2 DEF VerbSteps
    <2>2. \/ job' = job
          \/ job' # job /\ job' = "loaded"
          \/ job' # job /\ job' = "unloading"
        BY <2>1, VerbsAndJob
    <2>3. UNCHANGED process \/ AsksToStop
        BY <1>2, <2>2 DEF VerbSteps, Follows, RunAtLoad, agentVars
    <2> QED BY <2>3 DEF AsksToStop
<1>3. CASE Spawn \/ Runs \/ UserTerminates \/ Dies \/ Edits
    BY <1>3 DEF Spawn, Runs, UserTerminates, Dies, Edits
<1>4. CASE ThrottleEnds \/ Unloads
    BY <1>4 DEF ThrottleEnds, Unloads
<1>5. CASE Reboots
    BY <1>5 DEF Reboots
<1> QED BY <1>1, <1>2, <1>3, <1>4, <1>5 DEF AgentNext

\* Under launchd the verbs take no step they do not take by themselves, nor
\* does the process: what holds of the one or the other holds of the agent.
THEOREM AgentComposes == AgentSpec => Spec /\ P!ProcessSpec
<1>1. AgentInit => Init /\ P!ProcessInit
    BY DEF AgentInit
<1> QED BY <1>1, VerbsRefined, ProcessRefined, PTL DEF AgentSpec, Spec, P!ProcessSpec

\* What launchd keeps has its type after every step.
LEMMA LaunchdTypes ==
    ASSUME AgentTypeOK, [AgentNext]_allVars
    PROVE  due' \in {"no", "later", "now"} /\ asked' \in BOOLEAN
<1> USE DEF AgentTypeOK
<1>1. CASE UNCHANGED allVars
    BY <1>1 DEF allVars, agentVars
<1>2. CASE VerbSteps
    <2>1. job' = job \/ job' = "loaded" \/ job' = "unloading"
        BY <1>2, VerbsAndJob DEF VerbSteps
    <2> QED BY <1>2, <2>1 DEF VerbSteps, Follows, RunAtLoad, AsksToStop, agentVars
<1>3. CASE Spawn \/ ThrottleEnds \/ Unloads
    BY <1>3 DEF Spawn, ThrottleEnds, Unloads, Restarts
<1>4. CASE Runs \/ UserTerminates \/ Dies
    BY <1>4 DEF Runs, UserTerminates, Dies, Restarts
<1>5. CASE Edits \/ Reboots
    BY <1>5 DEF Edits, Reboots
<1> QED BY <1>1, <1>2, <1>3, <1>4, <1>5 DEF AgentNext

\* Every variable of the agent keeps its type, however many verbs run at once
\* and whether or not launchctl print can be trusted: no process that has ended
\* carries a signal or an interval over to the next, launchd never has a start due
\* beside a process that runs, and no wait polls too often.
THEOREM AgentTypes == AgentSpec => []AgentTypeOK
<1> DEFINE IInv == AgentTypeOK /\ Minds
<1>1. AgentInit => IInv
    <2>1. Init => TypeOK
        BY ServiceAssumption DEF Init, TypeOK, Step
    <2> QED BY <2>1, MindsInit DEF AgentInit, AgentTypeOK, Minds
<1>2. IInv /\ [AgentNext]_allVars => IInv'
    <2> SUFFICES ASSUME IInv, [AgentNext]_allVars PROVE IInv'
        OBVIOUS
    <2>1. TypeOK'
        BY VerbsRefined, ServiceTypeStep DEF AgentTypeOK
    <2>2. Minds'
        BY MindsStep
    <2> QED BY <2>1, <2>2, LaunchdTypes DEF AgentTypeOK, Minds
<1> QED BY <1>1, <1>2, PTL DEF AgentSpec

\* With one verb at a time, a stop or an uninstall that reports success leaves
\* no process, and none that launchd would start.
THEOREM StopStops ==
    ASSUME PrintMayFail = FALSE, \A j, k \in Caller : j = k
    PROVE  AgentSpec => StopIsReal
<1>1. AgentInit => TypeOK /\ Progress /\ Minds
    <2>1. Init => TypeOK
        BY ServiceAssumption DEF Init, TypeOK, Step
    <2>2. Init => Progress
        BY DEF Init, Progress
    <2> QED BY <2>1, <2>2, MindsInit DEF AgentInit
<1>2. TypeOK /\ Progress /\ Minds /\ [AgentNext]_allVars => TypeOK' /\ Progress' /\ Minds'
    BY VerbsRefined, ServiceTypeStep, ProgressStep, MindsStep
<1>3. TypeOK /\ Progress /\ Minds /\ [AgentNext]_allVars
        => [\A k \in Caller :
              Returns(k, "stop", "ok") \/ Returns(k, "uninstall", "ok")
                => proc' \in P!Ended /\ due' = "no"]_allVars
    <2> SUFFICES ASSUME TypeOK, Progress, Minds, AgentNext, NEW k \in Caller,
                        Returns(k, "stop", "ok") \/ Returns(k, "uninstall", "ok")
                 PROVE  proc' \in P!Ended /\ due' = "no"
        OBVIOUS
    <2>1. [Next]_vars /\ Minds'
        BY VerbsRefined, MindsStep
    <2>2. vars' # vars
        BY DEF Returns, vars
    <2>3. Proceeds(k)
        BY <2>1, <2>2, OwnReturn
    <2>4. job' = "unloaded"
        BY <2>3, StopReturns, UninstallReturns
    <2> QED BY <2>1, <2>4 DEF Minds, UnloadedIsGone
<1> QED BY <1>1, <1>2, <1>3, PTL DEF AgentSpec, StopIsReal

\* However many verbs run at once, a stop that reports success leaves no process,
\* as long as launchctl print answers: only the stop in an uninstall needs the
\* verb to be alone, a start beside it being free to load the job again.
THEOREM StopStopsForMany ==
    ASSUME PrintMayFail = FALSE
    PROVE  AgentSpec => [][\A k \in Caller : Returns(k, "stop", "ok")
                                               => proc' \in P!Ended /\ due' = "no"]_allVars
<1>1. AgentInit => TypeOK /\ Roles /\ Minds
    <2>1. Init => TypeOK
        BY ServiceAssumption DEF Init, TypeOK, Step
    <2>2. Init => Roles
        BY DEF Init, Roles
    <2> QED BY <2>1, <2>2, MindsInit DEF AgentInit
<1>2. TypeOK /\ Roles /\ Minds /\ [AgentNext]_allVars => TypeOK' /\ Roles' /\ Minds'
    BY VerbsRefined, ServiceTypeStep, RolesStep, MindsStep
<1>3. TypeOK /\ Roles /\ Minds /\ [AgentNext]_allVars
        => [\A k \in Caller : Returns(k, "stop", "ok") => proc' \in P!Ended /\ due' = "no"]_allVars
    <2> SUFFICES ASSUME TypeOK, Roles, Minds, AgentNext, NEW k \in Caller, Returns(k, "stop", "ok")
                 PROVE  proc' \in P!Ended /\ due' = "no"
        OBVIOUS
    <2>1. [Next]_vars /\ Minds'
        BY VerbsRefined, MindsStep
    <2>2. Next
        BY <2>1 DEF Returns, vars
    <2>3. job' = "unloaded"
        BY <2>2, StopSawNone
    <2> QED BY <2>1, <2>3 DEF Minds, UnloadedIsGone
<1> QED BY <1>1, <1>2, <1>3, PTL DEF AgentSpec

=============================================================================
