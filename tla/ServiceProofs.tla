--------------------------- MODULE ServiceProofs ----------------------------
(***************************************************************************)
(* Theorems about Service, for any number of concurrent invocations.        *)
(***************************************************************************)
EXTENDS Service, TLAPS

\* An install that has seen the old job go: a job that is registered now was
\* loaded after the install's plist was written.
OldJobRetired ==
    \A k \in Caller :
      /\ verb[k] = "install"
      /\ at[k] \in {"stat", "already", "bootstrap"}
      /\ job # "unloaded"
      => k \in fresh

\* The part of TypeOK the argument needs, and that only Uninstall removes the plist.
CallerTypes ==
    /\ at \in [Caller -> Step]
    /\ verb \in [Caller -> Verb \cup {"none"}]
    /\ result \in [Caller -> {"none", "ok", "unchanged", "error", "killed"}]
    /\ fresh \subseteq Caller
    /\ \A k \in Caller : at[k] = "remove" => verb[k] = "uninstall"

\* At first nobody has invoked anything.
LEMMA RetiredInit == Init => CallerTypes /\ OldJobRetired
BY DEF Init, CallerTypes, OldJobRetired, Step, Verb

\* Every step of every caller, of launchd and of the machine keeps old jobs retired.
LEMMA RetiredStep ==
    ASSUME PrintMayFail = FALSE
    PROVE  CallerTypes /\ OldJobRetired /\ [Next]_vars => CallerTypes' /\ OldJobRetired'
<1> SUFFICES ASSUME CallerTypes, OldJobRetired, [Next]_vars
             PROVE  CallerTypes' /\ OldJobRetired'
    OBVIOUS
<1> USE DEF CallerTypes, OldJobRetired
<1>1. CASE UNCHANGED vars
    BY <1>1 DEF vars, disk
<1>2. ASSUME NEW k \in Caller, NEW v \in Verb, Invoke(k, v)
      PROVE  CallerTypes' /\ OldJobRetired'
    BY <1>2 DEF Invoke, disk, Step
<1>3. ASSUME NEW k \in Caller, Prepare(k) \/ Compare(k) PROVE CallerTypes' /\ OldJobRetired'
    BY <1>3 DEF Prepare, Compare, Goto, Return, disk, Step
<1>4. ASSUME NEW k \in Caller, Same(k) \/ Truncate(k) \/ Write(k)
      PROVE  CallerTypes' /\ OldJobRetired'
    BY <1>4 DEF Same, Truncate, Write, Goto, Return, disk, Step
<1>5. ASSUME NEW k \in Caller, Check(k) \/ WaitUnloaded(k) PROVE CallerTypes' /\ OldJobRetired'
    BY <1>5 DEF Check, WaitUnloaded, Loaded, Stopped, Goto, Return, disk, Step, Verb
<1>6. ASSUME NEW k \in Caller, Bootout(k) PROVE CallerTypes' /\ OldJobRetired'
    BY <1>6 DEF Bootout, Goto, Step
<1>7. ASSUME NEW k \in Caller, Remove(k) \/ Stat(k) \/ Already(k)
      PROVE  CallerTypes' /\ OldJobRetired'
    BY <1>7 DEF Remove, Stat, Already, Goto, Return, disk, Step
<1>8. ASSUME NEW k \in Caller, Bootstrap(k) PROVE CallerTypes' /\ OldJobRetired'
    BY <1>8 DEF Bootstrap, Load, Return, Step
<1>9. ASSUME NEW k \in Caller, Killed(k) PROVE CallerTypes' /\ OldJobRetired'
    BY <1>9 DEF Killed, Return, disk, Step
<1>10. CASE TornDown
    BY <1>10 DEF TornDown
<1>11. CASE Relogin
    BY <1>11 DEF Relogin, Load, Step
<1> QED
    BY <1>1, <1>2, <1>3, <1>4, <1>5, <1>6, <1>7, <1>8, <1>9, <1>10, <1>11 DEF Next, Proceeds

\* Only Start can report an install's success: it found the job registered, or
\* it has just bootstrapped it.
LEMMA InstallReturns ==
    ASSUME CallerTypes, Next, NEW k \in Caller, Returns(k, "install", "ok")
    PROVE  Already(k) \/ Bootstrap(k)
<1>1. at[k] # "idle" /\ at'[k] = "idle" /\ verb[k] = "install" /\ result'[k] = "ok"
    BY DEF Returns
<1>2. ~TornDown /\ ~Relogin
    BY <1>1 DEF TornDown, Relogin
<1>3. PICK j \in Caller : (\E v \in Verb : Invoke(j, v)) \/ Proceeds(j) \/ Killed(j)
    BY <1>2 DEF Next
<1>4. j = k
    <2>1. ASSUME j # k PROVE at'[k] = at[k]
        BY <1>3, <2>1 DEF CallerTypes, Proceeds, Invoke, Prepare, Compare, Same, Truncate, Write, Check,
                          Bootout, WaitUnloaded, Stopped, Remove, Stat, Already, Bootstrap, Killed,
                          Goto, Return
    <2> QED BY <1>1, <2>1
<1>5. ASSUME NEW r, Return(k, r) PROVE r = "ok"
    BY <1>1, <1>5 DEF Return, CallerTypes
<1>6. ASSUME NEW step, step # "idle" PROVE ~Goto(k, step)
    BY <1>1, <1>6 DEF Goto, CallerTypes
<1>7. ~Stopped(k)
    BY <1>1, <1>6 DEF Stopped
<1>8. ~Killed(k) /\ ~(\E v \in Verb : Invoke(k, v))
    BY <1>1, <1>5 DEF Killed, Invoke
<1>9. ~Prepare(k) /\ ~Compare(k) /\ ~Bootout(k) /\ ~Stat(k)
    BY <1>1, <1>5, <1>6 DEF Prepare, Compare, Bootout, Stat, CallerTypes
<1>10. ~Same(k) /\ ~Truncate(k) /\ ~Write(k)
    BY <1>5, <1>6 DEF Same, Truncate, Write
<1>11. ~Remove(k)
    BY <1>1 DEF Remove, CallerTypes
<1>12. ~Check(k) /\ ~WaitUnloaded(k)
    BY <1>1, <1>5, <1>6, <1>7 DEF Check, WaitUnloaded
<1> QED BY <1>3, <1>4, <1>8, <1>9, <1>10, <1>11, <1>12 DEF Proceeds

\* With launchctl print answering, and whatever other invocations do meanwhile,
\* an install that reports a change leaves no job running from an older plist.
THEOREM InstallRetires ==
    ASSUME PrintMayFail = FALSE
    PROVE  Spec => InstallRetiresOldJob
<1> DEFINE IInv == CallerTypes /\ OldJobRetired
<1>1. Init => IInv
    BY RetiredInit
<1>2. IInv /\ [Next]_vars => IInv'
    BY RetiredStep
<1>3. IInv /\ [Next]_vars
        => [\A k \in Caller : Returns(k, "install", "ok") /\ job' # "unloaded" => k \in fresh']_vars
    <2> SUFFICES ASSUME IInv, Next, NEW k \in Caller, Returns(k, "install", "ok"), job' # "unloaded"
                 PROVE  k \in fresh'
        OBVIOUS
    <2>1. verb[k] = "install"
        BY DEF Returns
    <2>2. CASE Already(k)
        BY <2>1, <2>2 DEF Already, Loaded, OldJobRetired, disk
    <2>3. CASE Bootstrap(k)
        BY <2>1, <2>3 DEF Bootstrap, Load, OldJobRetired
    <2> QED BY <2>2, <2>3, InstallReturns
<1> QED BY <1>1, <1>2, <1>3, PTL DEF Spec, InstallRetiresOldJob

-----------------------------------------------------------------------------
(* Types. *)

\* What a caller's own steps do to what it keeps.
LEMMA GotoType ==
    ASSUME TypeOK, NEW k \in Caller, NEW step \in Step, Goto(k, step)
    PROVE  /\ at' \in [Caller -> Step] /\ verb' \in [Caller -> Verb \cup {"none"}]
           /\ want' \in [Caller -> Plist \cup {NoPlist}] /\ polls' \in [Caller -> 0 .. MaxPolls]
           /\ result' \in [Caller -> {"none", "ok", "unchanged", "error", "killed"}]
BY DEF Goto, TypeOK

LEMMA ReturnType ==
    ASSUME TypeOK, NEW k \in Caller, NEW r \in {"ok", "unchanged", "error", "killed"}, Return(k, r)
    PROVE  /\ at' \in [Caller -> Step] /\ verb' \in [Caller -> Verb \cup {"none"}]
           /\ want' \in [Caller -> Plist \cup {NoPlist}] /\ polls' \in [Caller -> 0 .. MaxPolls]
           /\ result' \in [Caller -> {"none", "ok", "unchanged", "error", "killed"}]
<1>1. 0 \in 0 .. MaxPolls
    BY ServiceAssumption
<1> QED BY <1>1 DEF Return, TypeOK, Step

LEMMA StoppedType ==
    ASSUME TypeOK, NEW k \in Caller, Stopped(k)
    PROVE  /\ at' \in [Caller -> Step] /\ verb' \in [Caller -> Verb \cup {"none"}]
           /\ want' \in [Caller -> Plist \cup {NoPlist}] /\ polls' \in [Caller -> 0 .. MaxPolls]
           /\ result' \in [Caller -> {"none", "ok", "unchanged", "error", "killed"}]
<1>1. Return(k, "ok") \/ Goto(k, "remove") \/ Goto(k, "stat")
    BY DEF Stopped
<1> QED BY <1>1, GotoType, ReturnType DEF Step

LEMMA ServiceTypeStep ==
    ASSUME TypeOK, [Next]_vars
    PROVE  TypeOK'
<1>1. CASE UNCHANGED vars
    BY <1>1 DEF vars, disk, TypeOK
<1>2. ASSUME NEW k \in Caller, NEW v \in Verb, Invoke(k, v) PROVE TypeOK'
    BY <1>2 DEF Invoke, disk, TypeOK, Step
<1>3. ASSUME NEW k \in Caller, Prepare(k) PROVE TypeOK'
    <2>1. CASE Return(k, "error")
        BY <1>3, <2>1, ReturnType DEF Prepare, disk, TypeOK
    <2>2. CASE ~Return(k, "error")
        BY <1>3, <2>2 DEF Prepare, disk, TypeOK, Step
    <2> QED BY <2>1, <2>2
<1>4. ASSUME NEW k \in Caller, Compare(k) \/ Same(k) \/ Stat(k) \/ Already(k) PROVE TypeOK'
    <2>1. UNCHANGED <<disk, fresh>>
        BY <1>4 DEF Compare, Same, Stat, Already
    <2>2. \/ \E step \in Step : Goto(k, step)
          \/ \E r \in {"ok", "unchanged", "error", "killed"} : Return(k, r)
        BY <1>4 DEF Compare, Same, Stat, Already, Step
    <2> QED BY <2>1, <2>2, GotoType, ReturnType DEF disk, TypeOK
<1>5. ASSUME NEW k \in Caller, Truncate(k) \/ Write(k) \/ Remove(k) PROVE TypeOK'
    <2>1. /\ plist' \in {plist, Torn, want[k], NoPlist} /\ UNCHANGED <<job, source>>
          /\ fresh' \subseteq fresh
        BY <1>5 DEF Truncate, Write, Remove
    <2>2. want[k] \in Plist \cup {NoPlist}
        BY DEF TypeOK
    <2>3. \/ \E step \in Step : Goto(k, step)
          \/ \E r \in {"ok", "unchanged", "error", "killed"} : Return(k, r)
        BY <1>5 DEF Truncate, Write, Remove, Step
    <2> QED BY <2>1, <2>2, <2>3, GotoType, ReturnType DEF TypeOK
<1>6. ASSUME NEW k \in Caller, Check(k) PROVE TypeOK'
    <2>1. UNCHANGED <<disk, fresh>> /\ (Stopped(k) \/ Goto(k, "bootout"))
        BY <1>6 DEF Check
    <2> QED BY <2>1, GotoType, StoppedType DEF disk, TypeOK, Step
<1>7. ASSUME NEW k \in Caller, Bootout(k) PROVE TypeOK'
    <2>1. /\ Goto(k, "wait") /\ UNCHANGED <<plist, source, fresh>>
          /\ (job' = job) \/ (job = "loaded" /\ job' = "unloading")
        BY <1>7 DEF Bootout
    <2> QED BY <2>1, GotoType DEF TypeOK, Step
<1>8. ASSUME NEW k \in Caller, WaitUnloaded(k) PROVE TypeOK'
    <2>1. UNCHANGED <<disk, fresh>>
        BY <1>8 DEF WaitUnloaded
    <2>2. CASE Stopped(k) \/ Return(k, "error")
        BY <2>1, <2>2, StoppedType, ReturnType DEF disk, TypeOK
    <2>3. CASE ~(Stopped(k) \/ Return(k, "error"))
        <3>1. /\ polls[k] # MaxPolls /\ polls' = [polls EXCEPT ![k] = @ + 1]
              /\ UNCHANGED <<verb, want, at, result>>
            BY <1>8, <2>3 DEF WaitUnloaded
        <3>2. polls[k] \in 0 .. MaxPolls /\ MaxPolls \in Nat
            BY ServiceAssumption DEF TypeOK
        <3>3. polls[k] + 1 \in 0 .. MaxPolls
            BY <3>1, <3>2
        <3> QED BY <2>1, <3>1, <3>3 DEF disk, TypeOK
    <2> QED BY <2>2, <2>3
<1>9. ASSUME NEW k \in Caller, Bootstrap(k) PROVE TypeOK'
    <2>1. \E r \in {"ok", "unchanged", "error", "killed"} : Return(k, r)
        BY <1>9 DEF Bootstrap
    <2>2. CASE UNCHANGED <<job, source, fresh>>
        BY <1>9, <2>1, <2>2, ReturnType DEF Bootstrap, TypeOK
    <2>3. CASE Load /\ plist \in Plist
        BY <1>9, <2>1, <2>3, ReturnType, ServiceAssumption DEF Bootstrap, Load, TypeOK
    <2> QED BY <1>9, <2>2, <2>3 DEF Bootstrap
<1>10. ASSUME NEW k \in Caller, Killed(k) PROVE TypeOK'
    BY <1>10, ReturnType DEF Killed, disk, TypeOK
<1>11. CASE TornDown
    BY <1>11 DEF TornDown, TypeOK
<1>12. CASE Relogin
    <2>1. 0 \in 0 .. MaxPolls
        BY ServiceAssumption
    <2> QED BY <1>12, <2>1, ServiceAssumption DEF Relogin, Load, TypeOK, Step
<1> QED
    BY <1>1, <1>2, <1>3, <1>4, <1>5, <1>6, <1>7, <1>8, <1>9, <1>10, <1>11, <1>12 DEF Next, Proceeds

\* Every variable keeps its type, a registered job has the plist it was loaded
\* from, and no wait polls more often than its deadline allows.
THEOREM ServiceTypes == Spec => []TypeOK
<1>1. Init => TypeOK
    BY ServiceAssumption DEF Init, TypeOK, Step
<1> QED BY <1>1, ServiceTypeStep, PTL DEF Spec

-----------------------------------------------------------------------------
(* One verb at a time. *)

\* How far a verb has come, when nobody else is at work: past the Stop of its
\* verb the job is gone, and past its write an install's plist is the one on disk.
Progress ==
    \A k \in Caller :
      /\ at[k] \in {"prepare", "compare", "same", "truncate", "write"} => verb[k] = "install"
      /\ at[k] \in {"check", "bootout", "wait"}
           => /\ verb[k] \in {"install", "uninstall", "stop", "restart"}
              /\ verb[k] = "install" => plist = want[k]
      /\ at[k] = "remove" => verb[k] = "uninstall" /\ job = "unloaded"
      /\ at[k] \in {"stat", "already", "bootstrap"}
           => /\ verb[k] \in {"install", "start", "restart"}
              /\ verb[k] # "start" => job = "unloaded"
              /\ verb[k] = "install" => plist = want[k]

LEMMA ProgressStep ==
    ASSUME PrintMayFail = FALSE, \A j, k \in Caller : j = k,
           TypeOK, Progress, [Next]_vars
    PROVE  Progress'
<1> USE DEF Progress
<1>1. CASE UNCHANGED vars
    BY <1>1 DEF vars, disk
<1>2. ASSUME NEW k \in Caller, NEW v \in Verb, Invoke(k, v) PROVE Progress'
    BY <1>2 DEF Invoke, disk, Verb, TypeOK
<1>3. ASSUME NEW k \in Caller, NEW r, Return(k, r) PROVE Progress'
    BY <1>3 DEF Return, TypeOK
<1>4. ASSUME NEW k \in Caller, Prepare(k) \/ Compare(k) \/ Same(k) \/ Truncate(k) PROVE Progress'
    BY <1>3, <1>4 DEF Prepare, Compare, Same, Truncate, Goto, disk, TypeOK
<1>5. ASSUME NEW k \in Caller, Write(k) PROVE Progress'
    BY <1>3, <1>5 DEF Write, Goto, TypeOK
<1>6. ASSUME NEW k \in Caller, Stopped(k), UNCHANGED disk, job = "unloaded",
             at[k] \in {"check", "wait"}
      PROVE  Progress'
    BY <1>3, <1>6 DEF Stopped, Goto, disk, TypeOK
<1>7. ASSUME NEW k \in Caller, Check(k) PROVE Progress'
    <2>1. Stopped(k) => job = "unloaded" \/ Goto(k, "bootout")
        BY <1>7 DEF Check, Loaded
    <2>2. CASE Goto(k, "bootout")
        BY <1>7, <2>2 DEF Check, Goto, disk, TypeOK
    <2>3. CASE Stopped(k) /\ job = "unloaded"
        BY <1>6, <1>7, <2>3 DEF Check
    <2> QED BY <1>7, <2>1, <2>2, <2>3 DEF Check
<1>8. ASSUME NEW k \in Caller, Bootout(k) PROVE Progress'
    BY <1>8 DEF Bootout, Goto, TypeOK
<1>9. ASSUME NEW k \in Caller, WaitUnloaded(k) PROVE Progress'
    <2>1. CASE job = "unloaded"
        BY <1>6, <1>9, <2>1 DEF WaitUnloaded, Loaded
    <2>2. CASE job # "unloaded"
        BY <1>3, <1>9, <2>2 DEF WaitUnloaded, Loaded, disk
    <2> QED BY <2>1, <2>2
<1>10. ASSUME NEW k \in Caller, Remove(k) \/ Bootstrap(k) \/ Killed(k) PROVE Progress'
    BY <1>3, <1>10 DEF Remove, Bootstrap, Killed
<1>11. ASSUME NEW k \in Caller, Stat(k) \/ Already(k) PROVE Progress'
    BY <1>3, <1>11 DEF Stat, Already, Goto, disk, TypeOK
<1>12. CASE TornDown \/ Relogin
    BY <1>12 DEF TornDown, Relogin
<1> QED
    BY <1>1, <1>2, <1>4, <1>5, <1>7, <1>8, <1>9, <1>10, <1>11, <1>12 DEF Next, Proceeds

\* A verb returns success by a step of its own.
LEMMA OwnReturn ==
    ASSUME \A j, k \in Caller : j = k, TypeOK, Next,
           NEW k \in Caller, NEW v, Returns(k, v, "ok")
    PROVE  Proceeds(k)
<1>1. at[k] # "idle" /\ at'[k] = "idle" /\ result'[k] = "ok"
    BY DEF Returns
<1>2. ~TornDown /\ ~Relogin
    BY <1>1 DEF TornDown, Relogin
<1>3. ~(\E w \in Verb : Invoke(k, w)) /\ ~Killed(k)
    BY <1>1 DEF Invoke, Killed, Return, TypeOK
<1> QED BY <1>2, <1>3 DEF Next

\* Only a Stop that found no job can report that a stop is done.
LEMMA StopReturns ==
    ASSUME PrintMayFail = FALSE, TypeOK, Progress, NEW k \in Caller, Proceeds(k),
           Returns(k, "stop", "ok")
    PROVE  job' = "unloaded"
<1>1. at[k] # "idle" /\ at'[k] = "idle" /\ verb[k] = "stop" /\ result'[k] = "ok"
    BY DEF Returns
<1>2. at[k] \in {"check", "bootout", "wait"}
    BY <1>1 DEF Progress, TypeOK, Step
<1>3. Check(k) \/ Bootout(k) \/ WaitUnloaded(k)
    BY <1>2 DEF Proceeds, Prepare, Compare, Same, Truncate, Write, Remove, Stat, Already, Bootstrap
<1>4. ASSUME NEW step, step # "idle" PROVE ~Goto(k, step)
    BY <1>1, <1>4 DEF Goto, TypeOK
<1>5. ~Bootout(k)
    BY <1>4 DEF Bootout
<1>6. ~Return(k, "error")
    BY <1>1 DEF Return, TypeOK
<1>7. job = "unloaded" /\ UNCHANGED disk
    BY <1>1, <1>3, <1>4, <1>5, <1>6 DEF Check, WaitUnloaded, Loaded
<1> QED BY <1>7 DEF disk

\* Only Remove can report that an uninstall is done.
LEMMA UninstallReturns ==
    ASSUME TypeOK, Progress, NEW k \in Caller, Proceeds(k), Returns(k, "uninstall", "ok")
    PROVE  job' = "unloaded" /\ plist' = NoPlist
<1>1. at[k] # "idle" /\ at'[k] = "idle" /\ verb[k] = "uninstall" /\ result'[k] = "ok"
    BY DEF Returns
<1>2. at[k] \in {"check", "bootout", "wait", "remove"}
    BY <1>1 DEF Progress, TypeOK, Step
<1>3. Check(k) \/ Bootout(k) \/ WaitUnloaded(k) \/ Remove(k)
    BY <1>2 DEF Proceeds, Prepare, Compare, Same, Truncate, Write, Stat, Already, Bootstrap
<1>4. ASSUME NEW step, step # "idle" PROVE ~Goto(k, step)
    BY <1>1, <1>4 DEF Goto, TypeOK
<1>5. ~Return(k, "error")
    BY <1>1 DEF Return, TypeOK
<1>6. ~Stopped(k)
    BY <1>1, <1>4 DEF Stopped
<1>7. Remove(k)
    BY <1>1, <1>3, <1>4, <1>5, <1>6 DEF Check, Bootout, WaitUnloaded
<1>8. plist' = NoPlist /\ UNCHANGED job
    BY <1>5, <1>7 DEF Remove
<1> QED BY <1>7, <1>8 DEF Remove, Progress

\* Only Bootstrap can report that an install or a restart is done.
LEMMA LoadReturns ==
    ASSUME PrintMayFail = FALSE, TypeOK, Progress, NEW k \in Caller, Proceeds(k),
           NEW v \in {"install", "restart"}, Returns(k, v, "ok")
    PROVE  /\ job' = "loaded" /\ source' = plist'
           /\ v = "install" => plist' = want[k]
<1>1. at[k] # "idle" /\ at'[k] = "idle" /\ verb[k] = v /\ result'[k] = "ok"
    BY DEF Returns
<1>2. at[k] # "remove"
    BY <1>1 DEF Progress
<1>3. ASSUME NEW step, step # "idle" PROVE ~Goto(k, step)
    BY <1>1, <1>3 DEF Goto, TypeOK
<1>4. ASSUME NEW r, Return(k, r) PROVE r = "ok"
    BY <1>1, <1>4 DEF Return, TypeOK
<1>5. ~Stopped(k)
    BY <1>1, <1>3 DEF Stopped
<1>6. ~Prepare(k)
    BY <1>1, <1>4 DEF Prepare, TypeOK
<1>7. ~Compare(k) /\ ~Bootout(k)
    BY <1>3 DEF Compare, Bootout
<1>8. ~Same(k) /\ ~Truncate(k) /\ ~Write(k)
    BY <1>3, <1>4 DEF Same, Truncate, Write
<1>9. ~Check(k) /\ ~WaitUnloaded(k) /\ ~Remove(k) /\ ~Stat(k)
    BY <1>1, <1>2, <1>3, <1>4, <1>5 DEF Check, WaitUnloaded, Remove, Stat
<1>10. ~Already(k)
    BY <1>1, <1>3 DEF Already, Loaded, Progress
<1>11. Bootstrap(k)
    BY <1>6, <1>7, <1>8, <1>9, <1>10 DEF Proceeds
<1>12. plist' = plist /\ Load
    BY <1>4, <1>11 DEF Bootstrap
<1> QED BY <1>1, <1>11, <1>12 DEF Bootstrap, Load, Progress

\* A start that succeeds has found the job registered, or has just loaded it.
LEMMA StartReturns ==
    ASSUME TypeOK, Progress, NEW k \in Caller, Proceeds(k), Returns(k, "start", "ok")
    PROVE  job' \in {"loaded", "unloading"}
<1>1. at[k] # "idle" /\ at'[k] = "idle" /\ verb[k] = "start" /\ result'[k] = "ok"
    BY DEF Returns
<1>2. at[k] \in {"stat", "already", "bootstrap"}
    BY <1>1 DEF Progress, TypeOK, Step
<1>3. ASSUME NEW step, step # "idle" PROVE ~Goto(k, step)
    BY <1>1, <1>3 DEF Goto, TypeOK
<1>4. ~Return(k, "error")
    BY <1>1 DEF Return, TypeOK
<1>5. Already(k) \/ Bootstrap(k)
    BY <1>2, <1>3, <1>4 DEF Proceeds, Prepare, Compare, Same, Truncate, Write, Check, Bootout,
                            WaitUnloaded, Remove, Stat
<1>6. CASE Already(k)
    BY <1>3, <1>6 DEF Already, Loaded, disk, TypeOK
<1>7. CASE Bootstrap(k)
    BY <1>4, <1>7 DEF Bootstrap, Load
<1> QED BY <1>5, <1>6, <1>7

\* With one verb at a time and launchctl print answering, an install, restart,
\* uninstall or stop that reports success has done what it reports - whatever a
\* killed, failed or timed-out verb before it, a reboot or launchd had left behind -
\* and a start has found or loaded a registered job, which may be on its way out.
THEOREM DoneAlone ==
    ASSUME PrintMayFail = FALSE, \A j, k \in Caller : j = k
    PROVE  Spec => SuccessMeansDone
<1> DEFINE IInv == TypeOK /\ Progress
<1>1. Init => Progress
    BY DEF Init, Progress
<1>2. TypeOK /\ Progress /\ [Next]_vars => Progress'
    BY ProgressStep
<1>3. TypeOK /\ Progress /\ [Next]_vars
        => [\A k \in Caller :
             /\ Returns(k, "install", "ok") => job' = "loaded" /\ source' = want[k] /\ plist' = want[k]
             /\ Returns(k, "restart", "ok") => job' = "loaded" /\ source' = plist'
             /\ Returns(k, "start", "ok") => job' \in {"loaded", "unloading"}
             /\ Returns(k, "uninstall", "ok") => job' = "unloaded" /\ plist' = NoPlist
             /\ Returns(k, "stop", "ok") => job' = "unloaded"]_vars
    <2> SUFFICES ASSUME TypeOK, Progress, Next, NEW k \in Caller
                 PROVE
             /\ Returns(k, "install", "ok") => job' = "loaded" /\ source' = want[k] /\ plist' = want[k]
             /\ Returns(k, "restart", "ok") => job' = "loaded" /\ source' = plist'
             /\ Returns(k, "start", "ok") => job' \in {"loaded", "unloading"}
             /\ Returns(k, "uninstall", "ok") => job' = "unloaded" /\ plist' = NoPlist
             /\ Returns(k, "stop", "ok") => job' = "unloaded"
        OBVIOUS
    <2> QED BY OwnReturn, StartReturns, StopReturns, UninstallReturns, LoadReturns
<1> QED BY <1>1, <1>2, <1>3, ServiceTypes, PTL DEF Spec, SuccessMeansDone

\* An install has rendered a plist before it can write one.
Rendered == \A k \in Caller : at[k] \in {"compare", "same", "truncate", "write"} => want[k] \in Plist

LEMMA RenderedStep ==
    ASSUME TypeOK, Rendered, [Next]_vars
    PROVE  Rendered'
<1> USE DEF Rendered
<1>1. CASE UNCHANGED vars
    BY <1>1 DEF vars
<1>2. ASSUME NEW k \in Caller, NEW v \in Verb, Invoke(k, v) PROVE Rendered'
    BY <1>2 DEF Invoke, TypeOK
<1>3. ASSUME NEW k \in Caller, NEW r, Return(k, r) PROVE Rendered'
    BY <1>3 DEF Return, TypeOK
<1>4. ASSUME NEW k \in Caller,
             NEW step \in {"check", "bootout", "wait", "remove", "stat", "already", "bootstrap"},
             Goto(k, step)
      PROVE  Rendered'
    BY <1>4 DEF Goto, TypeOK
<1>5. ASSUME NEW k \in Caller, Stopped(k) PROVE Rendered'
    BY <1>3, <1>4, <1>5 DEF Stopped
<1>6. ASSUME NEW k \in Caller, Prepare(k) PROVE Rendered'
    BY <1>3, <1>6 DEF Prepare, TypeOK
<1>7. ASSUME NEW k \in Caller, Compare(k) \/ Same(k) \/ Truncate(k) PROVE Rendered'
    BY <1>3, <1>7 DEF Compare, Same, Truncate, Goto, TypeOK
<1>8. ASSUME NEW k \in Caller, Write(k) \/ Bootout(k) \/ Stat(k) \/ Already(k) PROVE Rendered'
    BY <1>3, <1>4, <1>8 DEF Write, Bootout, Stat, Already
<1>9. ASSUME NEW k \in Caller, Check(k) PROVE Rendered'
    BY <1>4, <1>5, <1>9 DEF Check
<1>10. ASSUME NEW k \in Caller, WaitUnloaded(k) PROVE Rendered'
    BY <1>3, <1>5, <1>10 DEF WaitUnloaded
<1>11. ASSUME NEW k \in Caller, Remove(k) \/ Bootstrap(k) \/ Killed(k) PROVE Rendered'
    BY <1>3, <1>11 DEF Remove, Bootstrap, Killed
<1>12. CASE TornDown \/ Relogin
    BY <1>12 DEF TornDown, Relogin
<1> QED
    BY <1>1, <1>2, <1>6, <1>7, <1>8, <1>9, <1>10, <1>11, <1>12 DEF Next, Proceeds

LEMMA OrphanStep ==
    ASSUME TypeOK, Progress, Rendered, NoOrphan, [Next]_vars
    PROVE  NoOrphan'
<1> USE ServiceAssumption DEF NoOrphan
<1>1. CASE UNCHANGED disk
    BY <1>1 DEF disk
<1>2. ASSUME NEW k \in Caller, Truncate(k) PROVE NoOrphan'
    BY <1>2 DEF Truncate
<1>3. ASSUME NEW k \in Caller, Write(k) PROVE NoOrphan'
    BY <1>3 DEF Write, Rendered
<1>4. ASSUME NEW k \in Caller, Bootout(k) PROVE NoOrphan'
    BY <1>4 DEF Bootout
<1>5. ASSUME NEW k \in Caller, Remove(k) PROVE NoOrphan'
    BY <1>5 DEF Remove, Progress
<1>6. ASSUME NEW k \in Caller, Bootstrap(k) PROVE NoOrphan'
    BY <1>6 DEF Bootstrap
<1>7. CASE TornDown
    BY <1>7 DEF TornDown
<1>8. CASE Relogin
    BY <1>8 DEF Relogin
<1> QED
    BY <1>1, <1>2, <1>3, <1>4, <1>5, <1>6, <1>7, <1>8
    DEF Next, Proceeds, vars, Invoke, Prepare, Compare, Same, Check, WaitUnloaded, Stat, Already, Killed

\* With one verb at a time, no job is ever registered without a plist: an uninstall
\* that is killed, fails or times out anywhere leaves both, or the plist alone.
THEOREM NeverOrphaned ==
    ASSUME PrintMayFail = FALSE, \A j, k \in Caller : j = k
    PROVE  Spec => []NoOrphan
<1>1. Init => Progress /\ Rendered /\ NoOrphan
    BY DEF Init, Progress, Rendered, NoOrphan
<1>2. TypeOK /\ Progress /\ Rendered /\ NoOrphan /\ [Next]_vars => Progress' /\ Rendered' /\ NoOrphan'
    BY ProgressStep, RenderedStep, OrphanStep
<1> QED BY <1>1, <1>2, ServiceTypes, PTL DEF Spec

-----------------------------------------------------------------------------
(* Any number of verbs at a time. *)

\* Which verbs take which step.
Roles ==
    \A k \in Caller :
      /\ at[k] \in {"prepare", "compare", "same", "truncate", "write"} => verb[k] = "install"
      /\ at[k] \in {"check", "bootout", "wait"} => verb[k] \in {"install", "uninstall", "stop", "restart"}
      /\ at[k] = "remove" => verb[k] = "uninstall"
      /\ at[k] \in {"stat", "already", "bootstrap"} => verb[k] \in {"install", "start", "restart"}

LEMMA RolesStep ==
    ASSUME TypeOK, Roles, [Next]_vars
    PROVE  Roles'
<1> USE DEF Roles
<1>1. CASE UNCHANGED vars
    BY <1>1 DEF vars
<1>2. ASSUME NEW k \in Caller, NEW v \in Verb, Invoke(k, v) PROVE Roles'
    BY <1>2 DEF Invoke, Verb, TypeOK
<1>3. ASSUME NEW k \in Caller, NEW r, Return(k, r) PROVE Roles'
    BY <1>3 DEF Return, TypeOK
<1>4. ASSUME NEW k \in Caller, Stopped(k), at[k] \in {"check", "wait"} PROVE Roles'
    BY <1>3, <1>4 DEF Stopped, Goto, TypeOK
<1>5. ASSUME NEW k \in Caller, Prepare(k) \/ Compare(k) \/ Same(k) \/ Truncate(k) \/ Write(k)
      PROVE  Roles'
    BY <1>3, <1>5 DEF Prepare, Compare, Same, Truncate, Write, Goto, TypeOK
<1>6. ASSUME NEW k \in Caller, Check(k) \/ Bootout(k) PROVE Roles'
    BY <1>4, <1>6 DEF Check, Bootout, Goto, TypeOK
<1>7. ASSUME NEW k \in Caller, WaitUnloaded(k) PROVE Roles'
    BY <1>3, <1>4, <1>7 DEF WaitUnloaded
<1>8. ASSUME NEW k \in Caller, Remove(k) \/ Bootstrap(k) \/ Killed(k) PROVE Roles'
    BY <1>3, <1>8 DEF Remove, Bootstrap, Killed
<1>9. ASSUME NEW k \in Caller, Stat(k) \/ Already(k) PROVE Roles'
    BY <1>3, <1>9 DEF Stat, Already, Goto, TypeOK
<1>10. CASE TornDown \/ Relogin
    BY <1>10 DEF TornDown, Relogin
<1> QED
    BY <1>1, <1>2, <1>5, <1>6, <1>7, <1>8, <1>9, <1>10 DEF Next, Proceeds

\* Every action of a caller leaves the other callers where they are.
LEMMA OthersStay ==
    ASSUME TypeOK, NEW j \in Caller, NEW k \in Caller, j # k,
           Proceeds(j) \/ Killed(j) \/ (\E v \in Verb : Invoke(j, v))
    PROVE  at'[k] = at[k] /\ polls'[k] = polls[k] /\ verb'[k] = verb[k] /\ result'[k] = result[k]
<1> USE DEF TypeOK
<1>1. ASSUME NEW r, Return(j, r) PROVE at'[k] = at[k] /\ polls'[k] = polls[k] /\ verb'[k] = verb[k] /\ result'[k] = result[k]
    BY <1>1 DEF Return
<1>2. ASSUME NEW step, Goto(j, step) PROVE at'[k] = at[k] /\ polls'[k] = polls[k] /\ verb'[k] = verb[k] /\ result'[k] = result[k]
    BY <1>2 DEF Goto
<1>3. ASSUME Stopped(j) PROVE at'[k] = at[k] /\ polls'[k] = polls[k] /\ verb'[k] = verb[k] /\ result'[k] = result[k]
    BY <1>1, <1>2, <1>3 DEF Stopped
<1>4. CASE (\E v \in Verb : Invoke(j, v)) \/ Prepare(j) \/ WaitUnloaded(j)
    BY <1>1, <1>3, <1>4 DEF Invoke, Prepare, WaitUnloaded
<1>5. CASE Compare(j) \/ Same(j) \/ Truncate(j) \/ Write(j) \/ Check(j) \/ Bootout(j)
    BY <1>1, <1>2, <1>3, <1>5 DEF Compare, Same, Truncate, Write, Check, Bootout
<1>6. CASE Remove(j) \/ Stat(j) \/ Already(j) \/ Bootstrap(j) \/ Killed(j)
    BY <1>1, <1>2, <1>6 DEF Remove, Stat, Already, Bootstrap, Killed
<1> QED BY <1>4, <1>5, <1>6 DEF Proceeds

\* Only a Stop that saw no job registered can report that a stop is done.
LEMMA StopSawNone ==
    ASSUME PrintMayFail = FALSE, TypeOK, Roles, Next, NEW k \in Caller, Returns(k, "stop", "ok")
    PROVE  job' = "unloaded"
<1>1. at[k] # "idle" /\ at'[k] = "idle" /\ verb[k] = "stop" /\ result'[k] = "ok"
    BY DEF Returns
<1>2. at[k] \in {"check", "bootout", "wait"}
    BY <1>1 DEF Roles, TypeOK, Step
<1>3. ~TornDown /\ ~Relogin
    BY <1>1 DEF TornDown, Relogin
<1>4. ~(\E v \in Verb : Invoke(k, v)) /\ ~Killed(k)
    BY <1>1 DEF Invoke, Killed, Return, TypeOK
<1>5. Proceeds(k)
    BY <1>1, <1>3, <1>4, OthersStay DEF Next
<1>6. Check(k) \/ Bootout(k) \/ WaitUnloaded(k)
    BY <1>2, <1>5 DEF Proceeds, Prepare, Compare, Same, Truncate, Write, Remove, Stat, Already, Bootstrap
<1>7. ASSUME NEW step, step # "idle" PROVE ~Goto(k, step)
    BY <1>1, <1>7 DEF Goto, TypeOK
<1>8. ~Bootout(k) /\ ~Return(k, "error")
    BY <1>1, <1>7 DEF Bootout, Return, TypeOK
<1>9. job = "unloaded" /\ UNCHANGED disk
    BY <1>1, <1>6, <1>7, <1>8 DEF Check, WaitUnloaded, Loaded
<1> QED BY <1>9 DEF disk

\* As long as launchctl print answers, a stop that reports success leaves no job,
\* however many other verbs undo it meanwhile: what run service_wedged finds
\* takes a print that fails.
THEOREM StopUnloads ==
    ASSUME PrintMayFail = FALSE
    PROVE  Spec => /\ StopMeansUnloaded
                   /\ [][\A k \in Caller : Returns(k, "stop", "ok") => job' = "unloaded"]_vars
<1>1. Init => Roles
    BY DEF Init, Roles
<1>2. TypeOK /\ Roles /\ [Next]_vars => Roles'
    BY RolesStep
<1>3. TypeOK /\ Roles /\ [Next]_vars
        => [\A k \in Caller : Returns(k, "stop", "ok") => job' = "unloaded"]_vars
    BY StopSawNone
<1>4. [\A k \in Caller : Returns(k, "stop", "ok") => job' = "unloaded"]_vars
        => [\A k \in Caller : Returns(k, "stop", "ok") => job' # "loaded"]_vars
    OBVIOUS
<1> QED BY <1>1, <1>2, <1>3, <1>4, ServiceTypes, PTL DEF Spec, StopMeansUnloaded

\* A step to a later place in the order, or the end of a verb, leaves fewer steps.
LEMMA FewerSteps ==
    ASSUME TypeOK, NEW k \in Caller, at[k] # "idle", at'[k] \in Step, Rank[at'[k]] < Rank[at[k]],
           polls'[k] = polls[k] \/ at'[k] = "idle"
    PROVE  StepsLeft(k)' < StepsLeft(k)
<1>1. Rank[at[k]] \in 1 .. 11 /\ Rank[at'[k]] \in 0 .. 11 /\ at[k] \in Step
    BY DEF TypeOK, Step, Rank
<1>2. polls[k] \in 0 .. MaxPolls /\ MaxPolls \in Nat
    BY ServiceAssumption DEF TypeOK
<1>3. CASE at'[k] = "idle"
    <2>1. StepsLeft(k)' = 0 /\ StepsLeft(k) = Rank[at[k]] + MaxPolls - polls[k]
        BY <1>3 DEF StepsLeft
    <2> QED BY <1>1, <1>2, <2>1
<1>4. CASE at'[k] # "idle"
    <2>1. /\ StepsLeft(k)' = Rank[at'[k]] + MaxPolls - polls[k]
          /\ StepsLeft(k) = Rank[at[k]] + MaxPolls - polls[k]
        <3>1. Rank' = Rank
            BY DEF Rank
        <3> QED BY <1>4, <3>1 DEF StepsLeft
    <2> HIDE DEF Rank
    <2> QED BY <1>1, <1>2, <2>1
<1> QED BY <1>3, <1>4

\* Each step of an invocation brings it closer to its end, and no step of another
\* sets it back: an install takes at most MaxPolls + 11 steps and a stop MaxPolls + 6,
\* whatever launchctl print answers and however many verbs run beside it.
THEOREM VerbsCountDown == Spec => EveryStepCounts
<1>1. TypeOK /\ [Next]_vars
        => [\A k \in Caller :
              at[k] # "idle" => UNCHANGED <<at[k], polls[k]>> \/ StepsLeft(k)' < StepsLeft(k)]_vars
    <2> SUFFICES ASSUME TypeOK, Next, NEW k \in Caller, at[k] # "idle"
                 PROVE  UNCHANGED <<at[k], polls[k]>> \/ StepsLeft(k)' < StepsLeft(k)
        OBVIOUS
    <2>1. ASSUME NEW r, Return(k, r) PROVE StepsLeft(k)' < StepsLeft(k)
        <3>1. at'[k] = "idle"
            BY <2>1 DEF Return, TypeOK
        <3> QED BY <3>1, FewerSteps DEF TypeOK, Step, Rank
    <2>2. ASSUME NEW step \in Step, Goto(k, step), Rank[step] < Rank[at[k]]
          PROVE  StepsLeft(k)' < StepsLeft(k)
        <3>1. at'[k] = step /\ polls'[k] = polls[k]
            BY <2>2 DEF Goto, TypeOK
        <3> QED BY <2>2, <3>1, FewerSteps
    <2>3. ASSUME Stopped(k), at[k] \in {"check", "wait"} PROVE StepsLeft(k)' < StepsLeft(k)
        BY <2>1, <2>2, <2>3 DEF Stopped, Step, Rank
    <2>4. ~(\E v \in Verb : Invoke(k, v))
        BY DEF Invoke
    <2>5. CASE Prepare(k)
        <3>1. CASE Return(k, "error")
            BY <2>1, <3>1
        <3>2. CASE ~Return(k, "error")
            <4>1. at[k] = "prepare" /\ at'[k] = "compare" /\ polls'[k] = polls[k]
                BY <2>5, <3>2 DEF Prepare, TypeOK
            <4> QED BY <4>1, FewerSteps DEF Step, Rank
        <3> QED BY <3>1, <3>2
    <2>6. CASE Compare(k) \/ Same(k) \/ Truncate(k) \/ Write(k)
        BY <2>1, <2>2, <2>6 DEF Compare, Same, Truncate, Write, Step, Rank
    <2>7. CASE Check(k) \/ Bootout(k)
        BY <2>2, <2>3, <2>7 DEF Check, Bootout, Step, Rank
    <2>8. CASE WaitUnloaded(k)
        <3>1. CASE Stopped(k) \/ Return(k, "error")
            BY <2>1, <2>3, <2>8, <3>1 DEF WaitUnloaded
        <3>2. CASE ~(Stopped(k) \/ Return(k, "error"))
            <4>1. at[k] = "wait" /\ at'[k] = "wait" /\ polls'[k] = polls[k] + 1
                BY <2>8, <3>2 DEF WaitUnloaded, TypeOK
            <4>2. polls[k] \in Nat /\ MaxPolls \in Nat
                BY ServiceAssumption DEF TypeOK
            <4>3. StepsLeft(k)' = 4 + MaxPolls - (polls[k] + 1) /\ StepsLeft(k) = 4 + MaxPolls - polls[k]
                BY <4>1 DEF StepsLeft, Rank
            <4> QED BY <4>2, <4>3
        <3> QED BY <3>1, <3>2
    <2>9. CASE Remove(k) \/ Stat(k) \/ Already(k)
        BY <2>1, <2>2, <2>9 DEF Remove, Stat, Already, Step, Rank
    <2>10. CASE Bootstrap(k) \/ Killed(k)
        BY <2>1, <2>10 DEF Bootstrap, Killed
    <2>11. CASE TornDown
        BY <2>11 DEF TornDown
    <2>12. CASE Relogin
        <3>1. at'[k] = "idle"
            BY <2>12 DEF Relogin
        <3> QED BY <3>1, FewerSteps DEF TypeOK, Step, Rank
    <2> QED
        BY <2>4, <2>5, <2>6, <2>7, <2>8, <2>9, <2>10, <2>11, <2>12, OthersStay DEF Next, Proceeds
<1> QED BY <1>1, ServiceTypes, PTL DEF Spec, EveryStepCounts

=============================================================================
