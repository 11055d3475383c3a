---------------------------- MODULE ProcessProofs ----------------------------
(***************************************************************************)
(* KeepAlive implements Process: what launchd sees of the daemon is right,   *)
(* for every choice of profiles, files, credentials and timeouts.            *)
(***************************************************************************)
EXTENDS KeepAliveProofs

\* The ticker exists from the first time in select until the process ends, and
\* its interval is positive.
TickerOK ==
    /\ pc \in Ended => until = 0 /\ ~stopping
    /\ pc = "select" => until > 0
    /\ until > 0 => interval > 0
    /\ until >= 0

procState == <<ProcState, stopping, Running /\ interval <= 0, ConfigOf[file]>>

\* What a start makes of the file there is.
LEMMA ConfigIs ==
    ASSUME NEW f \in Files
    PROVE  ConfigOf[f] = IF ~Usable(f, Wanted) THEN "bad"
                         ELSE IF PollInterval(f) <= 0 THEN "crashing" ELSE "good"
BY DEF ConfigOf

LEMMA ConfigStateIn == ASSUME NEW f \in Files PROVE ConfigOf[f] \in {"bad", "good", "crashing"}
BY ConfigIs

\* A file that does not change is worth the same.
LEMMA SameConfig ==
    ASSUME file' = file
    PROVE  ConfigOf[file]' = ConfigOf[file]
BY DEF ConfigOf

\* Enough that the process stays where it is, or within a cycle, and that it does
\* not get or lose its ticker.
LEMMA ProcFrame ==
    ASSUME pc' = pc, until = 0 => until' = 0, until # 0 => until' # 0,
           file' = file, interval' = interval, stopping' = stopping
    PROVE  UNCHANGED procState
<1>1. ProcState' = ProcState
    BY DEF ProcState, InCycle, Ended
<1>2. (Running /\ interval <= 0)' = (Running /\ interval <= 0)
    BY DEF Running, InCycle
<1> QED BY <1>1, <1>2, SameConfig DEF procState

LEMMA ProcCycle ==
    ASSUME InCycle, InCycle', UNCHANGED <<file, interval, until, stopping>>
    PROVE  UNCHANGED procState
<1>1. ProcState' = ProcState
    BY DEF ProcState, InCycle, Ended
<1>2. (Running /\ interval <= 0)' = (Running /\ interval <= 0)
    BY DEF Running, InCycle
<1> QED BY <1>1, <1>2, SameConfig DEF procState

LEMMA ProcSame ==
    ASSUME TickerOK, UNCHANGED <<file, pc, interval, until, stopping>>
    PROVE  TickerOK' /\ UNCHANGED procState
<1>1. TickerOK'
    BY DEF TickerOK
<1> QED BY <1>1, ProcFrame

\* A process that is gone is in no cycle and has no ticker.
LEMMA ProcGone ==
    ASSUME NEW how \in Ended, Gone(how), UNCHANGED file
    PROVE  /\ TickerOK'
           /\ ProcState' = how /\ stopping' = FALSE /\ (Running /\ interval <= 0)' = FALSE
           /\ ConfigOf[file]' = ConfigOf[file]
BY SameConfig DEF Gone, TickerOK, ProcState, Running, InCycle, Ended

\* The daemon's other steps leave the timers, the signal and the file alone, and
\* stay within the cycle.
Within ==
    /\ InCycle /\ InCycle'
    /\ UNCHANGED <<file, timerVars, stopping>>

LEMMA StepsWithin ==
    ASSUME DaemonChecks \/ DaemonAcquires
    PROVE  Within
<1>1. CASE SkipBlocked \/ CheckStatus \/ HandleResult
    BY <1>1 DEF SkipBlocked, CheckStatus, HandleResult, NextProfile, Within, InCycle
<1>2. CASE LookupPassword \/ KinitAnswered \/ KinitKilled
    BY <1>2 DEF LookupPassword, KinitAnswered, KinitKilled, Fails, Within, InCycle
<1> QED BY <1>1, <1>2 DEF DaemonChecks, DaemonAcquires

LEMMA WithinStutters ==
    ASSUME TickerOK, Within
    PROVE  TickerOK' /\ UNCHANGED procState
BY ProcCycle DEF Within, TickerOK, timerVars, InCycle, Ended

\* Every step of KeepAlive is a step of Process or leaves its variables alone.
LEMMA ProcStep ==
    ASSUME TypeOK, TickerOK, [Next]_vars
    PROVE  TickerOK' /\ (P!ProcessNext \/ UNCHANGED procState)
<1> USE DEF P!procVars
<1>0. interval \in Int /\ until \in Int /\ file \in Files
    BY DEF TypeOK, DaemonTypeOK
<1>1. CASE UNCHANGED vars
    BY <1>1, ProcSame DEF vars, daemonVars, loopVars, timerVars
<1>2. CASE DaemonStarts
    <2>1. CASE StartFails
        <3>1. P!StartFails /\ TickerOK'
            BY <2>1, SameConfig DEF StartFails, timerVars, P!StartFails, P!Ends, P!Ended, ProcState,
               Ended, Running, InCycle, TickerOK
        <3> QED BY <3>1 DEF P!ProcessNext
    <2>2. CASE StartDaemon
        <3>1. /\ pc \in Ended /\ pc' = "poll" /\ until' = until /\ stopping' = stopping
              /\ interval' = PollInterval(file) /\ Usable(file, Wanted) /\ file' = file
            BY <2>2 DEF StartDaemon, BeginCycle
        <3>2. TickerOK'
            BY <3>1 DEF TickerOK, Ended
        <3>3. ProcState = pc /\ ProcState' = "first"
            BY <3>1 DEF ProcState, InCycle, TickerOK, Ended
        <3>4. (Running /\ interval <= 0)' = (ConfigOf[file] = "crashing") /\ ConfigOf[file] # "bad"
            BY <3>1, <1>0, ConfigIs DEF Running, InCycle
        <3>5. P!Start
            BY <3>1, <3>3, <3>4, SameConfig DEF P!Start, P!Ended, Ended
        <3> QED BY <3>2, <3>5 DEF P!ProcessNext
    <2> QED BY <1>2, <2>1, <2>2 DEF DaemonStarts
<1>3. CASE DaemonStops
    <2>1. CASE Exit
        <3>1. P!Exit /\ TickerOK'
            BY <2>1, ProcGone DEF Exit, P!Exit, P!Ends, ProcState, Ended, InCycle
        <3> QED BY <3>1 DEF P!ProcessNext, P!ProcessWorks
    <2>2. CASE Crash
        <3>1. P!Killed /\ TickerOK'
            BY <2>2, ProcGone DEF Crash, P!Killed, P!Alive, P!Ends, ProcState, Ended, Running, InCycle
        <3> QED BY <3>1 DEF P!ProcessNext
    <2> QED BY <1>3, <2>1, <2>2 DEF DaemonStops
<1>4. CASE DaemonSignalled
    <2>1. /\ Running /\ stopping' = TRUE
          /\ UNCHANGED <<file, pc, interval, until>>
        BY <1>4 DEF DaemonSignalled, Signal, loopVars, timerVars
    <2>2. ProcState' = ProcState /\ (Running /\ interval <= 0)' = (Running /\ interval <= 0)
        BY <2>1 DEF ProcState, Running, InCycle, Ended
    <2>3. P!Signalled
        BY <2>1, <2>2, SameConfig DEF P!Signalled, P!Alive, ProcState, Running, InCycle, Ended
    <2>4. TickerOK'
        BY <2>1 DEF TickerOK, Running, InCycle, Ended
    <2> QED BY <2>3, <2>4 DEF P!ProcessNext
<1>5. CASE StartCycle
    <2>1. CASE Usable(file, Wanted)
        <3>1. /\ pc = "select" /\ pc' = "poll" /\ UNCHANGED <<file, interval, until, stopping>>
            BY <1>5, <2>1 DEF StartCycle, BeginCycle
        <3>2. TickerOK'
            BY <3>1 DEF TickerOK, Ended
        <3>3. ProcState = "waiting" /\ ProcState' = "polling"
            BY <1>0, <3>1 DEF ProcState, InCycle, TickerOK, Ended
        <3>4. P!Poll
            BY <2>1, <3>1, <3>3, <1>0, SameConfig, ConfigIs DEF P!Poll, Running, InCycle
        <3> QED BY <3>2, <3>4 DEF P!ProcessNext, P!ProcessWorks
    <2>2. CASE ~Usable(file, Wanted)
        <3>1. UNCHANGED <<file, pc, interval, until, stopping>>
            BY <1>5, <2>2 DEF StartCycle, loopVars
        <3> QED BY <3>1, ProcSame
    <2> QED BY <2>1, <2>2
<1>6. CASE EndCycle
    <2>1. CASE until = 0 /\ interval <= 0
        <3>1. P!EndFirst /\ TickerOK'
            BY <1>6, <2>1, ProcGone DEF EndCycle, P!EndFirst, P!Ends, ProcState, Ended, Running, InCycle
        <3> QED BY <3>1 DEF P!ProcessNext, P!ProcessWorks
    <2>2. CASE ~(until = 0 /\ interval <= 0)
        <3>1. /\ pc = "poll" /\ pc' = "select" /\ until' = IF until = 0 THEN interval ELSE until
              /\ UNCHANGED <<file, interval, stopping>>
            BY <1>6, <2>2 DEF EndCycle
        <3>2. TickerOK' /\ interval > 0
            BY <1>0, <2>2, <3>1 DEF TickerOK, Ended
        <3>3. CASE until = 0
            <4>1. P!EndFirst
                BY <1>0, <3>1, <3>2, <3>3, SameConfig
                DEF P!EndFirst, ProcState, Running, InCycle, Ended
            <4> QED BY <3>2, <4>1 DEF P!ProcessNext, P!ProcessWorks
        <3>4. CASE until # 0
            <4>1. P!EndPoll
                BY <1>0, <3>1, <3>2, <3>4, SameConfig
                DEF P!EndPoll, ProcState, Running, InCycle, Ended
            <4> QED BY <3>2, <4>1 DEF P!ProcessNext, P!ProcessWorks
        <3> QED BY <3>3, <3>4
    <2> QED BY <2>1, <2>2
<1>7. CASE DaemonChecks \/ DaemonAcquires
    BY <1>7, StepsWithin, WithinStutters
<1>8. CASE Refreshes
    BY <1>8, ProcSame DEF Refreshes, RefreshStarts, RefreshAcquires, daemonVars, loopVars, timerVars
<1>9. ASSUME NEW f \in Files, Edit(f) PROVE TickerOK' /\ P!ProcessNext
    <2>1. UNCHANGED <<pc, interval, until, stopping>>
        BY <1>9 DEF Edit, daemonVars, loopVars, timerVars
    <2>2. ProcState' = ProcState /\ (Running /\ interval <= 0)' = (Running /\ interval <= 0)
        BY <2>1 DEF ProcState, Running, InCycle
    <2>3. ConfigOf[file]' \in {"bad", "good", "crashing"}
        BY <1>9, ConfigStateIn DEF Edit
    <2>4. P!ConfigChanges(ConfigOf[file]')
        BY <2>1, <2>2 DEF P!ConfigChanges
    <2> QED BY <2>1, <2>3, <2>4 DEF P!ProcessNext, TickerOK
<1>10. ASSUME NEW c \in Credential, PasswordChanges(c) \/ \E v \in VaultState : KeychainChanges(c, v)
       PROVE  TickerOK' /\ UNCHANGED procState
    BY <1>10, ProcSame DEF PasswordChanges, KeychainChanges, daemonVars, loopVars, timerVars
<1>11. CASE NetworkChanges \/ Meddling \/ ZoneChanges \/ Sleep
    BY <1>11, ProcSame DEF NetworkChanges, Meddling, Destroy, DestroyTGT, TakeOver, Meddles,
                           ZoneChanges, Sleep, daemonVars, loopVars, timerVars
<1>12. CASE Tick
    <2>1. /\ UNCHANGED <<file, pc, interval, stopping>>
          /\ until' = IF until = 1 THEN interval ELSE IF until > 1 THEN until - 1 ELSE until
        BY <1>12 DEF Tick, TimerTick
    <2>2. TickerOK' /\ (until = 0 => until' = 0) /\ (until # 0 => until' # 0)
        BY <1>0, <2>1 DEF TickerOK
    <2>3. UNCHANGED procState
        <3>1. pc' = pc /\ UNCHANGED <<file, interval, stopping>>
            BY <2>1
        <3> QED BY <2>2, <3>1, ProcFrame
    <2> QED BY <2>2, <2>3
<1> QED
    BY <1>1, <1>2, <1>3, <1>4, <1>5, <1>6, <1>7, <1>8, <1>9, <1>10, <1>11, <1>12
    DEF Next, Daemons, DaemonLoops, Surroundings

\* The daemon, whatever it does in a cycle and whatever happens around it, is for
\* launchd the process of module Process: it exits with 0 only from select and
\* only when told to, outlives every file it cannot use, and dies of a panic only
\* at the end of its first cycle.
THEOREM DaemonIsProcess == Spec => ImplementsProcess
<1>1. ASSUME Init PROVE P!ProcessInit /\ TickerOK
    BY <1>1, ConfigStateIn DEF Init, DaemonInit, P!ProcessInit, ProcState, Running, InCycle, Ended, TickerOK
<1>2. TypeOK /\ TickerOK /\ [Next]_vars => TickerOK' /\ [P!ProcessNext]_<<P!procVars, ConfigOf[file]>>
    BY ProcStep DEF procState, P!procVars
<1>3. Spec => []TickerOK
    BY <1>1, <1>2, TypeCorrect, PTL DEF Spec
<1> QED BY <1>1, <1>2, <1>3, TypeCorrect, PTL DEF Spec, ImplementsProcess, P!ProcessSpec

-----------------------------------------------------------------------------
(* What a check of the poll interval in Validate would give. *)

Ticking == pc # "panicked" /\ (Running => interval > 0)

\* A poll interval that is negative is all that makes the daemon panic: if no file
\* that loads has one, it never does.
THEOREM PositivePollNeverPanics ==
    ASSUME \A f \in Files : Usable(f, Wanted) => PollInterval(f) > 0
    PROVE  Spec => []NeverPanics
<1>1. Init => Ticking
    BY DEF Init, DaemonInit, Ticking, Running, InCycle
<1>2. TypeOK /\ Ticking /\ [Next]_vars => Ticking'
    <2> SUFFICES ASSUME TypeOK, Ticking, [Next]_vars PROVE Ticking'
        OBVIOUS
    <2>1. ASSUME UNCHANGED <<pc, interval>> PROVE Ticking'
        BY <2>1 DEF Ticking, Running, InCycle
    <2>2. ASSUME Running, interval' = interval, pc' # "panicked" PROVE Ticking'
        BY <2>2 DEF Ticking
    <2>3. CASE DaemonStarts
        <3>1. CASE StartDaemon
            BY <3>1 DEF StartDaemon, BeginCycle, Ticking, TypeOK, DaemonTypeOK
        <3>2. CASE StartFails
            BY <3>2 DEF StartFails, Ticking, Running, InCycle
        <3> QED BY <2>3, <3>1, <3>2 DEF DaemonStarts
    <2>4. CASE DaemonStops
        BY <2>4 DEF DaemonStops, Exit, Crash, Gone, Ticking, Running, InCycle
    <2>5. CASE DaemonSignalled
        BY <2>1, <2>5 DEF DaemonSignalled, Signal, loopVars, timerVars
    <2>6. CASE StartCycle
        BY <2>1, <2>2, <2>6 DEF StartCycle, BeginCycle, loopVars, Running
    <2>7. CASE EndCycle
        <3>1. Running /\ interval > 0
            BY <2>7 DEF EndCycle, Ticking, Running, InCycle
        <3>2. interval' = interval /\ pc' = "select"
            BY <2>7, <3>1 DEF EndCycle, TypeOK, DaemonTypeOK
        <3> QED BY <2>2, <3>1, <3>2
    <2>8. CASE DaemonChecks \/ DaemonAcquires
        BY <2>2, <2>8, StepsWithin DEF Within, timerVars, Running, InCycle
    <2>9. CASE Refreshes
        BY <2>1, <2>9 DEF Refreshes, RefreshStarts, RefreshAcquires, daemonVars, loopVars, timerVars
    <2>10. CASE Surroundings
        BY <2>1, <2>10 DEF Surroundings, Edit, PasswordChanges, KeychainChanges, NetworkChanges,
                           Meddling, Destroy, DestroyTGT, TakeOver,
               Meddles, ZoneChanges, Tick, TimerTick, Sleep, daemonVars, loopVars, timerVars
    <2>11. CASE UNCHANGED vars
        BY <2>1, <2>11 DEF vars, daemonVars, loopVars, timerVars
    <2> QED BY <2>3, <2>4, <2>5, <2>6, <2>7, <2>8, <2>9, <2>10, <2>11
            DEF Next, Daemons, DaemonLoops
<1>3. Ticking => NeverPanics
    BY DEF Ticking, NeverPanics
<1> QED BY <1>1, <1>2, <1>3, TypeCorrect, PTL DEF Spec

=============================================================================
