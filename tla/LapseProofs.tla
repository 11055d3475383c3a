----------------------------- MODULE LapseProofs -----------------------------
(***************************************************************************)
(* No ticket of a running daemon lapses silently: the timing argument behind *)
(* NoSilentLapse, for any number of profiles, any timeouts and any files     *)
(* whose thresholds leave room for a poll interval and two cycles.           *)
(***************************************************************************)
EXTENDS ProcessProofs

\* How long select will wait once the cycle is over; the first wait is an interval.
Wait ==
    IF fired THEN 0
    ELSE IF until > 0 THEN until
    ELSE IF interval > 0 THEN interval ELSE 0

\* The running cycle has still to look at a profile of cc.
Ahead(cc) ==
    /\ InCycle
    /\ \E i \in DOMAIN selected :
         /\ selected[i].ccache = cc
         /\ i >= at
         /\ pc = "result" => i # at

\* A kept ticket outlasts the cycle it is still to be looked at in, or else the
\* wait after it and the cycle after that.
Keeps(longest) ==
    \A cc \in kept :
      /\ Running /\ ~stopping
      /\ Covers(file, cc)
      /\ \/ left[cc] > Rest + Wait + longest
         \/ Ahead(cc) /\ left[cc] > Rest

\* What the daemon reads of a kept ticket is too much by no more than a slip.
Trusted == \A cc \in kept : ~Abroad(cc) /\ shown[cc] <= left[cc] + Slip(cc)

\* No call outlasts its timeout, and none is running once the last profile is done.
Budget ==
    /\ pc = "poll" => spent <= StatusTimeout /\ (at = Len(selected) + 1 => spent = 0)
    /\ pc = "lookup" => spent = 0
    /\ pc = "kinit" => spent <= AcquireTimeout

\* The daemon's times are within the bounds, and so are those of the profiles
\* that it and a refresh are working on.
Clock(slowest, longest) ==
    /\ Running => interval <= slowest
    /\ until > 0 => until <= interval
    /\ InCycle => Len(selected) * Turn <= longest
    /\ \A i \in DOMAIN selected : Lasts(selected[i], slowest + 2 * longest)
    /\ \A i \in DOMAIN cli : Lasts(cli[i], slowest + 2 * longest)
    /\ Budget

-----------------------------------------------------------------------------
(* Arithmetic. *)

LEMMA TurnType == Turn \in Nat /\ StatusTimeout \in Nat /\ AcquireTimeout \in Nat
BY DaemonAssumption DEF Turn

LEMMA Times ==
    ASSUME NEW m \in Int, NEW n \in Int, NEW t \in Nat
    PROVE  /\ m * t \in Int
           /\ (m - 1) * t + t = m * t
           /\ m <= n => m * t <= n * t
           /\ m >= 0 => m * t >= 0
<1>1. m * t \in Int /\ n * t \in Int
    OBVIOUS
<1>2. (m - 1) * t + t = m * t
    OBVIOUS
<1>3. ASSUME m <= n PROVE m * t <= n * t
    <2>1. n - m \in Nat
        BY <1>3
    <2>2. (n - m) * t >= 0
        BY <2>1
    <2>3. (n - m) * t = n * t - m * t
        OBVIOUS
    <2> QED BY <1>1, <2>2, <2>3
<1>4. ASSUME m >= 0 PROVE m * t >= 0
    BY <1>4
<1> QED BY <1>1, <1>2, <1>3, <1>4

-----------------------------------------------------------------------------
(* How long a cycle can take. *)

\* What is left of a cycle is never negative, and never more than a turn for each
\* of its profiles.
LEMMA RestType == TypeOK /\ Budget /\ InCycle => Rest \in 0 .. Len(selected) * Turn
<1> SUFFICES ASSUME TypeOK, Budget, InCycle
             PROVE  Rest \in 0 .. Len(selected) * Turn
    OBVIOUS
<1>1. spent \in Nat /\ at \in Nat /\ Len(selected) \in Nat
    BY DEF TypeOK, DaemonTypeOK
<1> DEFINE m == Len(selected) - at
<1>2. m \in Int /\ m + 1 \in Int /\ m + 1 <= Len(selected) /\ m + 1 >= 0
    BY <1>1 DEF TypeOK, DaemonTypeOK
<1>3. m * Turn \in Int /\ (m + 1) * Turn = m * Turn + Turn
    BY <1>2, TurnType, Times
<1>4. (m + 1) * Turn <= Len(selected) * Turn /\ Len(selected) * Turn \in Int
    BY <1>1, <1>2, TurnType, Times
<1>5. (m + 1) * Turn >= 0
    BY <1>2, TurnType, Times
<1>6. m >= 0 => m * Turn >= 0
    BY <1>2, TurnType, Times
<1>7. pc # "poll" => m >= 0
    BY <1>1 DEF TypeOK, DaemonTypeOK, InCycle
<1>8. CASE pc = "poll"
    <2>1. Rest = m * Turn + Turn - spent
        BY <1>8 DEF Rest
    <2>2. m >= 0 \/ spent = 0
        BY <1>1, <1>2, <1>8 DEF Budget
    <2>3. spent <= Turn
        BY <1>1, <1>8, TurnType DEF Budget, Turn
    <2> HIDE DEF m
    <2> QED BY <1>1, <1>2, <1>3, <1>4, <1>5, <1>6, <2>1, <2>2, <2>3, TurnType
<1>9. CASE pc # "poll"
    <2>1. PICK x \in 0 .. AcquireTimeout : Rest = m * Turn + x
        <3>1. CASE pc = "lookup"
            BY <3>1, TurnType DEF Rest
        <3>2. CASE pc = "kinit"
            <4>1. AcquireTimeout - spent \in 0 .. AcquireTimeout
                BY <1>1, <3>2, TurnType DEF Budget
            <4>2. Rest = m * Turn + (AcquireTimeout - spent)
                BY <1>1, <1>3, <3>2, TurnType DEF Rest
            <4> QED BY <4>1, <4>2
        <3>3. CASE pc = "result"
            BY <1>3, <3>3, TurnType DEF Rest
        <3> QED BY <1>9, <3>1, <3>2, <3>3 DEF InCycle
    <2>2. AcquireTimeout <= Turn
        BY TurnType DEF Turn
    <2> HIDE DEF m
    <2> QED BY <1>1, <1>2, <1>3, <1>4, <1>6, <1>7, <1>9, <2>1, <2>2, TurnType
<1> QED BY <1>8, <1>9

LEMMA RestTypeNext == (TypeOK /\ Budget /\ InCycle => Rest \in 0 .. Len(selected) * Turn)'
BY RestType, PTL

\* At the end of a profile's turn the rest of the cycle is shorter by a turn.
LEMMA RestNext ==
    ASSUME TypeOK, Budget, at \in DOMAIN selected, pc \in {"poll", "result"}, NextProfile
    PROVE  /\ Rest' = (Len(selected) - at) * Turn
           /\ Rest' \in Int /\ Rest \in Int /\ Rest' <= Rest
<1>1. /\ at \in Nat /\ Len(selected) \in Nat /\ at >= 1 /\ at <= Len(selected) /\ spent \in Nat
      /\ selected' = selected /\ at' = at + 1 /\ pc' = "poll" /\ spent' = 0
    BY DEF TypeOK, DaemonTypeOK, NextProfile
<1>2. (Len(selected) - at - 1) * Turn + Turn = (Len(selected) - at) * Turn
      /\ (Len(selected) - at) * Turn \in Int /\ (Len(selected) - at - 1) * Turn \in Int
    BY <1>1, TurnType, Times
<1>3. Len(selected) - (at + 1) = Len(selected) - at - 1
    BY <1>1
<1>4. Rest' = (Len(selected) - at) * Turn
    <2>1. Rest' = (Len(selected) - (at + 1)) * Turn + Turn - 0
        BY <1>1 DEF Rest, Turn
    <2> QED BY <1>2, <1>3, <2>1, TurnType
<1>5. Rest \in Int /\ Rest' <= Rest
    <2>1. CASE pc = "poll"
        <3>1. spent <= Turn
            BY <1>1, <2>1, TurnType DEF Budget, Turn
        <3>2. PICK q \in Int : q = (Len(selected) - at) * Turn
            BY <1>2
        <3>3. Rest = q + Turn - spent
            BY <2>1, <3>2 DEF Rest
        <3>4. Rest' = q
            BY <1>4, <3>2
        <3> QED BY <1>1, <3>1, <3>3, <3>4, TurnType
    <2>2. CASE pc = "result"
        BY <1>2, <1>4, <2>2 DEF Rest
    <2> QED BY <2>1, <2>2
<1> QED BY <1>2, <1>4, <1>5

\* Within a turn, what is left of it only becomes less.
LEMMA RestSame ==
    ASSUME TypeOK, Budget, at \in DOMAIN selected, UNCHANGED <<selected, at>>, spent' = 0,
           \/ pc = "poll" /\ pc' = "lookup"
           \/ pc = "lookup" /\ pc' = "kinit"
           \/ pc \in {"lookup", "kinit"} /\ pc' = "result"
    PROVE  Rest \in Int /\ Rest' \in Int /\ Rest' <= Rest
<1>1. at \in Nat /\ Len(selected) \in Nat /\ spent \in Nat
    BY DEF TypeOK, DaemonTypeOK
<1>2. PICK q \in Int : q = (Len(selected) - at) * Turn
    BY <1>1, TurnType, Times
<1>3. CASE pc = "poll" /\ pc' = "lookup"
    <2>1. Rest = q + Turn - spent /\ Rest' = q + AcquireTimeout
        BY <1>2, <1>3 DEF Rest, Turn
    <2>2. spent <= StatusTimeout
        BY <1>3 DEF Budget
    <2> QED BY <1>1, <2>1, <2>2, TurnType DEF Turn
<1>4. CASE pc = "lookup" /\ pc' = "kinit"
    <2>1. Rest = q + AcquireTimeout /\ Rest' = q + AcquireTimeout - 0
        BY <1>2, <1>4 DEF Rest, Turn
    <2> QED BY <2>1, TurnType
<1>5. CASE pc = "lookup" /\ pc' = "result"
    <2>1. Rest = q + AcquireTimeout /\ Rest' = q
        BY <1>2, <1>5 DEF Rest, Turn
    <2> QED BY <2>1, TurnType
<1>6. CASE pc = "kinit" /\ pc' = "result"
    <2>1. Rest = q + AcquireTimeout - spent /\ Rest' = q
        BY <1>2, <1>6 DEF Rest, Turn
    <2>2. spent <= AcquireTimeout
        BY <1>6 DEF Budget
    <2> QED BY <1>1, <2>1, <2>2, TurnType
<1> QED BY <1>3, <1>4, <1>5, <1>6

\* Every step keeps the calls within their timeouts.
LEMMA BudgetStep ==
    ASSUME TypeOK, Budget, [Next]_vars
    PROVE  Budget'
<1>0. /\ at \in Nat /\ spent \in Nat /\ Len(selected) \in Nat
      /\ StatusTimeout \in Nat /\ AcquireTimeout \in Nat
    BY TurnType DEF TypeOK, DaemonTypeOK
<1>1. ASSUME UNCHANGED <<pc, selected, at, spent>> PROVE Budget'
    BY <1>1 DEF Budget
<1>2. ASSUME spent' = 0 PROVE Budget'
    BY <1>0, <1>2 DEF Budget
<1>3. ASSUME ~InCycle' PROVE Budget'
    BY <1>3 DEF Budget, InCycle
<1>4. CASE UNCHANGED vars
    BY <1>1, <1>4 DEF vars, daemonVars, loopVars
<1>5. CASE DaemonStarts
    BY <1>2, <1>3, <1>5 DEF DaemonStarts, StartDaemon, StartFails, BeginCycle, InCycle
<1>6. CASE DaemonStops
    BY <1>2, <1>6 DEF DaemonStops, Exit, Crash, Gone
<1>7. CASE DaemonSignalled
    BY <1>1, <1>7 DEF DaemonSignalled, Signal, loopVars
<1>8. CASE DaemonLoops
    BY <1>1, <1>2, <1>3, <1>8 DEF DaemonLoops, StartCycle, EndCycle, BeginCycle, Gone, loopVars, InCycle
<1>9. CASE DaemonChecks \/ DaemonAcquires
    <2>1. spent' = 0 \/ (spent' = spent /\ pc = "lookup")
        BY <1>9 DEF DaemonChecks, DaemonAcquires, SkipBlocked, CheckStatus, LookupPassword,
                    KinitAnswered, KinitKilled, HandleResult, NextProfile, Fails
    <2> QED BY <1>2, <2>1 DEF Budget
<1>10. CASE Refreshes
    BY <1>1, <1>10 DEF Refreshes, RefreshStarts, RefreshAcquires, daemonVars, loopVars
<1>11. CASE (\E f \in Files : Edit(f)) \/ NetworkChanges \/ Meddling \/ ZoneChanges \/ Sleep
    BY <1>1, <1>11 DEF Edit, NetworkChanges, Meddling, Destroy, DestroyTGT, TakeOver, Meddles,
                       ZoneChanges, Sleep, daemonVars, loopVars
<1>12. ASSUME NEW c \in Credential, PasswordChanges(c) \/ \E v \in VaultState : KeychainChanges(c, v)
       PROVE  Budget'
    BY <1>1, <1>12 DEF PasswordChanges, KeychainChanges, daemonVars, loopVars
<1>13. CASE Tick
    <2>1. /\ UNCHANGED <<pc, selected, at>> /\ Idle
          /\ spent' = IF pc \in {"poll", "kinit"} THEN spent + 1 ELSE spent
        BY <1>13 DEF Tick, TimerTick
    <2>2. /\ pc = "poll" => at \in DOMAIN selected /\ spent < StatusTimeout
          /\ pc = "kinit" => spent < AcquireTimeout
        BY <2>1 DEF Idle, Running, InCycle, Prompting
    <2>3. pc = "poll" => at # Len(selected) + 1
        BY <1>0, <2>2
    <2> QED BY <1>0, <2>1, <2>2, <2>3 DEF Budget
<1> QED
    BY <1>4, <1>5, <1>6, <1>7, <1>8, <1>9, <1>10, <1>11, <1>12, <1>13 DEF Next, Daemons, Surroundings

\* What is left of a cycle, in calls and in time, after any step within it.
LEMMA CycleStep ==
    ASSUME TypeOK, Budget, Next, InCycle, InCycle'
    PROVE  /\ UNCHANGED <<pc, at>> \/ Calls' < Calls
           /\ Rest' \in 0 .. Rest
           /\ Tick => Rest' < Rest \/ Prompting
<1>0. /\ at \in Nat /\ spent \in Nat /\ Len(selected) \in Nat /\ at \in 1 .. Len(selected) + 1
      /\ Rest \in Int /\ Rest' \in Nat
    <2>1. TypeOK' /\ Budget'
        BY TypeStep, BudgetStep
    <2>2. Len(selected') \in Nat
        BY <2>1 DEF TypeOK, DaemonTypeOK
    <2>3. Rest \in 0 .. Len(selected) * Turn /\ Len(selected) * Turn \in Int
        <3>1. Len(selected) \in Nat
            BY DEF TypeOK, DaemonTypeOK
        <3> QED BY <3>1, TurnType, Times, RestType
    <2>4. Rest' \in 0 .. Len(selected') * Turn /\ Len(selected') * Turn \in Int
        <3>1. Rest' \in 0 .. Len(selected') * Turn'
            BY <2>1, RestTypeNext
        <3>2. Turn' = Turn
            BY DEF Turn
        <3> QED BY <2>2, <3>1, <3>2, TurnType, Times
    <2> QED BY <2>3, <2>4 DEF TypeOK, DaemonTypeOK
<1>1. ASSUME UNCHANGED <<pc, selected, at, spent>>
      PROVE  UNCHANGED <<pc, at>> /\ Rest' = Rest
    BY <1>1 DEF Rest, Turn
<1>2. CASE Tick
    <2>1. /\ UNCHANGED <<pc, selected, at>> /\ Idle
          /\ spent' = IF pc \in {"poll", "kinit"} THEN spent + 1 ELSE spent
        BY <1>2 DEF Tick, TimerTick
    <2>2. CASE Prompting
        BY <1>0, <1>1, <2>1, <2>2 DEF Prompting
    <2>3. CASE ~Prompting
        <3>1. pc \in {"poll", "kinit"}
            BY <2>1, <2>3 DEF Idle, Running, InCycle
        <3>2. PICK q \in Int : q = (Len(selected) - at) * Turn
            BY <1>0, TurnType, Times
        <3>3. Rest' = Rest - 1
            <4>1. CASE pc = "poll"
                <5>1. Rest = q + Turn - spent /\ Rest' = q + Turn - (spent + 1)
                    BY <2>1, <3>2, <4>1 DEF Rest, Turn
                <5> QED BY <1>0, <5>1, TurnType
            <4>2. CASE pc = "kinit"
                <5>1. Rest = q + AcquireTimeout - spent /\ Rest' = q + AcquireTimeout - (spent + 1)
                    BY <2>1, <3>2, <4>2 DEF Rest, Turn
                <5> QED BY <1>0, <5>1, TurnType
            <4> QED BY <3>1, <4>1, <4>2
        <3> QED BY <1>0, <2>1, <3>3
    <2> QED BY <2>2, <2>3
<1>3. ASSUME at \in DOMAIN selected, pc \in {"poll", "result"}, NextProfile
      PROVE  Calls' < Calls /\ Rest' <= Rest
    <2>1. selected' = selected /\ at' = at + 1 /\ pc' = "poll"
        BY <1>3 DEF NextProfile
    <2>2. Calls' = 4 * (Len(selected) - (at + 1)) + 4 /\ Calls \in {4 * (Len(selected) - at) + 4, 4 * (Len(selected) - at) + 1}
        BY <1>3, <2>1 DEF Calls
    <2> QED BY <1>0, <1>3, <2>2, RestNext
<1>4. ASSUME at \in DOMAIN selected, UNCHANGED <<selected, at>>, spent' = 0,
             \/ pc = "poll" /\ pc' = "lookup"
             \/ pc = "lookup" /\ pc' = "kinit"
             \/ pc \in {"lookup", "kinit"} /\ pc' = "result"
      PROVE  Calls' < Calls /\ Rest' <= Rest
    BY <1>0, <1>4, RestSame DEF Calls
<1>5. CASE DaemonStarts \/ DaemonStops
    BY <1>5 DEF DaemonStarts, DaemonStops, StartDaemon, StartFails, Exit, Crash, Gone, InCycle, Ended
<1>6. CASE DaemonSignalled
    BY <1>0, <1>1, <1>2, <1>6 DEF DaemonSignalled, Signal, loopVars
<1>7. CASE DaemonLoops
    BY <1>7 DEF DaemonLoops, StartCycle, EndCycle, Gone, InCycle
<1>8. CASE SkipBlocked
    BY <1>0, <1>2, <1>3, <1>8 DEF SkipBlocked
<1>9. CASE CheckStatus
    BY <1>0, <1>2, <1>3, <1>4, <1>9 DEF CheckStatus
<1>10. CASE LookupPassword
    <2>1. at \in DOMAIN selected /\ spent = 0
        BY <1>10 DEF LookupPassword, TypeOK, DaemonTypeOK, Budget
    <2> QED BY <1>0, <1>2, <1>4, <1>10, <2>1 DEF LookupPassword, Fails
<1>11. CASE KinitAnswered \/ KinitKilled
    <2>1. at \in DOMAIN selected
        BY <1>11 DEF KinitAnswered, KinitKilled, TypeOK, DaemonTypeOK
    <2> QED BY <1>0, <1>2, <1>4, <1>11, <2>1 DEF KinitAnswered, KinitKilled, Fails
<1>12. CASE HandleResult
    <2>1. at \in DOMAIN selected
        BY <1>12 DEF HandleResult, TypeOK, DaemonTypeOK
    <2> QED BY <1>0, <1>2, <1>3, <1>12, <2>1 DEF HandleResult
<1>13. CASE Refreshes
    <2>1. UNCHANGED <<pc, selected, at, spent>>
        BY <1>13 DEF Refreshes, RefreshStarts, RefreshAcquires, daemonVars, loopVars
    <2> QED BY <1>0, <1>1, <1>2, <2>1
<1>14. CASE (\E f \in Files : Edit(f)) \/ NetworkChanges \/ Meddling \/ ZoneChanges \/ Sleep
    <2>1. UNCHANGED <<pc, selected, at, spent>>
        BY <1>14 DEF Edit, NetworkChanges, Meddling, Destroy, DestroyTGT, TakeOver, Meddles,
                     ZoneChanges, Sleep, daemonVars, loopVars
    <2> QED BY <1>0, <1>1, <1>2, <2>1
<1>15. ASSUME NEW c \in Credential, PasswordChanges(c) \/ \E v \in VaultState : KeychainChanges(c, v)
       PROVE  UNCHANGED <<pc, selected, at, spent>>
    BY <1>15 DEF PasswordChanges, KeychainChanges, daemonVars, loopVars
<1>16. CASE \E c \in Credential : PasswordChanges(c) \/ \E v \in VaultState : KeychainChanges(c, v)
    BY <1>0, <1>1, <1>2, <1>15, <1>16
<1> QED
    BY <1>2, <1>5, <1>6, <1>7, <1>8, <1>9, <1>10, <1>11, <1>12, <1>13, <1>14, <1>16
    DEF Next, Daemons, DaemonChecks, DaemonAcquires, Surroundings

\* A cycle is soon over: it makes at most a klist, a lookup and a kinit for each of
\* its profiles, and takes at most Turn for each, time in prompts not counted; so
\* neither the next poll nor the end of a daemon told to stop waits for longer.
THEOREM CyclesEnd == Spec => CycleIsBounded
<1>1. Init => Budget
    BY DEF Init, DaemonInit, Budget
<1>2. TypeOK /\ Budget /\ [Next]_vars => Budget'
    BY BudgetStep
<1>3. TypeOK /\ Budget /\ [Next]_vars
        => [InCycle /\ InCycle' =>
              /\ UNCHANGED <<pc, at>> \/ Calls' < Calls
              /\ Rest' \in 0 .. Rest
              /\ Tick => Rest' < Rest \/ Prompting]_vars
    BY CycleStep
<1> QED BY <1>1, <1>2, <1>3, TypeCorrect, PTL DEF Spec, CycleIsBounded

\* A cycle is within its bound, and so is the wait after it.
LEMMA RestBounds ==
    ASSUME NEW slowest \in Nat, NEW longest \in Nat,
           TypeOK, TickerOK, Clock(slowest, longest), Running
    PROVE  /\ Rest \in 0 .. longest
           /\ Wait \in 0 .. slowest
<1>1. interval \in Int /\ until \in Int /\ Len(selected) \in Nat
    BY DEF TypeOK, DaemonTypeOK
<1>2. Wait \in 0 .. slowest
    BY <1>1 DEF Wait, Clock
<1>3. CASE pc = "select"
    BY <1>2, <1>3 DEF Rest
<1>4. CASE InCycle
    <2>1. Budget
        BY DEF Clock
    <2>2. Len(selected) * Turn \in Int /\ Len(selected) * Turn <= longest
        BY <1>1, <1>4, TurnType, Times DEF Clock
    <2> QED BY <1>2, <1>4, <2>1, <2>2, RestType
<1> QED BY <1>3, <1>4 DEF Running

-----------------------------------------------------------------------------
(* The clock. *)

\* A file the daemon can use gives it profiles that last.
LEMMA SelectedLasts ==
    ASSUME NEW slowest, NEW longest, Paced(slowest, longest),
           NEW f \in Files, NEW names \in Seq(Name), Usable(f, names)
    PROVE  \A i \in DOMAIN Selected(f, names) :
             Lasts(Selected(f, names)[i], slowest + 2 * longest)
<1>1. f \in RawFile
    BY DaemonAssumption
<1>2. \A i \in DOMAIN Selected(f, names) :
        \E j \in DOMAIN f.profiles : Selected(f, names)[i] = Normalize(f.profiles[j])
    BY <1>1, SelectedType
<1> QED BY <1>2 DEF Paced, Usable

\* A cycle begins with profiles that last, and takes no longer than the bound.
LEMMA ClockBegin ==
    ASSUME NEW slowest \in Nat, NEW longest \in Nat, Paced(slowest, longest), TypeOK,
           Usable(file, Wanted), BeginCycle(Selected(file, Wanted))
    PROVE  /\ pc' = "poll" /\ at' = 1 /\ spent' = 0
           /\ Len(selected') * Turn <= longest
           /\ \A i \in DOMAIN selected' : Lasts(selected'[i], slowest + 2 * longest)
<1>1. file \in Files /\ Wanted \in Seq(Name)
    BY DaemonAssumption DEF TypeOK, DaemonTypeOK
<1>2. selected' = Selected(file, Wanted)
    BY DEF BeginCycle
<1>3. Len(selected') * Turn <= longest
    BY <1>1, <1>2 DEF Paced, Turn
<1>4. \A i \in DOMAIN selected' : Lasts(selected'[i], slowest + 2 * longest)
    BY <1>1, <1>2, SelectedLasts
<1> QED BY <1>3, <1>4 DEF BeginCycle

\* A daemon that is not running has no times to keep.
LEMMA ClockGone ==
    ASSUME NEW slowest, NEW longest, Clock(slowest, longest), NEW how \in Ended,
           Gone(how), UNCHANGED cli
    PROVE  Clock(slowest, longest)'
<1>1. selected' = <<>> /\ pc' = how /\ until' = 0
    BY DEF Gone
<1>2. \A i \in DOMAIN selected' : Lasts(selected'[i], slowest + 2 * longest)
    BY <1>1
<1>3. \A i \in DOMAIN cli' : Lasts(cli'[i], slowest + 2 * longest)
    BY DEF Clock
<1> HIDE DEF Lasts
<1> QED BY <1>1, <1>2, <1>3 DEF Clock, Budget, Running, InCycle, Ended

\* Within a cycle only the place in it and the time spent there change.
LEMMA ClockWithin ==
    ASSUME NEW slowest, NEW longest, Clock(slowest, longest), Within,
           UNCHANGED <<selected, cli>>,
           spent' = 0 \/ (spent' = spent /\ pc = "lookup"),
           pc' # "poll" \/ spent' = 0
    PROVE  Clock(slowest, longest)'
<1>1. \A i \in DOMAIN selected' : Lasts(selected'[i], slowest + 2 * longest)
    BY DEF Clock
<1>2. \A i \in DOMAIN cli' : Lasts(cli'[i], slowest + 2 * longest)
    BY DEF Clock
<1>3. spent' = 0
    BY DEF Clock, Budget
<1>4. /\ Running' => interval' <= slowest
      /\ until' > 0 => until' <= interval'
      /\ InCycle' => Len(selected') * Turn <= longest
    BY DEF Within, timerVars, Running, Clock, Turn
<1>5. spent' <= StatusTimeout /\ spent' <= AcquireTimeout
    BY <1>3, TurnType
<1> QED BY <1>1, <1>2, <1>3, <1>4, <1>5 DEF Clock, Budget, Turn

\* Whatever leaves the daemon's loop and the refresh alone leaves their times alone.
LEMMA ClockSame ==
    ASSUME NEW slowest, NEW longest, Clock(slowest, longest),
           UNCHANGED <<pc, selected, at, spent, timerVars, cli>>
    PROVE  Clock(slowest, longest)'
<1>1. \A i \in DOMAIN selected' : Lasts(selected'[i], slowest + 2 * longest)
    BY DEF Clock
<1>2. \A i \in DOMAIN cli' : Lasts(cli'[i], slowest + 2 * longest)
    BY DEF Clock
<1> QED BY <1>1, <1>2 DEF Clock, Budget, timerVars, Running, InCycle, Turn

\* Every step keeps the daemon's times within the bounds.
LEMMA ClockStep ==
    ASSUME NEW slowest \in Nat, NEW longest \in Nat, Paced(slowest, longest),
           TypeOK, TickerOK, Clock(slowest, longest), [Next]_vars
    PROVE  Clock(slowest, longest)'
<1>0. /\ interval \in Int /\ until \in Int /\ at \in Nat /\ spent \in Nat
      /\ file \in Files /\ selected \in Seq(Profile) /\ cli \in Seq(Profile)
      /\ Wanted \in Seq(Name)
    BY DaemonAssumption DEF TypeOK, DaemonTypeOK
<1>1. CASE UNCHANGED vars
    BY <1>1, ClockSame DEF vars, daemonVars, loopVars
<1>2. CASE DaemonStarts
    <2>1. CASE StartFails
        <3>1. /\ pc' = "failed" /\ UNCHANGED <<interval, until, selected, cli>>
            BY <1>2, <2>1 DEF DaemonStarts, StartFails, Over, timerVars
        <3>2. \A i \in DOMAIN selected' : Lasts(selected'[i], slowest + 2 * longest)
            BY <3>1 DEF Clock
        <3>3. \A i \in DOMAIN cli' : Lasts(cli'[i], slowest + 2 * longest)
            BY <3>1 DEF Clock
        <3> QED BY <3>1, <3>2, <3>3 DEF Clock, Budget, Running, InCycle
    <2>2. CASE StartDaemon
        <3>1. /\ pc \in Ended /\ Usable(file, Wanted) /\ BeginCycle(Selected(file, Wanted))
              /\ interval' = PollInterval(file) /\ until' = until /\ cli' = cli
            BY <1>2, <2>2 DEF DaemonStarts, StartDaemon, Over
        <3>2. interval' <= slowest /\ until' = 0
            BY <1>0, <3>1 DEF Paced, TickerOK
        <3>3. /\ pc' = "poll" /\ at' = 1 /\ spent' = 0
              /\ Len(selected') * Turn <= longest
              /\ \A i \in DOMAIN selected' : Lasts(selected'[i], slowest + 2 * longest)
            BY <3>1, ClockBegin
        <3>4. \A i \in DOMAIN cli' : Lasts(cli'[i], slowest + 2 * longest)
            BY <3>1 DEF Clock
        <3> QED BY <3>2, <3>3, <3>4, TurnType DEF Clock, Budget, Turn
    <2> QED BY <1>2, <2>1, <2>2 DEF DaemonStarts
<1>3. CASE DaemonStops
    BY <1>3, ClockGone DEF DaemonStops, Over, Exit, Crash, Ended
<1>4. CASE DaemonSignalled
    BY <1>4, ClockSame DEF DaemonSignalled, Signal, loopVars
<1>5. CASE StartCycle /\ Unobserved
    <2>1. CASE Usable(file, Wanted)
        <3>1. /\ pc = "select" /\ BeginCycle(Selected(file, Wanted))
              /\ UNCHANGED <<interval, until, cli>>
            BY <1>5, <2>1 DEF StartCycle, Unobserved
        <3>2. /\ pc' = "poll" /\ at' = 1 /\ spent' = 0
              /\ Len(selected') * Turn <= longest
              /\ \A i \in DOMAIN selected' : Lasts(selected'[i], slowest + 2 * longest)
            BY <2>1, <3>1, ClockBegin
        <3>3. \A i \in DOMAIN cli' : Lasts(cli'[i], slowest + 2 * longest)
            BY <3>1 DEF Clock
        <3>4. interval' <= slowest /\ (until' > 0 => until' <= interval')
            BY <3>1 DEF Clock, Running
        <3> QED BY <3>2, <3>3, <3>4, TurnType DEF Clock, Budget, Turn
    <2>2. CASE ~Usable(file, Wanted)
        <3>1. UNCHANGED <<pc, selected, spent, interval, until, cli>> /\ pc = "select"
            BY <1>5, <2>2 DEF StartCycle, Unobserved, loopVars
        <3>2. \A i \in DOMAIN selected' : Lasts(selected'[i], slowest + 2 * longest)
            BY <3>1 DEF Clock
        <3>3. \A i \in DOMAIN cli' : Lasts(cli'[i], slowest + 2 * longest)
            BY <3>1 DEF Clock
        <3> QED BY <3>1, <3>2, <3>3 DEF Clock, Budget, Running, InCycle
    <2> QED BY <2>1, <2>2
<1>6. CASE EndCycle /\ UNCHANGED cli
    <2>1. CASE Gone("panicked")
        BY <1>6, <2>1, ClockGone DEF Ended
    <2>2. CASE ~Gone("panicked")
        <3>1. /\ pc = "poll" /\ pc' = "select" /\ selected' = <<>>
              /\ until' = IF until = 0 THEN interval ELSE until
              /\ UNCHANGED <<interval, cli>>
            BY <1>6, <2>2 DEF EndCycle
        <3>2. \A i \in DOMAIN selected' : Lasts(selected'[i], slowest + 2 * longest)
            BY <3>1
        <3>3. \A i \in DOMAIN cli' : Lasts(cli'[i], slowest + 2 * longest)
            BY <3>1 DEF Clock
        <3>4. interval' <= slowest /\ (until' > 0 => until' <= interval')
            BY <1>0, <3>1 DEF Clock, Running, InCycle
        <3> QED BY <3>1, <3>2, <3>3, <3>4 DEF Clock, Budget, Running, InCycle
    <2> QED BY <2>1, <2>2
<1>7. CASE DaemonChecks \/ DaemonAcquires
    <2>1. Within
        BY <1>7, StepsWithin
    <2>2. UNCHANGED <<selected, cli>>
        BY <1>7 DEF DaemonChecks, DaemonAcquires, Unobserved, SkipBlocked, CheckStatus, LookupPassword,
                    KinitAnswered, KinitKilled, HandleResult, NextProfile, Fails
    <2>3. /\ spent' = 0 \/ (spent' = spent /\ pc = "lookup")
          /\ pc' # "poll" \/ spent' = 0
        BY <1>7 DEF DaemonChecks, DaemonAcquires, SkipBlocked, CheckStatus, LookupPassword,
                    KinitAnswered, KinitKilled, HandleResult, NextProfile, Fails
    <2> QED BY <2>1, <2>2, <2>3, ClockWithin
<1>8. ASSUME NEW names \in Seq(Name), RefreshStarts(names) PROVE Clock(slowest, longest)'
    <2>1. /\ cli' = Selected(file, names) /\ Usable(file, names)
          /\ UNCHANGED <<pc, selected, at, spent, interval, until>>
        BY <1>8 DEF RefreshStarts, daemonVars, loopVars, timerVars
    <2>2. \A i \in DOMAIN selected' : Lasts(selected'[i], slowest + 2 * longest)
        BY <2>1 DEF Clock
    <2>3. \A i \in DOMAIN cli' : Lasts(cli'[i], slowest + 2 * longest)
        BY <1>0, <2>1, SelectedLasts
    <2> QED BY <2>1, <2>2, <2>3 DEF Clock, Budget, Running, InCycle, Turn
<1>9. CASE RefreshAcquires
    <2>1. /\ cli # <<>> /\ cli' = Tail(cli)
          /\ UNCHANGED <<pc, selected, at, spent, interval, until>>
        BY <1>9 DEF RefreshAcquires, daemonVars, loopVars, timerVars
    <2>2. \A i \in DOMAIN selected' : Lasts(selected'[i], slowest + 2 * longest)
        BY <2>1 DEF Clock
    <2>3. \A i \in DOMAIN cli' : i + 1 \in DOMAIN cli /\ cli'[i] = cli[i + 1]
        BY <1>0, <2>1
    <2>4. \A i \in DOMAIN cli' : Lasts(cli'[i], slowest + 2 * longest)
        BY <2>3 DEF Clock
    <2> QED BY <2>1, <2>2, <2>4 DEF Clock, Budget, Running, InCycle, Turn
<1>10. ASSUME NEW f \in Files, Edit(f) PROVE Clock(slowest, longest)'
    BY <1>10, ClockSame DEF Edit, daemonVars, loopVars
<1>11. ASSUME NEW c \in Credential, PasswordChanges(c) \/ \E v \in VaultState : KeychainChanges(c, v)
       PROVE  Clock(slowest, longest)'
    BY <1>11, ClockSame DEF PasswordChanges, KeychainChanges, daemonVars, loopVars
<1>12. CASE NetworkChanges \/ Meddling \/ ZoneChanges \/ Sleep
    BY <1>12, ClockSame DEF NetworkChanges, Meddling, Destroy, DestroyTGT, TakeOver, Meddles,
                            ZoneChanges, Sleep, daemonVars, loopVars
<1>13. CASE Tick
    <2>1. /\ UNCHANGED <<pc, selected, at, interval, cli>> /\ Idle
          /\ until' = IF until = 1 THEN interval ELSE IF until > 1 THEN until - 1 ELSE until
          /\ spent' = IF pc \in {"poll", "kinit"} THEN spent + 1 ELSE spent
        BY <1>13 DEF Tick, TimerTick
    <2>2. \A i \in DOMAIN selected' : Lasts(selected'[i], slowest + 2 * longest)
        BY <2>1 DEF Clock
    <2>3. \A i \in DOMAIN cli' : Lasts(cli'[i], slowest + 2 * longest)
        BY <2>1 DEF Clock
    <2>4. until' > 0 => until' <= interval'
        BY <1>0, <2>1 DEF Clock
    <2>5. pc = "poll" => at \in DOMAIN selected /\ spent < StatusTimeout
        BY <2>1 DEF Idle, Running, InCycle, Prompting
    <2>6. pc = "kinit" => spent < AcquireTimeout
        BY <2>1 DEF Idle, Running, InCycle, Prompting
    <2>7. pc = "poll" => at # Len(selected) + 1
        BY <1>0, <2>5
    <2>8. Budget'
        BY <1>0, <2>1, <2>5, <2>6, <2>7, TurnType DEF Clock, Budget
    <2> QED BY <2>1, <2>2, <2>3, <2>4, <2>8 DEF Clock, Running, InCycle, Turn
<1> QED
    <2>1. Refreshes => RefreshAcquires \/ \E names \in Seq(Name) : RefreshStarts(names)
        <3>1. <<>> \in Seq(Name) /\ \A n \in Name : <<n>> \in Seq(Name)
            OBVIOUS
        <3> QED BY <3>1 DEF Refreshes
    <2>2. DaemonLoops => (StartCycle /\ Unobserved) \/ (EndCycle /\ UNCHANGED cli)
        BY DEF DaemonLoops, Over, Unobserved
    <2> QED BY <1>1, <1>2, <1>3, <1>4, <1>5, <1>6, <1>7, <1>8, <1>9, <1>10, <1>11, <1>12, <1>13,
               <2>1, <2>2 DEF Next, Daemons, Surroundings

-----------------------------------------------------------------------------
(* The tickets. *)

\* A step that takes no time keeps the tickets it does not let lapse, if the cycle
\* still looks at the caches it was to look at, but for those good for longer.
LEMMA NoTime ==
    ASSUME NEW slowest \in Nat, NEW longest \in Nat, Keeps(longest),
           Running => Rest \in 0 .. longest /\ Wait \in 0 .. slowest,
           Rest' \in Int, Wait' \in Int,
           TypeOK, kept' \subseteq kept, \A cc \in kept' : left'[cc] = left[cc],
           file' = file, stopping' = stopping, Running => Running',
           Rest' <= Rest, Wait' <= Wait,
           \A cc \in kept' : Ahead(cc) => Ahead(cc)' \/ left[cc] > Rest' + Wait' + longest
    PROVE  Keeps(longest)'
<1> SUFFICES ASSUME NEW cc \in kept'
             PROVE  /\ Running' /\ ~stopping'
                    /\ Covers(file, cc)'
                    /\ \/ left'[cc] > Rest' + Wait' + longest
                       \/ Ahead(cc)' /\ left'[cc] > Rest'
    BY DEF Keeps
<1>1. cc \in kept /\ left[cc] \in Int /\ left'[cc] = left[cc]
    BY DEF TypeOK, KrbTypeOK
<1>2. Running /\ ~stopping /\ Covers(file, cc)
    BY <1>1 DEF Keeps
<1>3. ~stopping'
    BY <1>2
<1>4. Covers(file, cc)'
    BY <1>2
<1>5. left[cc] > Rest + Wait + longest \/ (Ahead(cc) /\ left[cc] > Rest)
    BY <1>1 DEF Keeps
<1>6. left[cc] > Rest' + Wait' + longest \/ (Ahead(cc)' /\ left[cc] > Rest')
    BY <1>1, <1>2, <1>5
<1> QED BY <1>1, <1>2, <1>3, <1>4, <1>6

\* So does a step of anybody that leaves the daemon's loop and the file alone.
LEMMA LoopSame ==
    ASSUME NEW slowest \in Nat, NEW longest \in Nat, Keeps(longest),
           Running => Rest \in 0 .. longest /\ Wait \in 0 .. slowest,
           TypeOK, UNCHANGED <<pc, selected, at, spent, timerVars>>
    PROVE  /\ Rest' = Rest /\ Wait' = Wait /\ Running' = Running
           /\ \A cc \in CCache : Ahead(cc) => Ahead(cc)'
<1>1. Rest' = Rest
    BY DEF Rest, Turn
<1>2. Wait' = Wait
    BY DEF Wait, timerVars
<1>3. Running' = Running
    BY DEF Running, InCycle
<1> QED BY <1>1, <1>2, <1>3 DEF Ahead, InCycle

\* A ticket written now outlasts all of it.
LEMMA Renewed ==
    ASSUME NEW slowest \in Nat, NEW longest \in Nat, Keeps(longest), TypeOK,
           NEW p \in Profile, WriteTicket(p), Written(p.ccache), Lasts(p, slowest + 2 * longest),
           file' = file, stopping' = stopping, Running' = Running,
           Running => Rest \in 0 .. longest /\ Wait \in 0 .. slowest,
           Running => Rest' \in Int /\ Rest' <= Rest /\ Wait' = Wait,
           \A cc \in CCache : cc # p.ccache /\ Ahead(cc) => Ahead(cc)'
    PROVE  Keeps(longest)'
<1> SUFFICES ASSUME NEW cc \in kept'
             PROVE  /\ Running' /\ ~stopping'
                    /\ Covers(file, cc)'
                    /\ \/ left'[cc] > Rest' + Wait' + longest
                       \/ Ahead(cc)' /\ left'[cc] > Rest'
    BY DEF Keeps
<1>1. /\ left \in [CCache -> Nat] /\ kept \subseteq CCache /\ p.ccache \in CCache
      /\ left' = [left EXCEPT ![p.ccache] = Granted(p)]
      /\ Granted(p) \in Nat /\ Granted(p) > slowest + 2 * longest
    BY KrbAssumption DEF TypeOK, KrbTypeOK, Profile, WriteTicket, Lasts, Granted, Requested
<1>2. CASE cc = p.ccache
    <2>1. Running /\ ~stopping /\ Covers(file, cc)
        BY <1>2 DEF Written
    <2>2. ~stopping' /\ Running'
        BY <2>1
    <2>3. Covers(file, cc)'
        BY <2>1
    <2>4. left'[cc] = Granted(p)
        BY <1>1, <1>2
    <2>5. left'[cc] > Rest' + Wait' + longest
        BY <1>1, <2>1, <2>4
    <2> QED BY <2>2, <2>3, <2>5
<1>3. CASE cc # p.ccache
    <2>1. cc \in kept
        BY <1>3 DEF Written
    <2>2. /\ Running /\ ~stopping /\ Covers(file, cc)
          /\ left[cc] > Rest + Wait + longest \/ (Ahead(cc) /\ left[cc] > Rest)
        BY <2>1 DEF Keeps
    <2>3. ~stopping' /\ Running'
        BY <2>2
    <2>4. Covers(file, cc)'
        BY <2>2
    <2>5. left'[cc] = left[cc] /\ left[cc] \in Int /\ cc \in CCache
        BY <1>1, <1>3, <2>1
    <2>6. left'[cc] > Rest' + Wait' + longest \/ (Ahead(cc)' /\ left'[cc] > Rest')
        BY <1>3, <2>2, <2>5
    <2> QED BY <2>3, <2>4, <2>6
<1> QED BY <1>2, <1>3

\* At the end of a profile's turn the rest of the cycle is shorter by a turn.
LEMMA NextTurn ==
    ASSUME TypeOK, NEW slowest \in Nat, NEW longest \in Nat, Clock(slowest, longest),
           at \in DOMAIN selected, NextProfile, UNCHANGED timerVars,
           pc \in {"poll", "result"}
    PROVE  /\ Rest' = (Len(selected) - at) * Turn
           /\ Rest' \in Int /\ Rest \in Int /\ Rest' <= Rest
           /\ Rest' + Turn <= longest
           /\ Wait' = Wait /\ Running'
           /\ \A cc \in CCache :
                cc # Current.ccache \/ pc = "result" => (Ahead(cc) => Ahead(cc)')
<1>1. /\ at \in Nat /\ Len(selected) \in Nat /\ at >= 1 /\ at <= Len(selected)
      /\ selected' = selected /\ at' = at + 1 /\ pc' = "poll"
    BY DEF TypeOK, DaemonTypeOK, NextProfile
<1>2. (Len(selected) - at) * Turn \in Int
    BY <1>1, TurnType, Times
<1>3. Budget
    BY DEF Clock
<1>4. /\ Rest' = (Len(selected) - at) * Turn
      /\ Rest' \in Int /\ Rest \in Int /\ Rest' <= Rest
    BY <1>3, RestNext
<1>6. Rest' + Turn <= longest
    <2> DEFINE m == Len(selected) - at
    <2>1. m + 1 \in Int /\ m + 1 <= Len(selected) /\ (m + 1) * Turn = m * Turn + Turn
        BY <1>1, TurnType, Times
    <2>2. (m + 1) * Turn <= Len(selected) * Turn /\ Len(selected) * Turn \in Int
        BY <1>1, <2>1, TurnType, Times
    <2>3. Len(selected) * Turn <= longest
        BY DEF Clock, InCycle
    <2> QED BY <1>2, <1>4, <2>1, <2>2, <2>3, TurnType
<1>7. Wait' = Wait /\ Running'
    BY <1>1 DEF Wait, timerVars, Running, InCycle
<1>8. ASSUME NEW cc \in CCache, cc # Current.ccache \/ pc = "result", Ahead(cc)
      PROVE  Ahead(cc)'
    <2>1. PICK i \in DOMAIN selected :
            selected[i].ccache = cc /\ i >= at /\ (pc = "result" => i # at)
        BY <1>8 DEF Ahead
    <2>2. i # at /\ i \in Nat
        BY <1>8, <2>1 DEF Current, TypeOK, DaemonTypeOK
    <2>3. i >= at + 1
        BY <1>1, <2>1, <2>2
    <2> QED BY <1>1, <2>1, <2>3 DEF Ahead, InCycle
<1> QED BY <1>4, <1>6, <1>7, <1>8

\* Within a turn, what is left of it only becomes less.
LEMMA SameTurn ==
    ASSUME TypeOK, NEW slowest \in Nat, NEW longest \in Nat, Clock(slowest, longest),
           at \in DOMAIN selected, UNCHANGED <<selected, at, timerVars>>, spent' = 0,
           \/ pc = "poll" /\ pc' = "lookup"
           \/ pc = "lookup" /\ pc' = "kinit"
           \/ pc \in {"lookup", "kinit"} /\ pc' = "result"
    PROVE  /\ Rest \in Int /\ Rest' \in Int /\ Rest' <= Rest
           /\ Wait' = Wait /\ Running /\ Running'
           /\ \A cc \in CCache :
                cc # Current.ccache \/ pc' # "result" => (Ahead(cc) => Ahead(cc)')
<1>1. at \in Nat /\ Len(selected) \in Nat /\ spent \in Nat
    BY DEF TypeOK, DaemonTypeOK
<1>2. Budget
    BY DEF Clock
<1>3. Rest \in Int /\ Rest' \in Int /\ Rest' <= Rest
    BY <1>2, RestSame
<1>4. Wait' = Wait /\ Running /\ Running'
    BY DEF Wait, timerVars, Running, InCycle
<1>5. ASSUME NEW cc \in CCache, cc # Current.ccache \/ pc' # "result", Ahead(cc)
      PROVE  Ahead(cc)'
    <2>1. PICK i \in DOMAIN selected : selected[i].ccache = cc /\ i >= at
        BY <1>5 DEF Ahead
    <2>2. pc' = "result" => i # at
        BY <1>5, <2>1 DEF Current
    <2> QED BY <1>1, <2>1, <2>2 DEF Ahead, InCycle
<1> QED BY <1>3, <1>4, <1>5

\* A cycle begins: its time is not up, and every kept cache is in it.
LEMMA KeepsBegin ==
    ASSUME NEW slowest \in Nat, NEW longest \in Nat, Paced(slowest, longest),
           TypeOK, Keeps(longest), StartCycle, kept' = kept, Wait \in 0 .. slowest
    PROVE  Keeps(longest)'
<1>1. /\ pc = "select" /\ fired /\ Rest = 0 /\ Wait = 0
      /\ left' = left /\ file' = file /\ stopping' = stopping
    BY DEF StartCycle, Rest, Wait, krbVars
<1> SUFFICES ASSUME NEW cc \in kept
             PROVE  /\ Running' /\ ~stopping'
                    /\ Covers(file, cc)'
                    /\ \/ left'[cc] > Rest' + Wait' + longest
                       \/ Ahead(cc)' /\ left'[cc] > Rest'
    BY DEF Keeps
<1>2. /\ ~stopping /\ Covers(file, cc) /\ left[cc] > longest /\ left[cc] \in Nat /\ cc \in CCache
      /\ file \in Files
    BY <1>1 DEF Keeps, Ahead, InCycle, TypeOK, KrbTypeOK, DaemonTypeOK
<1>3. Usable(file, Wanted)
    BY <1>2 DEF Covers, ProfilesOf
<1>4. BeginCycle(Selected(file, Wanted))
    BY <1>3 DEF StartCycle
<1>5. /\ pc' = "poll" /\ at' = 1 /\ spent' = 0 /\ selected' = Selected(file, Wanted)
      /\ Len(selected') * Turn <= longest
    BY <1>3, <1>4, ClockBegin DEF BeginCycle
<1>6. selected' \in Seq(Profile)
    BY <1>3, <1>4, BeginCycleType
<1>7. Rest' <= longest /\ Rest' \in Int
    <2>1. Len(selected') \in Nat
        BY <1>6
    <2>2. PICK q \in Int : q = (Len(selected') - 1) * Turn
        BY <2>1, TurnType, Times
    <2>3. q + Turn = Len(selected') * Turn
        BY <2>1, <2>2, TurnType, Times
    <2>4. Rest' = q + Turn - 0
        BY <1>5, <2>2 DEF Rest, Turn
    <2> QED BY <1>5, <2>3, <2>4, TurnType
<1>8. PICK i \in DOMAIN Selected(file, Wanted) : Selected(file, Wanted)[i].ccache = cc
    BY <1>2, <1>3 DEF Covers, ProfilesOf
<1>9. i >= 1
    BY <1>5, <1>6, <1>8
<1>10. Ahead(cc)'
    BY <1>5, <1>8, <1>9 DEF Ahead, InCycle
<1>11. Covers(file, cc)'
    BY <1>1, <1>2
<1>12. Running' /\ ~stopping'
    BY <1>1, <1>2, <1>5 DEF Running, InCycle
<1>13. left'[cc] > Rest'
    BY <1>1, <1>2, <1>7
<1> QED BY <1>10, <1>11, <1>12, <1>13

\* A unit of time takes one from every ticket, and one from what is waited for.
LEMMA KeepsTick ==
    ASSUME NEW slowest \in Nat, NEW longest \in Nat, TypeOK, TickerOK, Keeps(longest),
           Clock(slowest, longest), Tick
    PROVE  Keeps(longest)'
<1>1. /\ UNCHANGED <<pc, selected, at, interval>> /\ file' = file /\ stopping' = stopping /\ Idle
      /\ IF until = 1
         THEN until' = interval /\ fired' = TRUE
         ELSE until' = (IF until > 1 THEN until - 1 ELSE until) /\ UNCHANGED fired
      /\ spent' = IF pc \in {"poll", "kinit"} THEN spent + 1 ELSE spent
      /\ \A cc \in CCache : left'[cc] = IF left[cc] > 0 THEN left[cc] - 1 ELSE 0
      /\ kept' = kept \ (IF Prompting THEN CCache ELSE {})
    BY DEF Tick, TimerTick, Elapse, Aged, Lapsed
<1> SUFFICES ASSUME NEW cc \in kept'
             PROVE  /\ Running' /\ ~stopping'
                    /\ Covers(file, cc)'
                    /\ \/ left'[cc] > Rest' + Wait' + longest
                       \/ Ahead(cc)' /\ left'[cc] > Rest'
    BY DEF Keeps
<1>2. cc \in kept /\ cc \in CCache /\ left[cc] \in Nat /\ ~Prompting
    BY <1>1 DEF TypeOK, KrbTypeOK
<1>3. /\ Running /\ ~stopping /\ Covers(file, cc)
      /\ left[cc] > Rest + Wait + longest \/ (Ahead(cc) /\ left[cc] > Rest)
    BY <1>2 DEF Keeps
<1>4. Running' /\ ~stopping'
    BY <1>1, <1>3 DEF Running, InCycle
<1>5. Covers(file, cc)'
    BY <1>1, <1>3
<1>6. Ahead(cc) => Ahead(cc)' /\ InCycle
    BY <1>1 DEF Ahead, InCycle
<1>7. Rest \in 0 .. longest /\ Wait \in 0 .. slowest
    BY <1>3, RestBounds
<1>8. /\ interval \in Int /\ until \in Int /\ spent \in Nat /\ at \in Nat /\ Len(selected) \in Nat
    BY DEF TypeOK, DaemonTypeOK
<1>9. Wait' \in Int /\ Wait' <= Wait /\ (until > 0 /\ ~fired => Wait' = Wait - 1)
    <2>1. CASE until = 1
        <3>1. fired'
            BY <1>1, <2>1
        <3>2. Wait' = 0
            BY <3>1 DEF Wait
        <3>3. ~fired => Wait = 1
            BY <2>1 DEF Wait
        <3> QED BY <1>7, <3>2, <3>3
    <2>2. CASE until # 1
        <3>1. fired' = fired /\ until' = (IF until > 1 THEN until - 1 ELSE until) /\ interval' = interval
            BY <1>1, <2>2
        <3>2. CASE fired
            <4>1. fired'
                BY <3>1, <3>2
            <4> QED BY <3>2, <4>1 DEF Wait
        <3>3. CASE ~fired
            <4>1. ~fired'
                BY <3>1, <3>3
            <4>2. until > 0 => until > 1
                BY <1>8, <2>2
            <4> QED BY <1>8, <3>1, <3>3, <4>1, <4>2 DEF Wait
        <3> QED BY <3>2, <3>3
    <2> QED BY <2>1, <2>2
<1>10. CASE InCycle
    <2>1. pc \in {"poll", "kinit"}
        BY <1>1, <1>2, <1>10 DEF Idle, Running, InCycle
    <2>2. Rest' = Rest - 1
        <3>1. PICK q \in Int : q = (Len(selected) - at) * Turn
            BY <1>8, TurnType, Times
        <3>2. CASE pc = "poll"
            <4>1. Rest = q + Turn - spent /\ Rest' = q + Turn - (spent + 1)
                BY <1>1, <3>1, <3>2 DEF Rest, Turn
            <4> QED BY <1>8, <4>1, TurnType
        <3>3. CASE pc = "kinit"
            <4>1. Rest = q + AcquireTimeout - spent /\ Rest' = q + AcquireTimeout - (spent + 1)
                BY <1>1, <3>1, <3>3 DEF Rest, Turn
            <4> QED BY <1>8, <4>1, TurnType
        <3> QED BY <2>1, <3>2, <3>3
    <2>3. left'[cc] = left[cc] - 1
        BY <1>1, <1>2, <1>3, <1>7
    <2>4. left'[cc] > Rest' + Wait' + longest \/ (Ahead(cc)' /\ left'[cc] > Rest')
        BY <1>2, <1>3, <1>6, <1>7, <1>9, <2>2, <2>3
    <2> QED BY <1>4, <1>5, <2>4
<1>11. CASE pc = "select"
    <2>1. ~fired /\ Rest = 0 /\ Rest' = 0 /\ until > 0
        BY <1>1, <1>2, <1>3, <1>11 DEF Idle, Running, InCycle, Rest, TickerOK
    <2>2. Wait' = Wait - 1
        BY <1>9, <2>1
    <2>3. left[cc] > Wait + longest
        BY <1>2, <1>3, <1>6, <1>7, <1>11, <2>1 DEF InCycle
    <2>4. left'[cc] = left[cc] - 1
        BY <1>1, <1>2, <1>7, <2>3
    <2>5. left'[cc] > Rest' + Wait' + longest
        BY <1>2, <1>7, <2>1, <2>2, <2>3, <2>4
    <2> QED BY <1>4, <1>5, <2>5
<1> QED BY <1>3, <1>10, <1>11 DEF Running

-----------------------------------------------------------------------------
(* What the daemon reads of them. *)

\* Enough that no cache becomes a kept one, and that the kept ones are not touched.
LEMMA TrustedFrame ==
    ASSUME Trusted, kept' \subseteq kept, moved' = moved,
           \A cc \in kept' : left'[cc] = left[cc] /\ shown'[cc] = shown[cc]
    PROVE  Trusted'
BY DEF Trusted, Abroad

\* A ticket just written is read as no better than it is, but for the slip.
LEMMA TrustedWritten ==
    ASSUME TypeOK, Trusted, NEW p \in Profile, WriteTicket(p), Written(p.ccache), moved' = moved
    PROVE  Trusted'
<1>1. /\ left \in [CCache -> Nat] /\ shown \in [CCache -> Nat] /\ p.ccache \in CCache
      /\ Granted(p) \in Nat /\ Slip(p.ccache) \in Nat /\ kept \subseteq CCache
    BY KrbAssumption DEF TypeOK, KrbTypeOK, Profile, Granted, Requested, Slip
<1> SUFFICES ASSUME NEW cc \in kept' PROVE ~Abroad(cc)' /\ shown'[cc] <= left'[cc] + Slip(cc)
    BY DEF Trusted
<1>2. CASE cc = p.ccache
    <2>1. ~Abroad(cc)'
        BY <1>2 DEF Written, Abroad
    <2>2. PICK r \in Shown(p.ccache, Granted(p)) : shown' = [shown EXCEPT ![p.ccache] = r]
        BY DEF WriteTicket
    <2>3. r <= Granted(p) + Slip(p.ccache)
        BY <1>1, <2>2 DEF Shown
    <2>4. left'[cc] = Granted(p) /\ shown'[cc] = r
        BY <1>1, <1>2, <2>2 DEF WriteTicket
    <2> QED BY <1>2, <2>1, <2>3, <2>4
<1>3. CASE cc # p.ccache
    <2>1. cc \in kept
        BY <1>3 DEF Written
    <2>2. left'[cc] = left[cc] /\ shown'[cc] = shown[cc]
        BY <1>1, <1>3, <2>1 DEF WriteTicket
    <2> QED BY <2>1, <2>2 DEF Trusted, Abroad
<1> QED BY <1>2, <1>3

\* Every step keeps it so.
LEMMA TrustedStep == TypeOK /\ Trusted /\ [Next]_vars => Trusted'
<1> SUFFICES ASSUME TypeOK, Trusted, [Next]_vars PROVE Trusted'
    OBVIOUS
<1>1. ASSUME kept' = {} PROVE Trusted'
    BY <1>1 DEF Trusted
<1>2. ASSUME UNCHANGED <<left, shown, moved>>, kept' \subseteq kept PROVE Trusted'
    BY <1>2, TrustedFrame
<1>3. CASE UNCHANGED vars
    BY <1>2, <1>3 DEF vars, krbVars, daemonVars
<1>4. CASE DaemonStarts \/ DaemonStops \/ DaemonSignalled
    BY <1>1, <1>4 DEF DaemonStarts, DaemonStops, DaemonSignalled, Over, Lapsed, TypeOK
<1>5. CASE DaemonLoops
    <2>1. CASE pc' = "panicked" /\ Over
        BY <1>1, <2>1 DEF Over, Lapsed, TypeOK
    <2>2. CASE ~(pc' = "panicked" /\ Over)
        BY <1>2, <1>5, <2>2 DEF DaemonLoops, StartCycle, EndCycle, Gone, Unobserved, krbVars
    <2> QED BY <2>1, <2>2
<1>6. CASE DaemonChecks
    BY <1>2, <1>6 DEF DaemonChecks, CheckStatus, SkipBlocked, LookupPassword, Unobserved, Lapsed, krbVars
<1>7. CASE KinitAnswered /\ IF err' = "none" THEN Written(Current.ccache) ELSE Lapsed({Current.ccache})
    <2>1. at \in DOMAIN selected /\ moved' = moved
        BY <1>7 DEF KinitAnswered, TypeOK, DaemonTypeOK
    <2>2. CASE err' = "none"
        <3>1. WriteTicket(Current) /\ Current \in Profile
            BY <1>7, <2>1, <2>2, CurrentType DEF KinitAnswered, Fails
        <3> QED BY <1>7, <2>1, <2>2, <3>1, TrustedWritten
    <2>3. CASE err' # "none"
        BY <1>2, <1>7, <2>1, <2>3 DEF KinitAnswered, Fails, ticketVars, Lapsed
    <2> QED BY <2>2, <2>3
<1>8. CASE KinitKilled /\ Lapsed({Current.ccache})
    <2>1. /\ moved' = moved /\ kept' \subseteq kept /\ Current.ccache \notin kept'
          /\ WriteTicket(Current) \/ UNCHANGED <<left, shown>>
        BY <1>8 DEF KinitKilled, Lapsed, ticketVars
    <2>2. \A cc \in kept' : left'[cc] = left[cc] /\ shown'[cc] = shown[cc]
        BY <2>1 DEF WriteTicket, TypeOK, KrbTypeOK
    <2> QED BY <2>1, <2>2, TrustedFrame
<1>9. CASE HandleResult /\ Unobserved
    BY <1>2, <1>9 DEF HandleResult, Unobserved, krbVars
<1>10. CASE \E names : RefreshStarts(names)
    BY <1>2, <1>10 DEF RefreshStarts, krbVars, daemonVars
<1>11. CASE RefreshAcquires
    <2>1. Head(cli) \in Profile /\ moved' = moved
        BY <1>11 DEF RefreshAcquires, TypeOK, daemonVars
    <2>2. CASE WriteTicket(Head(cli)) /\ Written(Head(cli).ccache)
        BY <2>1, <2>2, TrustedWritten
    <2>3. CASE UNCHANGED <<ticketVars, kept>>
        BY <1>2, <2>1, <2>3 DEF ticketVars
    <2> QED BY <1>11, <2>2, <2>3 DEF RefreshAcquires
<1>12. CASE \E f \in Files : Edit(f)
    BY <1>2, <1>12 DEF Edit, Lapsed, krbVars, daemonVars
<1>13. ASSUME NEW c \in Credential, PasswordChanges(c) \/ \E v \in VaultState : KeychainChanges(c, v)
       PROVE  Trusted'
    BY <1>2, <1>13 DEF PasswordChanges, KeychainChanges, ticketVars, daemonVars
<1>14. CASE NetworkChanges
    BY <1>2, <1>14 DEF NetworkChanges, ticketVars, daemonVars
<1>15. ASSUME NEW cc \in CCache, Destroy(cc) \/ DestroyTGT(cc) \/ TakeOver(cc) PROVE Trusted'
    <2>1. moved' = moved /\ kept' \subseteq kept /\ cc \notin kept'
        BY <1>15 DEF Destroy, DestroyTGT, TakeOver, Meddles, Lapsed, daemonVars
    <2>2. \A d \in kept' : left'[d] = left[d] /\ shown'[d] = shown[d]
        BY <1>15, <2>1 DEF Destroy, DestroyTGT, TakeOver, TypeOK, KrbTypeOK
    <2> QED BY <2>1, <2>2, TrustedFrame
<1>16. CASE ZoneChanges
    BY <1>16 DEF ZoneChanges, Lapsed, Trusted, Abroad, krbVars
<1>17. CASE Tick \/ Sleep
    <2>1. kept' \subseteq kept /\ moved' = moved /\ Elapse
        BY <1>17 DEF Tick, TimerTick, Sleep, Lapsed, daemonVars
    <2> SUFFICES ASSUME NEW cc \in kept' PROVE ~Abroad(cc)' /\ shown'[cc] <= left'[cc] + Slip(cc)
        BY DEF Trusted
    <2>2. ~Abroad(cc) /\ shown[cc] <= left[cc] + Slip(cc)
        BY <2>1 DEF Trusted
    <2>3. ~Abroad(cc)'
        BY <2>1, <2>2 DEF Abroad
    <2>4. left[cc] \in Nat /\ shown[cc] \in Nat /\ Slip(cc) \in Nat /\ cc \in CCache
        BY <2>1, KrbAssumption DEF Slip, TypeOK, KrbTypeOK
    <2>5. /\ left'[cc] = IF left[cc] > 0 THEN left[cc] - 1 ELSE 0
          /\ shown'[cc] = IF shown[cc] > 0 THEN shown[cc] - 1 ELSE 0
        BY <2>1, <2>4 DEF Elapse, Aged
    <2> QED BY <2>2, <2>3, <2>4, <2>5
<1> QED
    <2>1. Refreshes => RefreshAcquires \/ \E names : RefreshStarts(names)
        BY DEF Refreshes
    <2>2. Meddling => \E cc \in CCache : Destroy(cc) \/ DestroyTGT(cc) \/ TakeOver(cc)
        BY DEF Meddling
    <2> QED BY <1>3, <1>4, <1>5, <1>6, <1>7, <1>8, <1>9, <1>10, <1>11, <1>12, <1>13, <1>14, <1>15,
               <1>16, <1>17, <2>1, <2>2 DEF Next, Daemons, DaemonAcquires, Surroundings

-----------------------------------------------------------------------------
(* Both together. *)

\* Every step keeps the kept tickets good for long enough.
LEMMA KeepsStep ==
    ASSUME NEW slowest \in Nat, NEW longest \in Nat, Paced(slowest, longest),
           TypeOK, TickerOK, Clock(slowest, longest), Trusted, Keeps(longest), [Next]_vars
    PROVE  Keeps(longest)'
<1>0. /\ Running => Rest \in 0 .. longest /\ Wait \in 0 .. slowest
      /\ ~Running => kept = {}
    BY RestBounds DEF Keeps
<1>1. ASSUME kept' = {} PROVE Keeps(longest)'
    BY <1>1 DEF Keeps
<1>2. ASSUME UNCHANGED <<pc, selected, at, spent, timerVars>>, file' = file, stopping' = stopping,
             kept' \subseteq kept, \A cc \in kept' : left'[cc] = left[cc]
      PROVE  Keeps(longest)'
    <2>1. CASE Running
        <3>1. kept \subseteq CCache
            BY DEF TypeOK
        <3>2. /\ Rest' = Rest /\ Wait' = Wait /\ Running'
              /\ \A cc \in CCache : Ahead(cc) => Ahead(cc)'
            BY <1>0, <1>2, <2>1, LoopSame
        <3> QED BY <1>0, <1>2, <2>1, <3>1, <3>2, NoTime
    <2>2. CASE ~Running
        BY <1>0, <1>1, <1>2, <2>2
    <2> QED BY <2>1, <2>2
<1>3. CASE UNCHANGED vars
    BY <1>2, <1>3 DEF vars, krbVars, daemonVars, loopVars
<1>4. CASE DaemonStarts \/ DaemonStops \/ DaemonSignalled
    <2>1. kept' = {}
        BY <1>4 DEF DaemonStarts, DaemonStops, DaemonSignalled, Over, Lapsed, TypeOK
    <2> QED BY <1>1, <2>1
<1>5. CASE StartCycle /\ Unobserved
    <2>1. Running
        BY <1>5 DEF StartCycle, Running
    <2> QED BY <1>0, <1>5, <2>1, KeepsBegin DEF Unobserved
<1>6. CASE EndCycle /\ IF pc' = "panicked" THEN Over ELSE Unobserved
    <2>1. CASE pc' = "panicked"
        BY <1>1, <1>6, <2>1 DEF Over, Lapsed, TypeOK
    <2>2. CASE pc' # "panicked"
        <3>1. /\ pc = "poll" /\ at = Len(selected) + 1 /\ ~(until = 0 /\ interval <= 0)
              /\ pc' = "select" /\ until' = (IF until = 0 THEN interval ELSE until)
              /\ interval' = interval /\ fired' = fired /\ stopping' = stopping
              /\ file' = file /\ left' = left /\ kept' = kept
            BY <1>6, <2>2 DEF EndCycle, Gone, krbVars, Unobserved
        <3>2. interval \in Int /\ until \in Int /\ selected \in Seq(Profile)
            BY DEF TypeOK, DaemonTypeOK
        <3>3. Running /\ Running'
            BY <3>1 DEF Running, InCycle
        <3>4. Rest' = 0
            BY <3>1 DEF Rest
        <3>5. Wait' = Wait
            <4>1. CASE fired
                <5>1. fired'
                    BY <3>1, <4>1
                <5> QED BY <4>1, <5>1 DEF Wait
            <4>2. CASE ~fired
                <5>1. ~fired'
                    BY <3>1, <4>2
                <5> QED BY <3>1, <3>2, <4>2, <5>1 DEF Wait, TickerOK
            <4> QED BY <4>1, <4>2
        <3>6. \A cc : ~Ahead(cc)
            BY <3>1, <3>2 DEF Ahead
        <3> QED BY <1>0, <3>1, <3>3, <3>4, <3>5, <3>6, NoTime
    <2> QED BY <2>1, <2>2
<1>7. ASSUME at \in DOMAIN selected, pc \in {"poll", "result"}, NextProfile, UNCHANGED timerVars,
             left' = left, file' = file, stopping' = stopping, kept' \subseteq kept,
             \/ pc = "result" \/ Current.ccache \notin kept'
             \/ left[Current.ccache] + Turn > slowest + 2 * longest
      PROVE  Keeps(longest)'
    <2>1. /\ Rest \in Int /\ Rest' \in Int /\ Rest' <= Rest /\ Rest' + Turn <= longest
          /\ Wait' = Wait /\ Running'
          /\ \A cc \in CCache : cc # Current.ccache \/ pc = "result" => (Ahead(cc) => Ahead(cc)')
        BY <1>7, NextTurn
    <2>2. Running
        BY <1>7 DEF Running, InCycle
    <2>3. kept' \subseteq CCache /\ Current.ccache \in CCache /\ left[Current.ccache] \in Int
        BY <1>7, CurrentType DEF TypeOK, KrbTypeOK
    <2>4. ASSUME NEW cc \in kept', Ahead(cc)
          PROVE  Ahead(cc)' \/ left[cc] > Rest' + Wait' + longest
        <3>1. CASE cc # Current.ccache \/ pc = "result"
            BY <2>1, <2>3, <2>4, <3>1
        <3>2. CASE ~(cc # Current.ccache \/ pc = "result")
            <4>1. left[cc] + Turn > slowest + 2 * longest
                BY <1>7, <2>4, <3>2
            <4>2. left[cc] \in Int
                BY <2>3, <3>2
            <4>3. Wait \in 0 .. slowest /\ Wait' = Wait /\ Rest' \in Int /\ Rest' + Turn <= longest
                BY <1>0, <2>1, <2>2
            <4>4. PICK l \in Int, r \in Int, w \in Int : l = left[cc] /\ r = Rest' /\ w = Wait'
                BY <4>2, <4>3
            <4>5. l + Turn > slowest + 2 * longest /\ w <= slowest /\ r + Turn <= longest
                BY <4>1, <4>3, <4>4
            <4>6. l > r + w + longest
                BY <4>5, TurnType
            <4> QED BY <4>4, <4>6
        <3> QED BY <3>1, <3>2
    <2> QED BY <1>0, <1>7, <2>1, <2>2, <2>4, NoTime
<1>8. ASSUME at \in DOMAIN selected, UNCHANGED <<selected, at, timerVars>>, spent' = 0,
             \/ pc = "poll" /\ pc' = "lookup"
             \/ pc = "lookup" /\ pc' = "kinit"
             \/ pc \in {"lookup", "kinit"} /\ pc' = "result",
             file' = file, stopping' = stopping, kept' \subseteq kept,
             \A cc \in kept' : left'[cc] = left[cc],
             pc' = "result" => Current.ccache \notin kept'
      PROVE  Keeps(longest)'
    <2>1. /\ Rest \in Int /\ Rest' \in Int /\ Rest' <= Rest /\ Wait' = Wait /\ Running /\ Running'
          /\ \A cc \in CCache : cc # Current.ccache \/ pc' # "result" => (Ahead(cc) => Ahead(cc)')
        BY <1>8, SameTurn
    <2>2. kept' \subseteq CCache
        BY <1>8 DEF TypeOK
    <2>3. \A cc \in kept' : Ahead(cc) => Ahead(cc)'
        BY <1>8, <2>1, <2>2
    <2> QED BY <1>0, <1>8, <2>1, <2>3, NoTime
<1>9. CASE SkipBlocked /\ Lapsed({Current.ccache})
    BY <1>7, <1>9 DEF SkipBlocked, Lapsed, krbVars
<1>10. CASE CheckStatus /\ Unobserved
    <2>1. /\ pc = "poll" /\ at \in DOMAIN selected /\ UNCHANGED timerVars
          /\ left' = left /\ file' = file /\ stopping' = stopping /\ kept' = kept
        BY <1>10 DEF CheckStatus, Unobserved, krbVars
    <2>2. PICK st \in ReadStatus(Current.ccache, moved) :
            IF NeedsRefresh(Current, st)
            THEN pc' = "lookup" /\ spent' = 0 /\ UNCHANGED <<selected, at, pw, err>>
            ELSE NextProfile
        BY <1>10 DEF CheckStatus
    <2>3. CASE NeedsRefresh(Current, st)
        BY <1>8, <2>1, <2>2, <2>3
    <2>4. CASE ~NeedsRefresh(Current, st)
        <3>1. ASSUME Current.ccache \in kept
              PROVE  left[Current.ccache] + Turn > slowest + 2 * longest
            <4>1. /\ left[Current.ccache] \in Nat /\ shown[Current.ccache] \in Nat
                  /\ Current.threshold \in Nat /\ Slip(Current.ccache) \in Nat
                BY <2>1, CurrentType, KrbAssumption DEF TypeOK, KrbTypeOK, Profile, Slip
            <4>2. /\ ~Abroad(Current.ccache)
                  /\ shown[Current.ccache] <= left[Current.ccache] + Slip(Current.ccache)
                BY <3>1 DEF Trusted
            <4>3. Current.threshold <= shown[Current.ccache]
                <5>1. st.remaining = shown[Current.ccache] /\ ~(st.remaining < Current.threshold)
                    BY <2>2, <2>4, <4>2 DEF ReadStatus, Reading, Abroad, NeedsRefresh
                <5> QED BY <4>1, <5>1
            <4>4. Current.threshold + StatusTimeout + AcquireTimeout
                    > slowest + 2 * longest + Slip(Current.ccache)
                BY <2>1 DEF Clock, Lasts, Current
            <4> QED BY <4>1, <4>2, <4>3, <4>4, TurnType DEF Turn
        <3> QED BY <1>7, <2>1, <2>2, <2>4, <3>1
    <2> QED BY <2>3, <2>4
<1>11. CASE LookupPassword /\ IF pc' = "result" THEN Lapsed({Current.ccache}) ELSE UNCHANGED kept
    <2>1. /\ pc = "lookup" /\ pc' \in {"result", "kinit"} /\ UNCHANGED <<selected, at, timerVars>>
          /\ left' = left /\ file' = file /\ stopping' = stopping /\ spent' \in {0, spent}
        BY <1>11 DEF LookupPassword, Fails, krbVars
    <2>2. at \in DOMAIN selected /\ spent = 0
        BY <2>1 DEF TypeOK, DaemonTypeOK, Clock, Budget
    <2>3. kept' \subseteq kept /\ (pc' = "result" => Current.ccache \notin kept')
        BY <1>11 DEF Lapsed
    <2> QED BY <1>8, <2>1, <2>2, <2>3
<1>12. CASE KinitAnswered /\ IF err' = "none" THEN Written(Current.ccache) ELSE Lapsed({Current.ccache})
    <2>1. /\ pc = "kinit" /\ pc' = "result" /\ UNCHANGED <<selected, at, timerVars>> /\ spent' = 0
          /\ file' = file /\ stopping' = stopping
          /\ IF err' = "none" THEN WriteTicket(Current) ELSE left' = left
        BY <1>12 DEF KinitAnswered, Fails, ticketVars
    <2>2. at \in DOMAIN selected
        BY <2>1 DEF TypeOK, DaemonTypeOK
    <2>3. CASE err' = "none"
        <3>1. /\ Rest' \in Int /\ Rest' <= Rest /\ Wait' = Wait /\ Running /\ Running'
              /\ \A cc \in CCache : cc # Current.ccache /\ Ahead(cc) => Ahead(cc)'
            BY <2>1, <2>2, SameTurn
        <3>2. Lasts(Current, slowest + 2 * longest) /\ Current \in Profile
            BY <2>2, CurrentType DEF Clock, Current
        <3> HIDE DEF Current
        <3> QED BY <1>0, <1>12, <2>1, <2>3, <3>1, <3>2, Renewed
    <2>4. CASE err' # "none"
        BY <1>8, <1>12, <2>1, <2>2, <2>4 DEF Lapsed
    <2> QED BY <2>3, <2>4
<1>13. CASE KinitKilled /\ Lapsed({Current.ccache})
    <2>1. /\ pc = "kinit" /\ pc' = "result" /\ UNCHANGED <<selected, at, timerVars>> /\ spent' = 0
          /\ file' = file /\ stopping' = stopping
          /\ WriteTicket(Current) \/ left' = left
        BY <1>13 DEF KinitKilled, Fails, ticketVars
    <2>2. at \in DOMAIN selected
        BY <2>1 DEF TypeOK, DaemonTypeOK
    <2>3. \A cc \in kept' : cc \in kept /\ cc # Current.ccache /\ left'[cc] = left[cc]
        BY <1>13, <2>1 DEF Lapsed, WriteTicket, TypeOK, KrbTypeOK
    <2> QED BY <1>8, <2>1, <2>2, <2>3
<1>14. CASE HandleResult /\ Unobserved
    <2>1. at \in DOMAIN selected
        BY <1>14 DEF HandleResult, TypeOK, DaemonTypeOK
    <2> QED BY <1>7, <1>14, <2>1 DEF HandleResult, Unobserved, krbVars
<1>15. CASE \E names : RefreshStarts(names)
    BY <1>2, <1>15 DEF RefreshStarts, krbVars, daemonVars, loopVars
<1>16. CASE RefreshAcquires
    <2> DEFINE p == Head(cli)
    <2>1. /\ cli # <<>> /\ UNCHANGED <<pc, selected, at, spent, timerVars>>
          /\ file' = file /\ stopping' = stopping
          /\ \/ WriteTicket(p) /\ Written(p.ccache)
             \/ left' = left /\ kept' = kept
        BY <1>16 DEF RefreshAcquires, ticketVars, daemonVars, loopVars
    <2>2. p \in Profile /\ Lasts(p, slowest + 2 * longest)
        <3>1. cli \in Seq(Profile) /\ 1 \in DOMAIN cli /\ p = cli[1]
            BY <2>1 DEF TypeOK
        <3> HIDE DEF p
        <3> QED BY <3>1 DEF Clock
    <2>3. CASE left' = left /\ kept' = kept
        BY <1>2, <2>1, <2>3
    <2>4. CASE WriteTicket(p) /\ Written(p.ccache)
        <3>1. /\ Rest' = Rest /\ Wait' = Wait /\ Running' = Running
              /\ \A cc \in CCache : Ahead(cc) => Ahead(cc)'
            BY <1>0, <2>1, LoopSame
        <3> HIDE DEF p
        <3> QED BY <1>0, <2>1, <2>2, <2>4, <3>1, Renewed
    <2> QED BY <2>1, <2>3, <2>4
<1>17. ASSUME NEW f \in Files, Edit(f) PROVE Keeps(longest)'
    <2>1. /\ UNCHANGED <<pc, selected, at, spent, timerVars>> /\ left' = left /\ stopping' = stopping
          /\ file' = f /\ kept' \subseteq kept /\ \A cc \in kept' : Covers(f, cc)
        BY <1>17 DEF Edit, Lapsed, krbVars, daemonVars, loopVars, TypeOK
    <2>2. /\ Rest' = Rest /\ Wait' = Wait /\ Running' = Running
          /\ \A cc \in CCache : Ahead(cc) => Ahead(cc)'
        BY <1>0, <2>1, LoopSame
    <2> SUFFICES ASSUME NEW cc \in kept'
                 PROVE  /\ Running' /\ ~stopping'
                        /\ Covers(file, cc)'
                        /\ \/ left'[cc] > Rest' + Wait' + longest
                           \/ Ahead(cc)' /\ left'[cc] > Rest'
        BY DEF Keeps
    <2>3. /\ cc \in CCache /\ Running /\ ~stopping
          /\ left[cc] > Rest + Wait + longest \/ (Ahead(cc) /\ left[cc] > Rest)
        BY <2>1 DEF Keeps, TypeOK
    <2>4. ~stopping' /\ Running'
        BY <2>1, <2>2, <2>3
    <2>5. Covers(file, cc)'
        BY <2>1
    <2> QED BY <2>1, <2>2, <2>3, <2>4, <2>5
<1>18. ASSUME NEW c \in Credential, PasswordChanges(c) \/ \E v \in VaultState : KeychainChanges(c, v)
       PROVE  Keeps(longest)'
    BY <1>2, <1>18 DEF PasswordChanges, KeychainChanges, ticketVars, daemonVars, loopVars
<1>19. CASE NetworkChanges
    BY <1>2, <1>19 DEF NetworkChanges, ticketVars, daemonVars, loopVars
<1>20. ASSUME NEW cc \in CCache, Destroy(cc) \/ DestroyTGT(cc) \/ TakeOver(cc)
       PROVE  Keeps(longest)'
    <2>1. Meddles(cc)
        BY <1>20 DEF Destroy, DestroyTGT, TakeOver
    <2>2. \A c \in kept' : c \in kept /\ left'[c] = left[c]
        BY <1>20, <2>1 DEF Destroy, DestroyTGT, TakeOver, Meddles, Lapsed, TypeOK, KrbTypeOK
    <2> QED BY <1>2, <2>1, <2>2 DEF Meddles, daemonVars, loopVars
<1>21. CASE Tick
    BY <1>21, KeepsTick
<1>22. CASE Sleep
    BY <1>1, <1>22 DEF Sleep, Lapsed, TypeOK
<1>23. CASE ZoneChanges
    BY <1>2, <1>23 DEF ZoneChanges, Lapsed, krbVars, loopVars
<1> QED
    <2>1. Refreshes => RefreshAcquires \/ \E names : RefreshStarts(names)
        BY DEF Refreshes
    <2>2. Meddling => \E cc \in CCache : Destroy(cc) \/ DestroyTGT(cc) \/ TakeOver(cc)
        BY DEF Meddling
    <2> QED BY <1>3, <1>4, <1>5, <1>6, <1>9, <1>10, <1>11, <1>12, <1>13, <1>14, <1>15, <1>16, <1>17,
               <1>18, <1>19, <1>20, <1>21, <1>22, <1>23, <2>1, <2>2
            DEF Next, Daemons, DaemonLoops, DaemonChecks, DaemonAcquires, Surroundings

\* A ticket the daemon is to keep never runs out behind its back, if every
\* profile's threshold and every ticket's life leave room for the longest poll
\* interval and two of the longest cycles, and a threshold in the API cache for an end
\* that is read too late by as much as the clocks are put back.
THEOREM NoLapse ==
    ASSUME NEW slowest \in Nat, NEW longest \in Nat, Paced(slowest, longest)
    PROVE  Spec => []NoSilentLapse
<1> DEFINE IInv == TypeOK /\ TickerOK /\ Clock(slowest, longest) /\ Trusted /\ Keeps(longest)
<1>1. Init => IInv
    <2> SUFFICES ASSUME Init PROVE IInv
        OBVIOUS
    <2>1. TickerOK
        BY DEF Init, DaemonInit, TickerOK, Ended
    <2>2. Clock(slowest, longest)
        BY DEF Init, DaemonInit, Clock, Budget, Running, InCycle
    <2>3. Trusted /\ Keeps(longest)
        BY DEF Init, Trusted, Keeps
    <2> QED BY <2>1, <2>2, <2>3, TypeInit
<1>2. IInv /\ [Next]_vars => IInv'
    BY TypeStep, ProcStep, ClockStep, TrustedStep, KeepsStep
<1>3. IInv => NoSilentLapse
    <2> SUFFICES ASSUME IInv, NEW cc \in kept PROVE left[cc] > 0
        BY DEF NoSilentLapse
    <2>1. Running /\ (left[cc] > Rest + Wait + longest \/ left[cc] > Rest)
        BY DEF Keeps
    <2>2. Rest \in 0 .. longest /\ Wait \in 0 .. slowest
        BY <2>1, RestBounds
    <2>3. left[cc] \in Nat
        BY DEF TypeOK, KrbTypeOK
    <2> QED BY <2>1, <2>2, <2>3
<1> QED BY <1>1, <1>2, <1>3, PTL DEF Spec

=============================================================================
