--------------------------- MODULE LockoutProofs ----------------------------
(***************************************************************************)
(* Why the daemon does not lock an account: NoSecondStrike, by the inductive *)
(* invariant StruckIsBlocked, and SteadyNeverBlocked.                        *)
(***************************************************************************)
EXTENDS KeepAliveProofs

-----------------------------------------------------------------------------
(* StruckIsBlocked is inductive. *)

\* The profiles of the running cycle have names.
LEMMA SelectedNames ==
    ASSUME TypeOK, NEW i \in DOMAIN selected
    PROVE  selected[i].name \in Name
<1>1. selected \in Seq(Profile) BY DEF TypeOK, DaemonTypeOK
<1>2. selected[i] \in Profile BY <1>1
<1> QED BY <1>2 DEF Profile

\* Nothing is struck before the first daemon.
LEMMA StruckInit == Init => StruckIsBlocked
BY DEF Init, DaemonInit, StruckIsBlocked

\* Enough that the loop, the blocklist, the file and what is struck stay the same.
LEMMA StruckFrame ==
    ASSUME StruckIsBlocked,
           UNCHANGED <<file, pc, selected, at, err, blocked, struck>>
    PROVE  StruckIsBlocked'
BY DEF StruckIsBlocked, Current, Blocks

\* A process that is gone has nothing struck and nothing selected.
LEMMA StruckGone ==
    ASSUME NEW how \in Ended, Gone(how), Over
    PROVE  StruckIsBlocked'
BY DEF Gone, Over, StruckIsBlocked, Ended

\* The profiles of a cycle that begins carry the credentials the file gives them.
LEMMA StruckBegin ==
    ASSUME TypeOK, Usable(file, Wanted), BeginCycle(Selected(file, Wanted)), UNCHANGED file,
           \A n \in Name : \A c \in struck'[n] : blocked'[n] = c,
           \A n \in Name : Creds(file, n) # {} => struck'[n] \subseteq Creds(file, n)
    PROVE  StruckIsBlocked'
<1>1. file \in RawFile /\ Wanted \in Seq(Name)
    BY DaemonAssumption DEF TypeOK, DaemonTypeOK
<1>2. selected' = Selected(file, Wanted) /\ selected' \in Seq(Profile)
    BY <1>1, SelectedType DEF BeginCycle
<1>3. ASSUME NEW i \in DOMAIN selected'
      PROVE  Creds(file, selected'[i].name) = {selected'[i].cred} /\ selected'[i].name \in Name
    <2>1. Creds(file, selected'[i].name) = {selected'[i].cred}
        BY <1>1, <1>2, <1>3, SelectedCreds
    <2>2. selected'[i] \in Profile BY <1>2, <1>3
    <2> QED BY <2>1, <2>2 DEF Profile
<1>4. \A n : Creds(file, n)' = Creds(file, n)
    BY DEF Creds
<1>5. pc' = "poll" BY DEF BeginCycle
<1> QED BY <1>3, <1>4, <1>5 DEF StruckIsBlocked

\* pollAll moves on from a profile with nothing pending for the blocklist.
LEMMA StruckNext ==
    ASSUME TypeOK, StruckIsBlocked, NextProfile, pc = "poll", at \in DOMAIN selected,
           UNCHANGED <<file, blocked, struck>>
    PROVE  StruckIsBlocked'
<1>1. pc' = "poll" /\ selected' = selected /\ at' = at + 1 /\ at \in Nat
    BY DEF NextProfile, TypeOK, DaemonTypeOK
<1>2. DOMAIN selected \subseteq Int
    BY DEF TypeOK, DaemonTypeOK
<1> QED BY <1>1, <1>2 DEF StruckIsBlocked

\* A call ends without a rejection, or goes on to the next one.
LEMMA StruckWithin ==
    ASSUME StruckIsBlocked, pc \in {"lookup", "kinit"}, pc' \in {"kinit", "result"},
           UNCHANGED <<file, selected, at, blocked, struck>>
    PROVE  StruckIsBlocked'
BY DEF StruckIsBlocked, Current, Blocks

\* The KDC's refusal strikes a credential, and is about to be handled.
LEMMA StruckRejected ==
    ASSUME TypeOK, StruckIsBlocked, pc = "kinit", Fails("rejected"), UNCHANGED <<file, blocked>>,
           struck' = IF Creds(file, Current.name) \subseteq {Current.cred}
                     THEN [struck EXCEPT ![Current.name] = @ \cup {Current.cred}]
                     ELSE struck
    PROVE  StruckIsBlocked'
<1>1. /\ at \in DOMAIN selected /\ Current.name \in Name /\ Current.cred \in Credential
      /\ struck \in [Name -> SUBSET Credential]
    BY CurrentType DEF TypeOK, DaemonTypeOK
<1>2. pc' = "result" /\ err' = "rejected" /\ UNCHANGED <<selected, at>>
    BY DEF Fails
<1>3. Current' = Current
    BY <1>2 DEF Current
<1>4. CASE ~(Creds(file, Current.name) \subseteq {Current.cred})
    BY <1>2, <1>4, StruckWithin
<1>5. CASE Creds(file, Current.name) \subseteq {Current.cred}
    <2>1. \A n \in Name : struck'[n] = IF n = Current.name THEN struck[n] \cup {Current.cred} ELSE struck[n]
        BY <1>1, <1>5
    <2>2. \A n \in Name : \A c \in struck'[n] :
            \/ blocked'[n] = c
            \/ pc' = "result" /\ err' = "rejected" /\ Current'.name = n /\ Current'.cred = c
        BY <1>2, <1>3, <2>1 DEF StruckIsBlocked
    <2>3. \A n \in Name : Creds(file', n) # {} => struck'[n] \subseteq Creds(file', n)
        BY <1>5, <2>1 DEF StruckIsBlocked
    <2>4. \A i, j \in DOMAIN selected' :
            selected'[i].name = selected'[j].name => selected'[i].cred = selected'[j].cred
        BY <1>2 DEF StruckIsBlocked
    <2>5. \A i \in DOMAIN selected' : i >= at' => struck'[selected'[i].name] \subseteq {selected'[i].cred}
        <3> SUFFICES ASSUME NEW i \in DOMAIN selected, i >= at
                     PROVE  struck'[selected[i].name] \subseteq {selected[i].cred}
            BY <1>2
        <3>1. selected[i].name \in Name
            BY SelectedNames
        <3>2. struck[selected[i].name] \subseteq {selected[i].cred}
            BY DEF StruckIsBlocked
        <3>3. CASE selected[i].name = Current.name
            <4>1. selected[i].cred = Current.cred
                BY <1>1, <3>3 DEF StruckIsBlocked, Current
            <4> QED BY <2>1, <3>1, <3>2, <4>1
        <3>4. CASE selected[i].name # Current.name
            BY <2>1, <3>1, <3>2, <3>4
        <3> QED BY <3>3, <3>4
    <2> QED BY <1>2, <2>2, <2>3, <2>4, <2>5 DEF StruckIsBlocked
<1> QED BY <1>4, <1>5

\* The error that is struck is permanent, so its credential is blocked now.
LEMMA StruckHandled ==
    ASSUME TypeOK, StruckIsBlocked, HandleResult, UNCHANGED struck
    PROVE  StruckIsBlocked'
<1>1. /\ at \in DOMAIN selected /\ Current.name \in Name
      /\ blocked \in [Name -> Credential \cup {none}]
      /\ at \in Nat /\ DOMAIN selected \subseteq Int
    BY CurrentType DEF HandleResult, TypeOK, DaemonTypeOK
<1>2. pc = "result" /\ pc' = "poll" /\ selected' = selected /\ at' = at + 1 /\ file' = file
    BY DEF HandleResult, NextProfile
<1>3. struck[Current.name] \subseteq {Current.cred}
    BY <1>1 DEF StruckIsBlocked, Current
<1>4. ASSUME NEW n \in Name, NEW c \in struck[n] PROVE blocked'[n] = c
    <2>1. CASE IsPermanent(err)
        <3>1. blocked'[n] = IF n = Current.name THEN Current.cred ELSE blocked[n]
            BY <1>1, <2>1 DEF HandleResult
        <3> QED BY <1>3, <1>4, <3>1 DEF StruckIsBlocked
    <2>2. CASE ~IsPermanent(err)
        BY <1>4, <2>2 DEF HandleResult, StruckIsBlocked, IsPermanent
    <2> QED BY <2>1, <2>2
<1> QED BY <1>1, <1>2, <1>4 DEF StruckIsBlocked

\* An edit only forgets strikes: those of the credentials it takes away.
LEMMA StruckEdited ==
    ASSUME TypeOK, StruckIsBlocked, NEW f \in Files, Edit(f)
    PROVE  StruckIsBlocked'
<1>1. UNCHANGED <<pc, selected, at, err, blocked>>
    BY DEF Edit, daemonVars, loopVars
<1>2. \A n \in Name : struck'[n] \subseteq struck[n] /\ (Creds(f, n) # {} => struck'[n] \subseteq Creds(f, n))
    BY DEF Edit
<1>3. \A i \in DOMAIN selected : selected[i].name \in Name
    BY SelectedNames
<1>4. file' = f
    BY DEF Edit
<1> QED BY <1>1, <1>2, <1>3, <1>4 DEF StruckIsBlocked, Current, Blocks

\* Every step keeps what is struck blocked.
LEMMA StruckStep == TypeOK /\ StruckIsBlocked /\ [Next]_vars => StruckIsBlocked'
<1> SUFFICES ASSUME TypeOK, StruckIsBlocked, [Next]_vars PROVE StruckIsBlocked'
    OBVIOUS
<1>1. CASE UNCHANGED vars \/ DaemonSignalled
    BY <1>1, StruckFrame DEF vars, daemonVars, loopVars, DaemonSignalled, Signal
<1>2. CASE DaemonStarts
    <2>1. CASE StartDaemon
        BY <1>2, <2>1, StruckBegin DEF DaemonStarts, StartDaemon, Over
    <2>2. CASE StartFails
        <3>1. /\ UNCHANGED <<file, selected, at, blocked>> /\ pc' = "failed"
              /\ \A n \in Name : struck'[n] = {}
            BY <1>2, <2>2 DEF DaemonStarts, StartFails, Over
        <3>2. \A i \in DOMAIN selected : selected[i].name \in Name
            BY SelectedNames
        <3> QED BY <3>1, <3>2 DEF StruckIsBlocked
    <2> QED BY <1>2, <2>1, <2>2 DEF DaemonStarts
<1>3. CASE DaemonStops
    BY <1>3, StruckGone DEF DaemonStops, Exit, Crash, Ended
<1>4. CASE StartCycle /\ Unobserved
    <2>1. CASE Usable(file, Wanted)
        BY <1>4, <2>1, StruckBegin DEF StartCycle, Unobserved, StruckIsBlocked
    <2>2. CASE ~Usable(file, Wanted)
        BY <1>4, <2>2, StruckFrame DEF StartCycle, Unobserved, loopVars
    <2> QED BY <2>1, <2>2
<1>5. CASE EndCycle /\ IF pc' = "panicked" THEN Over ELSE Unobserved
    <2>1. CASE pc' = "panicked"
        BY <1>5, <2>1, StruckGone DEF EndCycle, Ended
    <2>2. CASE pc' # "panicked"
        BY <1>5, <2>2 DEF EndCycle, Gone, Unobserved, StruckIsBlocked
    <2> QED BY <2>1, <2>2
<1>6. CASE SkipBlocked /\ UNCHANGED struck
    BY <1>6, StruckNext DEF SkipBlocked
<1>7. CASE CheckStatus /\ Unobserved
    <2>1. CASE NextProfile
        BY <1>7, <2>1, StruckNext DEF CheckStatus, Unobserved
    <2>2. CASE ~NextProfile
        BY <1>7, <2>2 DEF CheckStatus, Unobserved, StruckIsBlocked, Current, Blocks
    <2> QED BY <2>1, <2>2
<1>8. CASE LookupPassword /\ UNCHANGED struck
    BY <1>8, StruckWithin DEF LookupPassword, Fails
<1>9. CASE DaemonAcquires /\ KinitAnswered
    <2>1. CASE err' = "rejected"
        BY <1>9, <2>1, StruckRejected DEF DaemonAcquires, KinitAnswered, KinitKilled, HandleResult, Fails
    <2>2. CASE err' # "rejected"
        BY <1>9, <2>2, StruckWithin DEF DaemonAcquires, KinitAnswered, KinitKilled, HandleResult, Fails
    <2> QED BY <2>1, <2>2
<1>10. CASE KinitKilled /\ UNCHANGED struck
    BY <1>10, StruckWithin DEF KinitKilled, Fails
<1>11. CASE HandleResult /\ Unobserved
    BY <1>11, StruckHandled DEF Unobserved
<1>12. ASSUME NEW f \in Files, Edit(f) PROVE StruckIsBlocked'
    BY <1>12, StruckEdited
<1>13. CASE Refreshes
    BY <1>13, StruckFrame DEF Refreshes, RefreshStarts, RefreshAcquires, daemonVars, loopVars
<1>14. ASSUME NEW c \in Credential, PasswordChanges(c) \/ \E v \in VaultState : KeychainChanges(c, v)
       PROVE  StruckIsBlocked'
    BY <1>14, StruckFrame DEF PasswordChanges, KeychainChanges, daemonVars, loopVars
<1>15. CASE NetworkChanges \/ Meddling \/ ZoneChanges \/ Tick \/ Sleep
    BY <1>15, StruckFrame DEF NetworkChanges, Meddling, Destroy, DestroyTGT, TakeOver, Meddles,
                              ZoneChanges, Tick, TimerTick, Sleep, daemonVars, loopVars
<1> QED
    BY <1>1, <1>2, <1>3, <1>4, <1>5, <1>6, <1>7, <1>8, <1>9, <1>10, <1>11, <1>12, <1>13, <1>14, <1>15
    DEF Next, Daemons, DaemonLoops, DaemonChecks, DaemonAcquires, Surroundings

\* StruckIsBlocked holds in every reachable state.
THEOREM StruckStaysBlocked == Spec => []StruckIsBlocked
BY StruckInit, StruckStep, TypeCorrect, PTL DEF Spec

\* The daemon never sends the KDC a credential it has already refused this
\* daemon for the profile, until the file has given the profile another one.
THEOREM NoLockout == Spec => []NoSecondStrike
<1>1. TypeOK /\ StruckIsBlocked => NoSecondStrike
    <2> SUFFICES ASSUME TypeOK, StruckIsBlocked, pc = "kinit", Current.cred \in struck[Current.name]
                 PROVE  FALSE
        BY DEF NoSecondStrike
    <2>1. Current.name \in Name
        BY CurrentType DEF TypeOK, DaemonTypeOK
    <2> QED BY <2>1 DEF StruckIsBlocked, Blocks
<1> QED BY <1>1, StruckStaysBlocked, TypeCorrect, PTL

-----------------------------------------------------------------------------
(* No failure of a credential that works is ever taken for a permanent one. *)

\* SteadyNeverBlocked, with the call under way: the keychain item is good or out of
\* reach, a password read from it is good, and the error that follows is not permanent.
SteadyFine ==
    /\ \A c \in Steady : vault[c] \in {"good", "locked"}
    /\ \A n \in Name : blocked[n] \notin Steady
    /\ pc = "kinit" /\ Current.cred \in Steady => pw = "good"
    /\ pc = "result" /\ Current.cred \in Steady => ~IsPermanent(err)

\* At first the blocklist is empty.
LEMMA SteadyInit == Init => SteadyFine
BY KrbAssumption, DaemonAssumption DEF Init, KrbInit, DaemonInit, SteadyFine

\* Enough that the keychain and the blocklist stay, and with them the call under way.
LEMMA SteadyFrame ==
    ASSUME SteadyFine, UNCHANGED <<vault, blocked>>,
           UNCHANGED <<pc, selected, at, pw, err>> \/ pc' \notin {"kinit", "result"}
    PROVE  SteadyFine'
BY DEF SteadyFine, Current

\* An empty blocklist blocks no credential.
LEMMA SteadyFresh ==
    ASSUME SteadyFine, UNCHANGED vault, blocked' = [n \in Name |-> none], pc' \notin {"kinit", "result"}
    PROVE  SteadyFine'
BY KrbAssumption, DaemonAssumption DEF SteadyFine

\* No step takes a failure of a steady credential for a permanent one.
LEMMA SteadyStep == TypeOK /\ SteadyFine /\ [Next]_vars => SteadyFine'
<1> SUFFICES ASSUME TypeOK, SteadyFine, [Next]_vars PROVE SteadyFine'
    OBVIOUS
<1>1. CASE UNCHANGED vars \/ DaemonSignalled
    BY <1>1, SteadyFrame DEF vars, krbVars, daemonVars, loopVars, DaemonSignalled, Signal
<1>2. CASE DaemonStarts
    <2>1. CASE StartDaemon
        BY <2>1, SteadyFresh DEF StartDaemon, BeginCycle, krbVars
    <2>2. CASE StartFails
        BY <2>2, SteadyFrame DEF StartFails, krbVars
    <2> QED BY <1>2, <2>1, <2>2 DEF DaemonStarts
<1>3. CASE DaemonStops
    BY <1>3, SteadyFresh DEF DaemonStops, Exit, Crash, Gone, krbVars
<1>4. CASE StartCycle
    BY <1>4, SteadyFrame DEF StartCycle, BeginCycle, loopVars, krbVars
<1>5. CASE EndCycle
    BY <1>5, SteadyFresh, SteadyFrame DEF EndCycle, Gone, krbVars
<1>6. CASE SkipBlocked \/ CheckStatus
    BY <1>6, SteadyFrame DEF SkipBlocked, CheckStatus, NextProfile, krbVars
<1>7. CASE LookupPassword
    <2>1. Current' = Current /\ UNCHANGED <<vault, blocked>>
        BY <1>7 DEF LookupPassword, Fails, Current, krbVars
    <2>2. ASSUME Current.cred \in Steady
          PROVE  /\ pc' = "kinit" => pw' = "good"
                 /\ pc' = "result" => ~IsPermanent(err')
        <3>1. LookupErrors(Current.cred) = IF vault[Current.cred] = "good" THEN {"none"} ELSE {"other"}
            BY <2>2 DEF SteadyFine, LookupErrors
        <3> QED BY <1>7, <2>2, <3>1 DEF LookupPassword, Fails, SteadyFine, IsPermanent
    <2> QED BY <1>7, <2>1, <2>2 DEF SteadyFine, LookupPassword, Fails
<1>8. CASE KinitAnswered
    <2>1. Current' = Current /\ UNCHANGED <<vault, blocked>> /\ pc' = "result"
        BY <1>8 DEF KinitAnswered, Fails, Current
    <2>2. Current.cred \in Steady => err' = "none"
        BY <1>8 DEF KinitAnswered, Fails, SteadyFine, Answers
    <2> QED BY <2>1, <2>2 DEF SteadyFine, IsPermanent
<1>9. CASE KinitKilled
    BY <1>9 DEF KinitKilled, Fails, SteadyFine, IsPermanent, Current
<1>10. CASE HandleResult
    <2>1. at \in DOMAIN selected
        BY <1>10 DEF HandleResult, TypeOK, DaemonTypeOK
    <2>2. blocked \in [Name -> Credential \cup {none}] /\ pc = "result"
        BY <1>10 DEF HandleResult, TypeOK, DaemonTypeOK
    <2>3. \A n \in Name : blocked'[n] \notin Steady
        BY <1>10, <2>2 DEF HandleResult, SteadyFine
    <2> QED BY <1>10, <2>3 DEF HandleResult, NextProfile, SteadyFine, krbVars
<1>11. CASE Refreshes
    BY <1>11, SteadyFrame DEF Refreshes, RefreshStarts, RefreshAcquires, daemonVars, loopVars, krbVars
<1>12. ASSUME NEW c \in Credential, PasswordChanges(c) PROVE SteadyFine'
    <2>1. \A d \in Steady : vault'[d] = vault[d]
        BY <1>12, KrbAssumption DEF PasswordChanges, TypeOK, KrbTypeOK
    <2> QED BY <1>12, <2>1 DEF PasswordChanges, SteadyFine, Current
<1>13. ASSUME NEW c \in Credential, NEW v \in VaultState, KeychainChanges(c, v) PROVE SteadyFine'
    <2>1. \A d \in Steady : vault'[d] \in {"good", "locked"}
        BY <1>13, KrbAssumption DEF KeychainChanges, SteadyFine, TypeOK, KrbTypeOK
    <2> QED BY <1>13, <2>1 DEF KeychainChanges, SteadyFine, Current, daemonVars, loopVars
<1>14. CASE (\E f \in Files : Edit(f)) \/ NetworkChanges \/ Meddling \/ ZoneChanges \/ Tick \/ Sleep
    BY <1>14, SteadyFrame DEF Edit, NetworkChanges, Meddling, Destroy, DestroyTGT, TakeOver, Meddles,
                              ZoneChanges, Tick, TimerTick, Sleep, daemonVars, loopVars, krbVars
<1> QED
    BY <1>1, <1>2, <1>3, <1>4, <1>5, <1>6, <1>7, <1>8, <1>9, <1>10, <1>11, <1>12, <1>13, <1>14
    DEF Next, Daemons, DaemonLoops, DaemonChecks, DaemonAcquires, Surroundings

\* A credential the KDC never refuses and the keychain never loses is never blocked,
\* whatever fails around it and whoever locks the keychain.
THEOREM NeverBlockedInError == Spec => []SteadyNeverBlocked
<1>1. SteadyFine => SteadyNeverBlocked
    BY DEF SteadyFine, SteadyNeverBlocked
<1> QED BY <1>1, SteadyInit, SteadyStep, TypeCorrect, PTL DEF Spec

-----------------------------------------------------------------------------
(* What the blocklist means while credentials are not edited. *)

\* Every profile has the credential given to its name, and can only be blocked for
\* that one; no lookup or kinit is under way for a blocked profile.
GivenIsBlocked(given) ==
    /\ \A i \in DOMAIN selected : selected[i].cred = given[selected[i].name]
    /\ \A n \in Name : blocked[n] \in {none, given[n]}
    /\ pc \in {"lookup", "kinit", "result"} => ~Blocks(Current)

\* Enough that the blocklist stays, and the loop or where it will only look at it.
LEMMA GivenFrame ==
    ASSUME NEW given, GivenIsBlocked(given), UNCHANGED <<selected, blocked>>,
           \/ pc' \notin {"lookup", "kinit", "result"}
           \/ pc' = pc /\ at' = at
           \/ pc \in {"lookup", "kinit"} /\ at' = at
           \/ pc = "poll" /\ at' = at /\ ~Blocks(Current)
    PROVE  GivenIsBlocked(given)'
BY DEF GivenIsBlocked, Blocks, Current

\* A process that is gone has neither profiles nor a blocklist.
LEMMA GivenGone ==
    ASSUME NEW given, NEW how \in Ended, Gone(how)
    PROVE  GivenIsBlocked(given)'
BY DEF Gone, GivenIsBlocked, Ended

\* The profiles of a cycle that begins have the credentials given to their names.
LEMMA GivenBegin ==
    ASSUME TypeOK, NEW given, \A f \in Files, n \in Name : Creds(f, n) \subseteq {given[n]},
           Usable(file, Wanted), BeginCycle(Selected(file, Wanted)),
           \A n \in Name : blocked'[n] \in {none, given[n]}
    PROVE  GivenIsBlocked(given)'
<1>1. file \in Files /\ file \in RawFile /\ Wanted \in Seq(Name)
    BY DaemonAssumption DEF TypeOK, DaemonTypeOK
<1>2. pc' = "poll" /\ selected' = Selected(file, Wanted) /\ selected' \in Seq(Profile)
    BY <1>1, SelectedType DEF BeginCycle
<1>3. ASSUME NEW i \in DOMAIN selected'
      PROVE  selected'[i].cred = given[selected'[i].name]
    <2>1. Creds(file, selected'[i].name) = {selected'[i].cred}
        BY <1>1, <1>2, <1>3, SelectedCreds
    <2>2. selected'[i] \in Profile
        BY <1>2, <1>3
    <2>3. selected'[i].name \in Name
        BY <2>2 DEF Profile
    <2>4. Creds(file, selected'[i].name) \subseteq {given[selected'[i].name]}
        BY <1>1, <2>3
    <2> QED BY <2>1, <2>4, Zenon
<1> QED BY <1>2, <1>3 DEF GivenIsBlocked

\* Every step keeps it, if no file ever gives a name another credential.
LEMMA GivenStep ==
    ASSUME TypeOK, NEW given, \A f \in Files, n \in Name : Creds(f, n) \subseteq {given[n]},
           GivenIsBlocked(given), [Next]_vars
    PROVE  GivenIsBlocked(given)'
<1>1. CASE UNCHANGED vars \/ DaemonSignalled
    BY <1>1, GivenFrame DEF vars, daemonVars, loopVars, DaemonSignalled, Signal
<1>2. CASE DaemonStarts
    <2>1. CASE StartDaemon
        BY <2>1, GivenBegin DEF StartDaemon
    <2>2. CASE StartFails
        BY <2>2, GivenFrame DEF StartFails
    <2> QED BY <1>2, <2>1, <2>2 DEF DaemonStarts
<1>3. CASE DaemonStops
    BY <1>3, GivenGone DEF DaemonStops, Exit, Crash, Ended
<1>4. CASE StartCycle
    <2>1. CASE Usable(file, Wanted)
        BY <1>4, <2>1, GivenBegin DEF StartCycle, GivenIsBlocked
    <2>2. CASE ~Usable(file, Wanted)
        BY <1>4, <2>2, GivenFrame DEF StartCycle, loopVars
    <2> QED BY <2>1, <2>2
<1>5. CASE EndCycle
    <2>1. CASE Gone("panicked")
        BY <2>1, GivenGone DEF Ended
    <2>2. CASE ~Gone("panicked")
        BY <1>5, <2>2 DEF EndCycle, GivenIsBlocked
    <2> QED BY <2>1, <2>2
<1>6. CASE SkipBlocked \/ CheckStatus
    BY <1>6, GivenFrame DEF SkipBlocked, CheckStatus, NextProfile
<1>7. CASE LookupPassword \/ KinitAnswered \/ KinitKilled
    BY <1>7, GivenFrame DEF LookupPassword, KinitAnswered, KinitKilled, Fails
<1>8. CASE HandleResult
    <2>1. at \in DOMAIN selected /\ pc' = "poll" /\ selected' = selected
        BY <1>8 DEF HandleResult, NextProfile, TypeOK, DaemonTypeOK
    <2>2. /\ blocked' = blocked \/ blocked' = [blocked EXCEPT ![Current.name] = Current.cred]
          /\ Current.cred = given[Current.name] /\ Current.name \in Name
        BY <1>8, <2>1, CurrentType DEF HandleResult, GivenIsBlocked, Current
    <2>3. blocked \in [Name -> Credential \cup {none}]
        BY DEF TypeOK, DaemonTypeOK
    <2>4. \A n \in Name : blocked'[n] \in {none, given[n]}
        BY <2>2, <2>3 DEF GivenIsBlocked
    <2> QED BY <2>1, <2>4 DEF GivenIsBlocked
<1>9. CASE Refreshes
    BY <1>9, GivenFrame DEF Refreshes, RefreshStarts, RefreshAcquires, daemonVars, loopVars
<1>10. CASE Surroundings
    BY <1>10, GivenFrame DEF Surroundings, Edit, PasswordChanges, KeychainChanges, NetworkChanges,
                             Meddling, Destroy, DestroyTGT, TakeOver, Meddles, ZoneChanges,
                             Tick, TimerTick, Sleep, daemonVars, loopVars
<1> QED
    BY <1>1, <1>2, <1>3, <1>4, <1>5, <1>6, <1>7, <1>8, <1>9, <1>10
    DEF Next, Daemons, DaemonLoops, DaemonChecks, DaemonAcquires

\* As long as no edit gives a profile another credential, the blocklist holds what
\* daemon.go:71 says, the profiles whose last acquisition failed: only such an edit
\* can leave an entry under the name of a profile that has just been acquired.
THEOREM OnlyEditsLeaveStaleBlocks ==
    ASSUME NEW given, \A f \in Files, n \in Name : Creds(f, n) \subseteq {given[n]}
    PROVE  Spec => BlockMeansLastFailed
<1>1. Init => GivenIsBlocked(given)
    BY DEF Init, DaemonInit, GivenIsBlocked
<1>2. TypeOK /\ GivenIsBlocked(given) /\ [Next]_vars => GivenIsBlocked(given)'
    BY GivenStep
<1>3. TypeOK /\ GivenIsBlocked(given) /\ [Next]_vars
        => [pc = "result" /\ pc' = "poll" /\ err = "none" => blocked'[Current.name] = none]_vars
    <2> SUFFICES ASSUME TypeOK, GivenIsBlocked(given), Next, pc = "result", pc' = "poll", err = "none"
                 PROVE  blocked'[Current.name] = none
        OBVIOUS
    <2>1. at \in DOMAIN selected
        BY DEF TypeOK, DaemonTypeOK
    <2>2. Current.name \in Name /\ Current.cred = given[Current.name]
        BY <2>1, CurrentType DEF GivenIsBlocked, Current
    <2>3. blocked[Current.name] = none
        BY <2>2 DEF GivenIsBlocked, Blocks
    <2>4. HandleResult
        BY DEF Next, Daemons, DaemonStarts, DaemonStops, DaemonSignalled, DaemonLoops, DaemonChecks,
               DaemonAcquires, StartDaemon, StartFails, Exit, Crash, Gone, Signal, StartCycle, EndCycle,
               SkipBlocked, CheckStatus, LookupPassword, KinitAnswered, KinitKilled, Fails, Refreshes,
               RefreshStarts, RefreshAcquires, Surroundings, Edit, PasswordChanges, KeychainChanges,
               NetworkChanges, Meddling, Destroy, DestroyTGT, TakeOver, Meddles, ZoneChanges, Tick,
               TimerTick, Sleep, daemonVars, loopVars, Ended
    <2> QED BY <2>3, <2>4 DEF HandleResult, IsPermanent
<1> QED BY <1>1, <1>2, <1>3, TypeCorrect, PTL DEF Spec, BlockMeansLastFailed

=============================================================================
