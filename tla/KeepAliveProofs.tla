--------------------------- MODULE KeepAliveProofs ---------------------------
(***************************************************************************)
(* Theorems about KeepAlive, for every choice of profiles, credentials,     *)
(* files and timeouts that the assumptions of the modules admit.            *)
(***************************************************************************)
EXTENDS KeepAlive, TLAPS

-----------------------------------------------------------------------------
(* What Load and SelectProfiles return. *)

\* An entry that Validate accepts is, once normalized, a profile of the type
\* every consumer relies on.
LEMMA NormalizeType ==
    ASSUME NEW p \in RawProfile, Normalizes(p), ValidProfile(Normalize(p))
    PROVE  Normalize(p) \in Profile
<1>1. ChosenSpec(p) \in RawSpec
    BY DEF RawProfile, ChosenSpec
<1>2. NormalizeCCache(ChosenSpec(p)) \in CCache
    BY <1>1 DEF RawSpec, NormalizeCCache, CCache
<1>3. /\ p.name \in Name /\ p.cred \in Credential
      /\ p.threshold \in Nat \ {0} /\ p.lifetime \in Nat
    BY DEF RawProfile, ValidProfile, Normalize
<1> QED BY <1>2, <1>3 DEF Normalize, Profile

\* The profiles of a file that loads form a sequence of profiles.
LEMMA NormalizedType ==
    ASSUME NEW f \in RawFile, Loads(f)
    PROVE  /\ Normalized(f.profiles) \in Seq(Profile)
           /\ DOMAIN Normalized(f.profiles) = DOMAIN f.profiles
<1> DEFINE ps == f.profiles
<1>1. ps \in Seq(RawProfile) /\ DOMAIN ps = 1 .. Len(ps) /\ Len(ps) \in Nat
    BY DEF RawFile
<1>2. ASSUME NEW i \in DOMAIN ps PROVE Normalize(ps[i]) \in Profile
    <2>1. ps[i] \in RawProfile BY <1>1, <1>2
    <2>2. Normalizes(ps[i]) BY <1>2 DEF Loads
    <2>3. ValidProfile(Normalize(ps[i])) BY <1>2 DEF Loads, Validates, Normalized
    <2> QED BY <2>1, <2>2, <2>3, NormalizeType
<1> QED BY <1>1, <1>2 DEF Normalized

\* The selected profiles are profiles of the file.
LEMMA SelectedType ==
    ASSUME NEW f \in RawFile, NEW names \in Seq(Name), Usable(f, names)
    PROVE  /\ Selected(f, names) \in Seq(Profile)
           /\ \A i \in DOMAIN Selected(f, names) :
                \E j \in DOMAIN f.profiles : Selected(f, names)[i] = Normalize(f.profiles[j])
<1> DEFINE ps == Normalized(f.profiles)
<1>1. ps \in Seq(Profile) /\ DOMAIN ps = DOMAIN f.profiles
    BY NormalizedType DEF Usable
<1>2. ASSUME NEW j \in DOMAIN ps PROVE ps[j] = Normalize(f.profiles[j]) /\ ps[j] \in Profile
    BY <1>1, <1>2 DEF Normalized
<1>3. CASE names = <<>>
    BY <1>1, <1>2, <1>3 DEF Selected, SelectProfiles
<1>4. CASE names # <<>>
    <2> DEFINE pick(k) == CHOOSE i \in DOMAIN ps : ps[i].name = names[k]
    <2>1. ASSUME NEW k \in DOMAIN names PROVE pick(k) \in DOMAIN ps
        BY <2>1 DEF Usable, Selects
    <2>2. Selected(f, names) = [k \in DOMAIN names |-> ps[pick(k)]]
        BY <1>4 DEF Selected, SelectProfiles
    <2>3. DOMAIN names = 1 .. Len(names) /\ Len(names) \in Nat
        OBVIOUS
    <2> HIDE DEF pick, ps
    <2> QED BY <1>1, <1>2, <2>1, <2>2, <2>3
<1> QED BY <1>3, <1>4

\* Names are unique in a file that loads, so a selected profile's credential is
\* the one the file gives its name.
LEMMA SelectedCreds ==
    ASSUME NEW f \in RawFile, NEW names \in Seq(Name), Usable(f, names),
           NEW i \in DOMAIN Selected(f, names)
    PROVE  Creds(f, Selected(f, names)[i].name) = {Selected(f, names)[i].cred}
<1>1. PICK j \in DOMAIN f.profiles : Selected(f, names)[i] = Normalize(f.profiles[j])
    BY SelectedType
<1>2. Loads(f) BY DEF Usable
<1>3. ASSUME NEW k \in DOMAIN f.profiles, f.profiles[k].name = f.profiles[j].name
      PROVE  k = j
    <2>1. Normalized(f.profiles)[k].name # Normalized(f.profiles)[j].name \/ k = j
        BY <1>2, <1>3, NormalizedType DEF Loads, Validates
    <2> QED BY <2>1, <1>3 DEF Normalized, Normalize
<1>4. Normalize(f.profiles[j]).name = f.profiles[j].name
    BY DEF Normalize
<1> QED BY <1>1, <1>2, <1>3, <1>4 DEF Creds

\* The default cache has one owner: of the profiles of a file that loads, however they
\* are selected, one at most keeps its ticket there (a --profile given twice is the
\* same profile twice), so no cycle acquires into it for two principals in turn.
THEOREM OneOwnerOfDefaultCache ==
    \A f \in RawFile, names \in Seq(Name) :
      Usable(f, names) =>
        \A i, j \in DOMAIN Selected(f, names) :
          Selected(f, names)[i].ccache = CCacheAPI /\ Selected(f, names)[j].ccache = CCacheAPI
            => Selected(f, names)[i] = Selected(f, names)[j]
<1> SUFFICES ASSUME NEW f \in RawFile, NEW names \in Seq(Name), Usable(f, names),
                    NEW i \in DOMAIN Selected(f, names), NEW j \in DOMAIN Selected(f, names),
                    Selected(f, names)[i].ccache = CCacheAPI, Selected(f, names)[j].ccache = CCacheAPI
             PROVE  Selected(f, names)[i] = Selected(f, names)[j]
    OBVIOUS
<1>1. PICK k \in DOMAIN f.profiles : Selected(f, names)[i] = Normalize(f.profiles[k])
    BY SelectedType
<1>2. PICK l \in DOMAIN f.profiles : Selected(f, names)[j] = Normalize(f.profiles[l])
    BY SelectedType
<1>3. Normalized(f.profiles)[k].ccache = CCacheAPI /\ Normalized(f.profiles)[l].ccache = CCacheAPI
    BY <1>1, <1>2 DEF Normalized
<1>4. k = l
    BY <1>3, NormalizedType DEF Usable, Loads, Validates
<1> QED BY <1>1, <1>2, <1>4

-----------------------------------------------------------------------------
(* Types. *)

\* Nothing runs at first: no daemon, no refresh, no history.
LEMMA TypeInit == Init => TypeOK
<1> SUFFICES ASSUME Init PROVE TypeOK
    OBVIOUS
<1>1. KrbTypeOK
    BY DEF Init, KrbInit, KrbTypeOK
<1>2. DaemonTypeOK
    <2>1. selected \in Seq(Profile) /\ at \in Nat /\ ~InCycle
        BY DEF Init, DaemonInit, InCycle
    <2>2. blocked \in [Name -> Credential \cup {none}]
        BY DEF Init, DaemonInit
    <2>3. fired \in BOOLEAN /\ stopping \in BOOLEAN /\ moved \in BOOLEAN
        BY DEF Init, DaemonInit
    <2>4. pc = "down" /\ pc \in Ended /\ file \in Files /\ interval \in Int /\ until \in Int /\ spent \in Nat
        BY DEF Init, DaemonInit, Ended
    <2>5. pw \in Password /\ err \in Error
        BY DEF Init, DaemonInit, Password, Error
    <2> QED BY <2>1, <2>2, <2>3, <2>4, <2>5 DEF DaemonTypeOK
<1>3. cli \in Seq(Profile) /\ struck \in [Name -> SUBSET Credential]
    BY DEF Init
<1>4. kept \subseteq CCache
    BY DEF Init
<1> QED BY <1>1, <1>2, <1>3, <1>4 DEF TypeOK

\* What the processes and their surroundings do to the caches keeps the types.
LEMMA WriteTicketType ==
    ASSUME TypeOK, NEW p \in Profile, WriteTicket(p)
    PROVE  /\ owner' \in [CCache -> Credential \cup {Nobody, Stranger}]
           /\ left' \in [CCache -> Nat] /\ shown' \in [CCache -> Nat]
<1>1. Granted(p) \in Nat BY KrbAssumption DEF Profile, Granted, Requested
<1>2. Slip(p.ccache) \in Nat BY KrbAssumption DEF Slip
<1>3. Shown(p.ccache, Granted(p)) \subseteq Nat BY <1>1, <1>2 DEF Shown
<1>4. PICK r \in Nat : shown' = [shown EXCEPT ![p.ccache] = r] BY <1>3 DEF WriteTicket
<1>5. shown' \in [CCache -> Nat] BY <1>4 DEF TypeOK, KrbTypeOK
<1> QED BY <1>1, <1>5 DEF WriteTicket, TypeOK, KrbTypeOK, Profile

\* In a cycle there is a profile at `at` whenever the loop works on one.
LEMMA CurrentType ==
    ASSUME TypeOK, at \in DOMAIN selected
    PROVE  /\ Current \in Profile
           /\ Current.name \in Name /\ Current.cred \in Credential /\ Current.ccache \in CCache
           /\ at \in 1 .. Len(selected) /\ at + 1 \in 1 .. Len(selected) + 1
<1>1. selected \in Seq(Profile) BY DEF TypeOK, DaemonTypeOK
<1>2. Current \in Profile BY <1>1 DEF Current
<1>3. at \in 1 .. Len(selected) /\ at + 1 \in 1 .. Len(selected) + 1 BY <1>1
<1> QED BY <1>2, <1>3 DEF Profile

\* What history does with kept keeps it a set of caches.
LEMMA HistoryType ==
    ASSUME TypeOK, NEW ccs, NEW cc \in CCache, Lapsed(ccs) \/ Written(cc)
    PROVE  kept' \subseteq CCache
BY DEF TypeOK, Lapsed, Written

\* The step of one profile to the next keeps the loop's types.
LEMMA NextProfileType ==
    ASSUME TypeOK, at \in DOMAIN selected, NextProfile
    PROVE  /\ pc' = "poll" /\ selected' \in Seq(Profile) /\ at' \in Nat
           /\ at' \in 1 .. Len(selected') + 1
           /\ pw' \in Password /\ err' \in Error /\ spent' \in Nat
<1>1. selected' = selected /\ at' = at + 1 BY DEF NextProfile
<1>2. selected \in Seq(Profile) BY DEF TypeOK, DaemonTypeOK
<1>3. at' \in 1 .. Len(selected) + 1 /\ at' \in Nat BY <1>1, CurrentType
<1> QED BY <1>1, <1>2, <1>3 DEF NextProfile, Password, Error

\* So does the end of an acquisition.
LEMMA FailsType ==
    ASSUME TypeOK, at \in DOMAIN selected, NEW e \in Error, Fails(e)
    PROVE  /\ pc' = "result" /\ selected' = selected /\ at' = at
           /\ pw' \in Password /\ err' \in Error /\ spent' \in Nat
BY DEF Fails, Password, Error

\* A cycle begins at the first of the selected profiles.
LEMMA BeginCycleType ==
    ASSUME TypeOK, Usable(file, Wanted), BeginCycle(Selected(file, Wanted))
    PROVE  /\ pc' = "poll" /\ selected' \in Seq(Profile) /\ at' = 1
           /\ at' \in 1 .. Len(selected') + 1
           /\ pw' \in Password /\ err' \in Error /\ spent' \in Nat
<1>1. file \in RawFile /\ Wanted \in Seq(Name)
    BY DaemonAssumption DEF TypeOK, DaemonTypeOK
<1>2. Selected(file, Wanted) \in Seq(Profile) BY <1>1, SelectedType
<1>3. Len(Selected(file, Wanted)) \in Nat BY <1>2
<1> QED BY <1>2, <1>3 DEF BeginCycle, TypeOK, DaemonTypeOK

\* A process that is gone leaves nothing behind that is ill-typed.
LEMMA GoneType ==
    ASSUME TypeOK, NEW how \in Ended, Gone(how), UNCHANGED file
    PROVE  DaemonTypeOK'
<1>1. selected' \in Seq(Profile) /\ at' \in Nat /\ ~InCycle'
    BY DEF Gone, InCycle, Ended
<1>2. blocked' \in [Name -> Credential \cup {none}]
    BY DEF Gone
<1>3. fired' \in BOOLEAN /\ stopping' \in BOOLEAN /\ moved' \in BOOLEAN
    BY DEF Gone
<1>4. /\ pc' = how /\ interval' \in Int /\ until' \in Int /\ spent' \in Nat
      /\ pw' \in Password /\ err' \in Error
    BY DEF Gone, Password, Error
<1>5. file' \in Files
    BY DEF TypeOK, DaemonTypeOK
<1> QED BY <1>1, <1>2, <1>3, <1>4, <1>5 DEF DaemonTypeOK, Ended

\* Every action of the daemon, of refresh and of the surroundings keeps the types.
LEMMA TypeStep == TypeOK /\ [Next]_vars => TypeOK'
<1> SUFFICES ASSUME TypeOK, [Next]_vars PROVE TypeOK'
    OBVIOUS
<1> USE DEF TypeOK
<1>1. CASE UNCHANGED vars
    BY <1>1 DEF vars, krbVars, daemonVars, loopVars, timerVars, KrbTypeOK, DaemonTypeOK, InCycle
<1>2. CASE DaemonStarts
    <2>1. PollInterval(file) \in Int
        BY ConfigAssumption, DaemonAssumption DEF DaemonTypeOK, PollInterval, RawFile
    <2>2. DaemonTypeOK'
        <3>1. CASE StartDaemon
            BY <3>1, <2>1, BeginCycleType DEF StartDaemon, DaemonTypeOK, InCycle
        <3>2. CASE StartFails
            BY <3>2 DEF StartFails, timerVars, DaemonTypeOK, InCycle, Ended
        <3> QED BY <1>2, <3>1, <3>2 DEF DaemonStarts
    <2> QED BY <1>2, <2>2 DEF DaemonStarts, Over, Lapsed, StartDaemon, StartFails, krbVars, KrbTypeOK
<1>3. CASE DaemonStops
    <2>1. DaemonTypeOK' /\ UNCHANGED krbVars
        BY <1>3, GoneType DEF DaemonStops, Exit, Crash, Ended
    <2> QED BY <1>3, <2>1 DEF DaemonStops, Over, Lapsed, krbVars, KrbTypeOK
<1>4. CASE DaemonSignalled
    BY <1>4 DEF DaemonSignalled, Signal, krbVars, loopVars, timerVars, KrbTypeOK,
                DaemonTypeOK, InCycle, Lapsed
<1>5. CASE StartCycle /\ Unobserved
    <2>1. CASE Usable(file, Wanted)
        <3>0. BeginCycle(Selected(file, Wanted)) /\ fired' = FALSE
            BY <1>5, <2>1 DEF StartCycle
        <3>1. DaemonTypeOK'
            <4>1. UNCHANGED <<file, blocked, interval, until, stopping, moved>>
                BY <1>5 DEF StartCycle
            <4>2. /\ pc' = "poll" /\ selected' \in Seq(Profile) /\ at' = 1
                  /\ at' \in 1 .. Len(selected') + 1
                  /\ pw' \in Password /\ err' \in Error /\ spent' \in Nat
                BY <2>1, <3>0, BeginCycleType
            <4>3. fired' \in BOOLEAN
                BY <3>0
            <4> QED BY <4>1, <4>2, <4>3 DEF DaemonTypeOK, InCycle
        <3> QED BY <1>5, <3>1 DEF Unobserved, StartCycle, krbVars, KrbTypeOK
    <2>2. CASE ~Usable(file, Wanted)
        BY <1>5, <2>2 DEF Unobserved, StartCycle, krbVars, loopVars, KrbTypeOK, DaemonTypeOK, InCycle
    <2> QED BY <2>1, <2>2
<1>6. CASE EndCycle /\ (Over \/ Unobserved)
    <2>1. CASE Gone("panicked")
        BY <1>6, <2>1, GoneType DEF EndCycle, Over, Unobserved, Lapsed, krbVars, KrbTypeOK, Ended
    <2>2. CASE ~Gone("panicked")
        <3>0. /\ pc' = "select" /\ selected' = <<>> /\ at' = 0
              /\ until' = IF until = 0 THEN interval ELSE until
              /\ UNCHANGED <<pw, err, spent, blocked, interval, fired, stopping, moved, file>>
            BY <1>6, <2>2 DEF EndCycle
        <3>1. selected' \in Seq(Profile) /\ at' \in Nat
            BY <3>0
        <3>2. until' \in Int
            BY <3>0 DEF DaemonTypeOK
        <3>3. DaemonTypeOK'
            BY <3>0, <3>1, <3>2 DEF DaemonTypeOK, InCycle
        <3> QED BY <1>6, <3>3 DEF EndCycle, Over, Unobserved, Lapsed, krbVars, KrbTypeOK
    <2> QED BY <2>1, <2>2
<1>7. CASE SkipBlocked /\ kept' \subseteq kept /\ UNCHANGED <<cli, struck>>
    <2>1. DaemonTypeOK'
        BY <1>7, NextProfileType DEF SkipBlocked, DaemonTypeOK, InCycle, timerVars
    <2> QED BY <1>7, <2>1 DEF SkipBlocked, krbVars, KrbTypeOK
<1>8. CASE CheckStatus /\ Unobserved
    <2>1. CASE NextProfile
        <3>1. DaemonTypeOK'
            BY <1>8, <2>1, NextProfileType DEF CheckStatus, DaemonTypeOK, InCycle, timerVars
        <3> QED BY <1>8, <3>1 DEF Unobserved, CheckStatus, krbVars, KrbTypeOK
    <2>2. CASE ~NextProfile
        <3>1. pc' = "lookup" /\ spent' = 0 /\ UNCHANGED <<selected, at, pw, err>>
            BY <1>8, <2>2 DEF CheckStatus
        <3>2. DaemonTypeOK'
            BY <1>8, <3>1, CurrentType DEF CheckStatus, DaemonTypeOK, InCycle, timerVars
        <3> QED BY <1>8, <3>2 DEF Unobserved, CheckStatus, krbVars, KrbTypeOK
    <2> QED BY <2>1, <2>2
<1>9. CASE LookupPassword /\ kept' \subseteq kept /\ UNCHANGED <<cli, struck>>
    <2>1. at \in DOMAIN selected
        BY <1>9 DEF LookupPassword, DaemonTypeOK
    <2>2. PICK e \in LookupErrors(Current.cred) :
            IF e # "none" \/ stopping
            THEN Fails(IF e # "none" THEN e ELSE "other")
            ELSE /\ pc' = "kinit"
                 /\ pw' = vault[Current.cred]
                 /\ UNCHANGED <<selected, at, err, spent>>
        BY <1>9 DEF LookupPassword
    <2>3. CASE e # "none" \/ stopping
        <3>1. (IF e # "none" THEN e ELSE "other") \in Error
            BY DEF LookupErrors, Error
        <3>2. DaemonTypeOK'
            BY <1>9, <2>1, <2>2, <2>3, <3>1, FailsType, CurrentType
            DEF LookupPassword, DaemonTypeOK, InCycle, timerVars
        <3> QED BY <1>9, <3>2 DEF LookupPassword, krbVars, KrbTypeOK
    <2>4. CASE ~(e # "none" \/ stopping)
        <3>1. vault[Current.cred] \in {"good", "stale"}
            <4>1. vault[Current.cred] \in VaultState
                BY <2>1, CurrentType DEF KrbTypeOK
            <4> QED BY <2>2, <2>4, <4>1 DEF LookupErrors, VaultState
        <3>2. DaemonTypeOK'
            BY <1>9, <2>1, <2>2, <2>4, <3>1, CurrentType
            DEF LookupPassword, DaemonTypeOK, InCycle, timerVars, Password
        <3> QED BY <1>9, <3>2 DEF LookupPassword, krbVars, KrbTypeOK
    <2> QED BY <2>3, <2>4
<1>10. CASE DaemonAcquires /\ KinitAnswered
    <2>1. at \in DOMAIN selected
        BY <1>10 DEF KinitAnswered, DaemonTypeOK
    <2>2. PICK e \in Answers(pw) :
            Fails(e) /\ IF e = "none" THEN WriteTicket(Current) ELSE UNCHANGED ticketVars
        BY <1>10 DEF KinitAnswered
    <2>3. e \in Error
        BY DEF Answers, Error
    <2>4. DaemonTypeOK'
        BY <1>10, <2>1, <2>2, <2>3, FailsType, CurrentType
        DEF KinitAnswered, DaemonTypeOK, InCycle, timerVars
    <2>5. KrbTypeOK'
        BY <1>10, <2>1, <2>2, CurrentType, WriteTicketType DEF KinitAnswered, KrbTypeOK, ticketVars
    <2>6. kept' \subseteq CCache
        BY <1>10, <2>1, CurrentType, HistoryType DEF DaemonAcquires, KinitAnswered, KinitKilled, HandleResult,
           Unobserved
    <2>7. struck' \in [Name -> SUBSET Credential] /\ UNCHANGED cli
        BY <1>10, <2>1, CurrentType DEF DaemonAcquires, KinitAnswered, KinitKilled, HandleResult, Unobserved
    <2> QED BY <2>4, <2>5, <2>6, <2>7
<1>11. CASE KinitKilled /\ kept' \subseteq kept /\ UNCHANGED <<cli, struck>>
    <2>1. at \in DOMAIN selected
        BY <1>11 DEF KinitKilled, DaemonTypeOK
    <2>2. DaemonTypeOK'
        BY <1>11, <2>1, FailsType, CurrentType DEF KinitKilled, DaemonTypeOK, InCycle, timerVars, Error
    <2>3. KrbTypeOK'
        BY <1>11, <2>1, CurrentType, WriteTicketType DEF KinitKilled, KrbTypeOK, ticketVars
    <2> QED BY <1>11, <2>2, <2>3
<1>12. CASE HandleResult /\ Unobserved
    <2>1. at \in DOMAIN selected
        BY <1>12 DEF HandleResult, DaemonTypeOK
    <2>2. blocked' \in [Name -> Credential \cup {none}]
        BY <1>12, <2>1, CurrentType DEF HandleResult, DaemonTypeOK
    <2>3. DaemonTypeOK'
        BY <1>12, <2>1, <2>2, NextProfileType DEF HandleResult, DaemonTypeOK, InCycle, timerVars
    <2> QED BY <1>12, <2>3 DEF HandleResult, Unobserved, krbVars, KrbTypeOK
<1>13. ASSUME NEW names \in Seq(Name), RefreshStarts(names) PROVE TypeOK'
    <2>1. cli' \in Seq(Profile)
        BY <1>13, SelectedType, DaemonAssumption DEF RefreshStarts, DaemonTypeOK
    <2> QED BY <1>13, <2>1 DEF RefreshStarts, krbVars, daemonVars, loopVars, timerVars,
                               KrbTypeOK, DaemonTypeOK, InCycle
<1>14. CASE RefreshAcquires
    <2> DEFINE p == Head(cli)
    <2>1. p \in Profile /\ cli' \in Seq(Profile)
        BY <1>14 DEF RefreshAcquires
    <2>2. KrbTypeOK'
        BY <1>14, <2>1, WriteTicketType DEF RefreshAcquires, KrbTypeOK, ticketVars
    <2>3. kept' \subseteq CCache
        BY <1>14, <2>1, HistoryType DEF RefreshAcquires, Profile
    <2> QED BY <1>14, <2>1, <2>2, <2>3 DEF RefreshAcquires, daemonVars, loopVars, timerVars,
                                           DaemonTypeOK, InCycle
<1>15. ASSUME NEW f \in Files, Edit(f) PROVE TypeOK'
    <2>1. struck' \in [Name -> SUBSET Credential]
        BY <1>15 DEF Edit
    <2> QED BY <1>15, <2>1 DEF Edit, krbVars, daemonVars, loopVars, timerVars, Lapsed,
                               KrbTypeOK, DaemonTypeOK, InCycle
<1>16. ASSUME NEW c \in Credential, PasswordChanges(c) PROVE TypeOK'
    <2>1. vault' \in [Credential -> VaultState] /\ pw' \in Password
        BY <1>16 DEF PasswordChanges, KrbTypeOK, DaemonTypeOK, VaultState, Password
    <2> QED BY <1>16, <2>1 DEF PasswordChanges, ticketVars, timerVars, KrbTypeOK, DaemonTypeOK, InCycle
<1>17. ASSUME NEW c \in Credential, NEW v \in VaultState, KeychainChanges(c, v) PROVE TypeOK'
    <2>1. vault' \in [Credential -> VaultState]
        BY <1>17 DEF KeychainChanges, KrbTypeOK
    <2> QED BY <1>17, <2>1 DEF KeychainChanges, ticketVars, daemonVars, loopVars, timerVars,
                               KrbTypeOK, DaemonTypeOK, InCycle
<1>18. CASE NetworkChanges
    BY <1>18 DEF NetworkChanges, ticketVars, daemonVars, loopVars, timerVars, KrbTypeOK, DaemonTypeOK, InCycle
<1>19. ASSUME NEW cc \in CCache, Destroy(cc) \/ DestroyTGT(cc) \/ TakeOver(cc) PROVE TypeOK'
    <2>1. /\ owner' \in [CCache -> Credential \cup {Nobody, Stranger}]
          /\ left' \in [CCache -> Nat] /\ shown' \in [CCache -> Nat]
        <3>1. CASE Destroy(cc)
            BY <3>1 DEF Destroy, KrbTypeOK
        <3>2. CASE DestroyTGT(cc)
            BY <3>2 DEF DestroyTGT, KrbTypeOK
        <3>3. CASE TakeOver(cc)
            BY <3>3, KrbAssumption DEF TakeOver, KrbTypeOK
        <3> QED BY <1>19, <3>1, <3>2, <3>3
    <2>2. Meddles(cc)
        BY <1>19 DEF Destroy, DestroyTGT, TakeOver
    <2> QED BY <2>1, <2>2 DEF Meddles, Lapsed, daemonVars, loopVars, timerVars,
                              KrbTypeOK, DaemonTypeOK, InCycle
<1>20. ASSUME Elapse PROVE left' \in [CCache -> Nat] /\ shown' \in [CCache -> Nat]
    BY <1>20 DEF Elapse, Aged, KrbTypeOK
<1>21. CASE Tick
    <2>1. spent' \in Nat
        BY <1>21 DEF Tick, TimerTick, DaemonTypeOK
    <2>2. until' \in Int /\ fired' \in BOOLEAN
        <3>1. CASE until = 1
            BY <1>21, <3>1 DEF Tick, TimerTick, DaemonTypeOK
        <3>2. CASE until # 1
            BY <1>21, <3>2 DEF Tick, TimerTick, DaemonTypeOK
        <3> QED BY <3>1, <3>2
    <2>3. DaemonTypeOK'
        BY <1>21, <2>1, <2>2 DEF Tick, TimerTick, DaemonTypeOK, InCycle
    <2> QED BY <1>21, <1>20, <2>3 DEF Tick, Lapsed, KrbTypeOK
<1>22. CASE Sleep
    BY <1>22, <1>20 DEF Sleep, Lapsed, daemonVars, loopVars, timerVars, KrbTypeOK, DaemonTypeOK, InCycle
<1>27. CASE ZoneChanges
    <2>1. moved' \in BOOLEAN
        BY <1>27 DEF ZoneChanges
    <2> QED BY <1>27, <2>1 DEF ZoneChanges, Lapsed, krbVars, loopVars, timerVars,
                               KrbTypeOK, DaemonTypeOK, InCycle
<1>23. <<>> \in Seq(Name) /\ \A n \in Name : <<n>> \in Seq(Name)
    OBVIOUS
<1>24. CASE DaemonLoops
    BY <1>5, <1>6, <1>24 DEF DaemonLoops
<1>25. CASE DaemonChecks
    BY <1>7, <1>8, <1>9, <1>25 DEF DaemonChecks, Lapsed
<1>26. CASE DaemonAcquires
    BY <1>10, <1>11, <1>12, <1>26 DEF DaemonAcquires, Lapsed
<1> QED
    BY <1>1, <1>2, <1>3, <1>4, <1>13, <1>14, <1>15, <1>16, <1>17, <1>18, <1>19, <1>21, <1>22,
       <1>23, <1>24, <1>25, <1>26, <1>27
    DEF Next, Daemons, Refreshes, Surroundings, Meddling

\* Every variable keeps its type, whatever the profiles, the files and the timeouts.
THEOREM TypeCorrect == Spec => []TypeOK
BY TypeInit, TypeStep, PTL DEF Spec

-----------------------------------------------------------------------------
(* The profiles of a cycle, and what Validate has seen to about them. *)

\* A cycle works on the profiles the file gave when it began, until it is over.
LEMMA SelectedStep ==
    ASSUME TypeOK, [Next]_vars
    PROVE  \/ selected' = selected
           \/ selected' = <<>>
           \/ Usable(file, Wanted) /\ selected' = Selected(file, Wanted)
<1>1. CASE UNCHANGED vars
    BY <1>1 DEF vars, daemonVars, loopVars
<1>2. CASE DaemonStarts \/ DaemonStops \/ DaemonSignalled
    BY <1>2 DEF DaemonStarts, DaemonStops, DaemonSignalled, StartDaemon, StartFails, BeginCycle,
                Exit, Crash, Gone, Signal, loopVars
<1>3. CASE DaemonLoops
    BY <1>3 DEF DaemonLoops, StartCycle, EndCycle, BeginCycle, Gone, loopVars
<1>4. CASE DaemonChecks \/ DaemonAcquires
    BY <1>4 DEF DaemonChecks, DaemonAcquires, SkipBlocked, CheckStatus, LookupPassword,
                KinitAnswered, KinitKilled, HandleResult, NextProfile, Fails
<1>5. CASE Refreshes
    BY <1>5 DEF Refreshes, RefreshStarts, RefreshAcquires, daemonVars, loopVars
<1>6. CASE Surroundings
    BY <1>6 DEF Surroundings, Edit, PasswordChanges, KeychainChanges, NetworkChanges, Meddling,
                Destroy, DestroyTGT, TakeOver, Meddles, ZoneChanges, Tick, TimerTick, Sleep, daemonVars, loopVars
<1> QED BY <1>1, <1>2, <1>3, <1>4, <1>5, <1>6 DEF Next, Daemons

\* The tickets of the running cycle's profiles last longer than their thresholds,
\* even if their ends are read too early.
Ample(p) == p.threshold + Slip(p.ccache) <= Granted(p)
Roomy == \A i \in DOMAIN selected : Ample(selected[i])

\* Validate, with the KDC's policy and kinit's default to match, makes it so.
LEMMA RoomyFile ==
    ASSUME Grantable, NEW f \in Files, Usable(f, Wanted)
    PROVE  \A i \in DOMAIN Selected(f, Wanted) : Ample(Selected(f, Wanted)[i])
<1>1. f \in RawFile /\ Wanted \in Seq(Name) /\ Loads(f)
    BY DaemonAssumption DEF Usable
<1>2. ASSUME NEW p \in Profile, NEW j \in DOMAIN f.profiles, p = Normalize(f.profiles[j])
      PROVE  Ample(p)
    <2>1. ValidProfile(p)
        BY <1>1, <1>2 DEF Loads, Validates, Normalized
    <2>2. /\ p.threshold <= PolicyLifetime
          /\ p.lifetime = 0 => p.threshold <= DefaultLifetime
          /\ p.ccache = CCacheAPI => p.threshold + Misread <= Granted(p)
        BY <1>1, <1>2 DEF Grantable
    <2>3. p.lifetime \in Nat /\ p.threshold \in Nat
        BY DEF Profile
    <2>4. p.threshold <= Granted(p)
        BY <2>1, <2>2, <2>3, KrbAssumption DEF ValidProfile, Granted, Requested
    <2> QED BY <2>2, <2>3, <2>4 DEF Ample, Slip
<1>3. /\ Selected(f, Wanted) \in Seq(Profile)
      /\ \A i \in DOMAIN Selected(f, Wanted) :
           \E j \in DOMAIN f.profiles : Selected(f, Wanted)[i] = Normalize(f.profiles[j])
    BY <1>1, SelectedType
<1>4. \A i \in DOMAIN Selected(f, Wanted) : Selected(f, Wanted)[i] \in Profile
    BY <1>3
<1> QED BY <1>2, <1>3, <1>4

\* A ticket the daemon has just acquired is never due at once, for any file Validate
\* accepts: it is what the refusal of a threshold above the lifetime is for, and
\* all it leaves to chance is the KDC's policy, kinit's default and, in the API
\* cache, an end that is read too early.
THEOREM FreshStays ==
    ASSUME Grantable
    PROVE  Spec => FreshIsNotDue
<1>1. Init => Roomy
    BY DEF Init, DaemonInit, Roomy
<1>2. TypeOK /\ Roomy /\ [Next]_vars => Roomy'
    <2> SUFFICES ASSUME TypeOK, Roomy, [Next]_vars PROVE Roomy'
        OBVIOUS
    <2>1. CASE selected' = selected
        BY <2>1 DEF Roomy, Ample, Slip, Granted, Requested
    <2>2. CASE selected' = <<>>
        BY <2>2 DEF Roomy
    <2>3. CASE Usable(file, Wanted) /\ selected' = Selected(file, Wanted)
        BY <2>3, RoomyFile DEF Roomy, TypeOK, DaemonTypeOK, Ample, Slip, Granted, Requested
    <2> QED BY <2>1, <2>2, <2>3, SelectedStep
<1>3. ASSUME TypeOK, Roomy, [Next]_vars, pc = "kinit", pc' = "result", err' = "none",
             ~Abroad(Current.ccache), NEW st \in ReadStatus(Current.ccache, moved)', ~st.err
      PROVE  ~NeedsRefresh(Current, st)
    <2>1. KinitAnswered
        BY <1>3 DEF Next, vars, Daemons, DaemonStarts, DaemonStops, DaemonSignalled, DaemonLoops,
                    DaemonChecks, DaemonAcquires, StartDaemon, StartFails, Exit, Crash, Gone, Signal,
                    StartCycle, EndCycle, SkipBlocked, CheckStatus, LookupPassword, KinitKilled, Fails,
                    HandleResult, Refreshes, RefreshStarts, RefreshAcquires, Surroundings, Edit,
                    PasswordChanges, KeychainChanges, NetworkChanges, Meddling, Destroy, DestroyTGT, TakeOver,
                    Meddles, ZoneChanges, Tick, TimerTick, Sleep, daemonVars, loopVars, Ended
    <2>2. at \in DOMAIN selected /\ Current \in Profile /\ Current' = Current
        <3>1. at \in DOMAIN selected
            BY <1>3 DEF TypeOK, DaemonTypeOK
        <3>2. Current' = Current
            BY <2>1 DEF KinitAnswered, Fails, Current
        <3> QED BY <1>3, <3>1, <3>2, CurrentType
    <2> DEFINE cc == Current.ccache
               life == Granted(Current)
    <2>3. WriteTicket(Current) /\ moved' = moved
        BY <1>3, <2>1 DEF KinitAnswered, Fails
    <2>4. Ample(Current) /\ Slip(cc) \in Nat /\ life \in Nat /\ Current.threshold \in Nat \ {0}
        BY <1>3, <2>2, KrbAssumption DEF Roomy, Current, Slip, Profile, Granted, Requested
    <2>5. cc \in CCache /\ owner'[cc] = Current.cred /\ Current.cred \in Credential
          /\ shown'[cc] \in Shown(cc, life)
        BY <1>3, <2>2, <2>3 DEF WriteTicket, TypeOK, KrbTypeOK, Profile
    <2>6. shown'[cc] \in Nat /\ shown'[cc] >= Current.threshold
        <3> HIDE DEF cc, life
        <3>1. Current.threshold + Slip(cc) <= life
            BY <2>4 DEF Ample, cc, life
        <3> QED BY <2>4, <2>5, <3>1 DEF Shown
    <2>7. ~(moved' /\ cc = CCacheAPI)
        BY <1>3, <2>3 DEF Abroad
    <2>8. st = [err |-> FALSE, exists |-> owner'[cc] # Nobody, remaining |-> shown'[cc]]
        BY <1>3, <2>2, <2>7 DEF ReadStatus, Reading
    <2>9. st.exists /\ st.remaining = shown'[cc]
        BY <2>5, <2>8, KrbAssumption
    <2> QED BY <1>3, <2>4, <2>6, <2>9 DEF NeedsRefresh
<1>4. TypeOK /\ Roomy /\ [Next]_vars
        => [pc = "kinit" /\ pc' = "result" /\ err' = "none" /\ ~Abroad(Current.ccache)
              => \A st \in ReadStatus(Current.ccache, moved)' :
                   st.err \/ ~NeedsRefresh(Current, st)]_vars
    BY <1>3
<1> QED BY <1>1, <1>2, <1>4, TypeCorrect, PTL DEF Spec, FreshIsNotDue

=============================================================================
