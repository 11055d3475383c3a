----------------------------- MODULE KeepAlive ------------------------------
(***************************************************************************)
(* The whole system while tickets are kept alive: the daemon of module      *)
(* Daemon, a `refresh` command running beside it, and everything around     *)
(* them that changes on its own: the config file, the keychain, the KDC,    *)
(* the caches and the clock.                                                *)
(*                                                                          *)
(* Two history variables, which no action reads, say what has happened, for *)
(* the properties at the end of the module.                                 *)
(***************************************************************************)
EXTENDS Daemon, FiniteSets

CONSTANT
    Shared  \* caches that somebody else's commands write to as well

ASSUME SharedAssumption == Shared \subseteq CCache

VARIABLES
    cli,     \* the profiles a running `refresh` still has to acquire
    struck,  \* [Name -> credentials the KDC has refused this daemon for the
             \*  profile, forgotten once the file gives it another credential]
    kept     \* the caches whose last ticket was written in the daemon's time,
             \* nothing having happened since that excuses letting it lapse

vars == <<krbVars, file, daemonVars, cli, struck, kept>>

-----------------------------------------------------------------------------
(* What a file asks for. *)

ProfilesOf ==
    [f \in Files |->
       IF Usable(f, Wanted) THEN {Selected(f, Wanted)[i] : i \in DOMAIN Selected(f, Wanted)} ELSE {}]

\* The credentials the entries named n of the file have: none or one.
Creds(f, n) ==
    IF Loads(f)
    THEN {Normalize(f.profiles[i]).cred : i \in {j \in DOMAIN f.profiles : f.profiles[j].name = n}}
    ELSE {}

\* The daemon is told to keep a ticket in cc, with credentials that are never refused.
Covers(f, cc) ==
    /\ \E p \in ProfilesOf[f] : p.ccache = cc
    /\ \A p \in ProfilesOf[f] : p.ccache = cc => p.cred \in Steady

\* The daemon reads klist's times in a zone they are not in.
Abroad(cc) == moved /\ cc = CCacheAPI

\* A ticket is written to cc, and the daemon is to keep it.
Written(cc) ==
    kept' = IF Running /\ ~stopping /\ Covers(file, cc) /\ ~Abroad(cc)
            THEN kept \cup {cc} ELSE kept \ {cc}

\* Something happens that excuses letting the tickets in ccs lapse.
Lapsed(ccs) == kept' = kept \ ccs

TypeOK ==
    /\ KrbTypeOK
    /\ DaemonTypeOK
    /\ cli \in Seq(Profile)
    /\ struck \in [Name -> SUBSET Credential]
    /\ kept \subseteq CCache

Init ==
    /\ KrbInit
    /\ DaemonInit
    /\ cli = <<>>
    /\ struck = [n \in Name |-> {}]
    /\ kept = {}

-----------------------------------------------------------------------------
(* The daemon's actions, and what history makes of them. *)

Unobserved == UNCHANGED <<cli, struck, kept>>

\* What was struck belongs to the process that is gone.
Over ==
    /\ struck' = [n \in Name |-> {}]
    /\ Lapsed(CCache)
    /\ UNCHANGED cli

DaemonStarts == (StartDaemon \/ StartFails) /\ Over

DaemonStops == (Exit \/ Crash) /\ Over

DaemonLoops ==
    \/ StartCycle /\ Unobserved
    \/ EndCycle /\ IF pc' = "panicked" THEN Over ELSE Unobserved

DaemonChecks ==
    \/ CheckStatus /\ Unobserved
    \/ SkipBlocked /\ Lapsed({Current.ccache}) /\ UNCHANGED <<cli, struck>>
    \/ /\ LookupPassword
       /\ IF pc' = "result" THEN Lapsed({Current.ccache}) ELSE UNCHANGED kept
       /\ UNCHANGED <<cli, struck>>

DaemonAcquires ==
    \/ /\ KinitAnswered
       /\ struck' = IF err' = "rejected" /\ Creds(file, Current.name) \subseteq {Current.cred}
                    THEN [struck EXCEPT ![Current.name] = @ \cup {Current.cred}]
                    ELSE struck
       /\ IF err' = "none" THEN Written(Current.ccache) ELSE Lapsed({Current.ccache})
       /\ UNCHANGED cli
    \/ KinitKilled /\ Lapsed({Current.ccache}) /\ UNCHANGED <<cli, struck>>
    \/ HandleResult /\ Unobserved

DaemonSignalled == Signal /\ Lapsed(CCache) /\ UNCHANGED <<cli, struck>>

-----------------------------------------------------------------------------
(* `refresh`: acquires for every selected profile, due or not, blocked by the
   daemon or not, and stops at no failure. *)

RefreshStarts(names) ==
    /\ cli = <<>>
    /\ Usable(file, names)
    /\ cli' = Selected(file, names)
    /\ UNCHANGED <<krbVars, file, daemonVars, struck, kept>>

RefreshAcquires ==
    /\ cli # <<>>
    /\ cli' = Tail(cli)
    /\ LET p == Head(cli)
       IN \/ /\ kdc = "up" /\ vault[p.cred] = "good"
             /\ WriteTicket(p)
             /\ Written(p.ccache)
          \/ /\ kdc = "down" \/ vault[p.cred] # "good"
             /\ UNCHANGED <<ticketVars, kept>>
    /\ UNCHANGED <<vault, kdc, file, daemonVars, struck>>

-----------------------------------------------------------------------------
(* The surroundings. *)

Edit(f) ==
    /\ f # file
    /\ file' = f
    /\ struck' = [n \in Name |->
                    IF Creds(f, n) = {} THEN struck[n] ELSE struck[n] \cap Creds(f, n)]
    /\ Lapsed({cc \in CCache : ~Covers(f, cc)})
    /\ UNCHANGED <<krbVars, daemonVars, cli>>

\* The password is changed at the KDC: the item's secret and a copy in the
\* hands of a running kinit are out of date at once.
PasswordChanges(c) ==
    /\ c \notin Steady
    /\ vault[c] = "good"
    /\ vault' = [vault EXCEPT ![c] = "stale"]
    /\ pw' = IF pc = "kinit" /\ Current.cred = c THEN "stale" ELSE pw
    /\ UNCHANGED <<ticketVars, kdc, file, pc, selected, at, err, spent, blocked,
                   timerVars, stopping, moved, cli, struck, kept>>

\* Somebody locks or unlocks the keychain, stores another secret or removes the item.
KeychainChanges(c, v) ==
    /\ c \in Steady => v \in {"good", "locked"}
    /\ vault[c] # v
    /\ vault' = [vault EXCEPT ![c] = v]
    /\ UNCHANGED <<ticketVars, kdc, file, daemonVars, cli, struck, kept>>

NetworkChanges ==
    /\ kdc' = IF kdc = "up" THEN "down" ELSE "up"
    /\ UNCHANGED <<ticketVars, vault, file, daemonVars, cli, struck, kept>>

\* Somebody else's command does something to cc.
Meddles(cc) ==
    /\ Lapsed({cc})
    /\ UNCHANGED <<vault, kdc, file, daemonVars, cli, struck>>

\* kdestroy.
Destroy(cc) ==
    /\ owner[cc] # Nobody
    /\ owner' = [owner EXCEPT ![cc] = Nobody]
    /\ left' = [left EXCEPT ![cc] = 0]
    /\ shown' = [shown EXCEPT ![cc] = 0]
    /\ Meddles(cc)

\* kdestroy of the krbtgt alone.  The API cache may hold one for another realm, as
\* long-lived, and findTGT falls back on it.
DestroyTGT(cc) ==
    /\ cc = CCacheAPI
    /\ cc \in Shared
    /\ left[cc] > 0
    /\ left' = [left EXCEPT ![cc] = 0]
    /\ UNCHANGED <<owner, shown>>
    /\ Meddles(cc)

\* A kinit for another principal, in a cache the daemon then takes for its own.
TakeOver(cc) ==
    /\ cc \in Shared
    /\ owner' = [owner EXCEPT ![cc] = Stranger]
    /\ left' = [left EXCEPT ![cc] = PolicyLifetime]
    /\ shown' = [shown EXCEPT ![cc] = PolicyLifetime]
    /\ Meddles(cc)

Meddling == \E cc \in CCache : Destroy(cc) \/ DestroyTGT(cc) \/ TakeOver(cc)

\* The machine goes to another time zone, or comes back, and the daemon's process
\* stays with the one it was started in.
ZoneChanges ==
    /\ ZoneShift > 0
    /\ Running
    /\ moved' = ~moved
    /\ Lapsed({CCacheAPI})
    /\ UNCHANGED <<krbVars, file, loopVars, blocked, timerVars, stopping, cli, struck>>

Aged(validity) == [cc \in CCache |-> IF validity[cc] > 0 THEN validity[cc] - 1 ELSE 0]

Elapse == left' = Aged(left) /\ shown' = Aged(shown)

\* A unit of time passes.  A prompt nobody answers excuses every lapse.
Tick ==
    /\ TimerTick
    /\ Elapse
    /\ Lapsed(IF Prompting THEN CCache ELSE {})
    /\ UNCHANGED <<owner, vault, kdc, cli, struck>>

\* The machine sleeps: tickets age and no timer of the daemon moves.
Sleep ==
    /\ \E cc \in CCache : shown[cc] > 0 \/ left[cc] > 0
    /\ Elapse
    /\ Lapsed(CCache)
    /\ UNCHANGED <<owner, vault, kdc, file, daemonVars, cli, struck>>

-----------------------------------------------------------------------------

Daemons ==
    \/ DaemonStarts \/ DaemonStops \/ DaemonSignalled
    \/ DaemonLoops \/ DaemonChecks \/ DaemonAcquires

Refreshes == RefreshAcquires \/ RefreshStarts(<<>>) \/ \E n \in Name : RefreshStarts(<<n>>)

Surroundings ==
    \/ \E f \in Files : Edit(f)
    \/ \E c \in Credential : PasswordChanges(c) \/ \E v \in VaultState : KeychainChanges(c, v)
    \/ NetworkChanges
    \/ Meddling
    \/ ZoneChanges
    \/ Tick
    \/ Sleep

Next == Daemons \/ Refreshes \/ Surroundings

Spec == Init /\ [][Next]_vars

(* What the scheduler owes the daemon.  A step it can take is taken, except the
   answer to a prompt nobody reads; select, with a tick and the shutdown both
   ready, picks at random and so not the tick every time; time passes. *)
DaemonWorks == ~Prompting /\ (DaemonLoops \/ DaemonChecks \/ DaemonAcquires)

Fairness ==
    /\ WF_vars(DaemonWorks)
    /\ SF_vars(Exit /\ DaemonStops)
    /\ WF_vars(Tick)

FairSpec == Spec /\ Fairness

-----------------------------------------------------------------------------
(* What launchd sees of the daemon, module Process. *)

ProcState ==
    CASE pc \in Ended -> pc
      [] InCycle -> IF until = 0 THEN "first" ELSE "polling"
      [] pc = "select" -> "waiting"

\* What a start makes of a file.
ConfigOf ==
    [f \in Files |-> IF ~Usable(f, Wanted) THEN "bad"
                     ELSE IF PollInterval(f) <= 0 THEN "crashing" ELSE "good"]

P == INSTANCE Process WITH
       Configs <- {"bad", "good", "crashing"},
       proc <- ProcState, term <- stopping, doomed <- Running /\ interval <= 0,
       config <- ConfigOf[file]

-----------------------------------------------------------------------------
(* Properties. *)

\* The daemon with everything it does in a cycle is the process of module Process:
\* it comes to select with a ticker or dies of having none, exits with 0 only
\* there and only when told to, and outlives every file it cannot use.
ImplementsProcess == P!ProcessSpec

\* The daemon never offers the KDC a credential it has already refused this
\* daemon for the same profile, until the file has given the profile another
\* one: the lockout the blocklist is there to prevent.
NoSecondStrike == pc = "kinit" => Current.cred \notin struck[Current.name]

\* Why: a struck credential is in the blocklist, or is about to be; it is the
\* one the file now gives the profile, and the only one the running cycle can
\* still try for it; and no lookup is under way for a blocked profile.
StruckIsBlocked ==
    /\ \A n \in Name : \A c \in struck[n] :
         \/ blocked[n] = c
         \/ pc = "result" /\ err = "rejected" /\ Current.name = n /\ Current.cred = c
    /\ \A n \in Name : Creds(file, n) # {} => struck[n] \subseteq Creds(file, n)
    /\ \A i, j \in DOMAIN selected :
         selected[i].name = selected[j].name => selected[i].cred = selected[j].cred
    /\ \A i \in DOMAIN selected : i >= at => struck[selected[i].name] \subseteq {selected[i].cred}
    /\ pc \in {"lookup", "kinit"} => ~Blocks(Current)

\* No transient failure - an unreachable KDC, a killed kinit, a locked keychain,
\* a status that cannot be read - ever blocks a profile: a credential that the
\* KDC never refuses and the keychain never loses is never in the blocklist.
SteadyNeverBlocked == \A n \in Name : blocked[n] \notin Steady

\* A ticket the daemon is to keep, written while it was running, does not run
\* out behind its back: whenever it has lapsed, an attempt failed, or the daemon
\* was stopped, the machine slept or went to another time zone, somebody else wrote
\* to the cache, the file stopped asking for it, or a keychain prompt kept the loop.
NoSilentLapse == \A cc \in kept : left[cc] > 0

\* What it takes: a ticket that is not yet due outlasts a poll interval and two
\* cycles in which every klist and kinit uses up its timeout, but for the turn of
\* the profile itself, and so does a fresh one; one in the API cache does even if
\* its end is read too late by as much as the clocks are put back.
Lasts(p, time) ==
    /\ p.threshold + StatusTimeout + AcquireTimeout > time + Slip(p.ccache)
    /\ Granted(p) > time

Paced(slowest, longest) ==
    \A f \in Files :
      /\ Usable(f, Wanted)
           => /\ PollInterval(f) <= slowest
              /\ Len(Selected(f, Wanted)) * (StatusTimeout + AcquireTimeout) <= longest
      /\ Loads(f) => \A i \in DOMAIN f.profiles :
                       Lasts(Normalize(f.profiles[i]), slowest + 2 * longest)

\* The longest the turn of one profile can take, and the running cycle from here on.
Turn == StatusTimeout + AcquireTimeout

Rest ==
    CASE pc = "poll" -> (Len(selected) - at) * Turn + Turn - spent
      [] pc = "lookup" -> (Len(selected) - at) * Turn + AcquireTimeout
      [] pc = "kinit" -> (Len(selected) - at) * Turn + AcquireTimeout - spent
      [] pc = "result" -> (Len(selected) - at) * Turn
      [] OTHER -> 0

\* The most calls it can still take: a klist, a lookup and a kinit per profile.
Calls == 4 * (Len(selected) - at) + [poll |-> 4, lookup |-> 3, kinit |-> 2, result |-> 1][pc]

\* Whatever fails in it, a cycle is soon over, and with it the time a signal waits:
\* no call is made twice for a profile, and time passes in it only as long as a
\* klist and a kinit for each of its profiles may take, or while a prompt is open.
CycleIsBounded ==
    [][InCycle /\ InCycle' =>
         /\ UNCHANGED <<pc, at>> \/ Calls' < Calls
         /\ Rest' \in 0 .. Rest
         /\ Tick => Rest' < Rest \/ Prompting]_vars

\* What Validate refuses a threshold for: a ticket the daemon has just acquired is
\* not due at once, whatever of it the next poll reads, so that no poll after it asks
\* the KDC again.
FreshIsNotDue ==
    [][pc = "kinit" /\ pc' = "result" /\ err' = "none" /\ ~Abroad(Current.ccache)
         => \A st \in ReadStatus(Current.ccache, moved)' :
              st.err \/ ~NeedsRefresh(Current, st)]_vars

\* What it takes beside Validate, which knows neither the KDC's policy nor what kinit
\* requests for a profile without a ticket_lifetime, nor that an end in the API cache
\* can be read too early.
Grantable ==
    \A f \in Files : Loads(f) =>
      \A i \in DOMAIN f.profiles :
        LET p == Normalize(f.profiles[i])
        IN /\ p.threshold <= PolicyLifetime
           /\ p.lifetime = 0 => p.threshold <= DefaultLifetime
           /\ p.ccache = CCacheAPI => p.threshold + Misread <= Granted(p)

Healthy(cc) ==
    /\ Running /\ ~stopping
    /\ kdc = "up"
    /\ \A c \in Credential : vault[c] # "locked"
    /\ Covers(file, cc)
    /\ ~Abroad(cc)

\* Whatever happened before, once the daemon runs undisturbed with a credential
\* that works for a cache, the cache holds a valid ticket again and again.
UpkeepResumes ==
    \A cc \in CCache : <>[]Healthy(cc) => []<>(left[cc] > 0)

\* An edit takes effect without a restart, even over a valid ticket of the old
\* principal or of somebody else: if from some time on the file keeps giving a cache
\* to one working credential and nobody else does, the cache ends up holding tickets
\* of that credential only.
EditTakesEffect ==
    \A cc \in CCache, c \in Steady :
      (/\ <>[](Healthy(cc) /\ \A p \in ProfilesOf[file] : p.ccache = cc => p.cred = c)
       /\ <>[][~TakeOver(cc)]_vars)
        => <>[](owner[cc] \in {c, Nobody})

\* A daemon told to stop does stop, in whatever it is caught, unless a keychain
\* prompts keep stopping it.
ShutdownCompletes == <>[]~Prompting => (stopping ~> ~Running)

\* daemon.go:71: the blocklist holds profiles whose last acquisition failed, so
\* a profile that has just been acquired is not in it.
BlockMeansLastFailed ==
    [][pc = "result" /\ pc' = "poll" /\ err = "none" => blocked'[Current.name] = none]_vars

\* command.go:15: a config that was accepted does not make a job that cannot start.
NeverPanics == pc # "panicked"

=============================================================================
