# KerberosKeepAlive: a TLA+ model, its checks and its proofs

KerberosKeepAlive is a macOS command-line tool and background agent. It reads passwords from the
keychain, runs `kinit` with them, and keeps the resulting Kerberos tickets from expiring. Its
hardest promise is a negative one: the poll loop must not offer the KDC a password that has been
refused, again and again, until the account is locked.

This directory models the parts of the program that keep state or that run beside something that
does, checks them with TLC on small instances, and proves the central properties with TLAPS for
every value of the constants.

## 1. Inventory

| component | source | state | operations | module |
|---|---|---|---|---|
| configuration | `internal/config/config.go` | none; a pure function of the file | `Load` (defaults, `normalize`, `Validate`), `SelectProfiles` | `Config` |
| ticket status | `internal/krb/status.go` | none; reads the caches | `ReadStatus` (FILE in process, API through `klist`), `findTGT`, `parseKlistTime` | `Krb`, `Klist` |
| acquisition | `internal/krb/acquire.go`, `internal/keychain`, `internal/manager` | none; writes the caches | `LookupPassword`, `Acquire` (`kinit`, 30 s), `IsPermanent`, `NeedsRefresh` | `Krb`, `Daemon` |
| daemon | `internal/daemon/daemon.go` | blocklist, ticker, shutdown flag, place in the loop | `Run`, `pollAll`, reload, shutdown, exit status | `Daemon`, `KeepAlive`, `Process` |
| refresh, init | `cmd/common.go`, `cmd/refresh.go`, `cmd/init.go` | profiles still to acquire | `runAcquireAll` | `KeepAlive` |
| service verbs | `internal/service`, `cmd/service.go` | plist on disk, launchd's job | install, uninstall, start, stop, restart, status | `Service`, `Agent` |
| log file | `internal/logfile`, `internal/daemon/logging.go` | file held, its identity, time of the last check | `Open`, `Write`, `Close` | `LogFile` |
| status command | `cmd/status.go` | the lines written, `anyBad` | reads each profile's cache, prints, succeeds or fails | `Klist` |
| command line | `main.go`, `cmd/root.go`, `cmd/daemon.go` | none | parse, dispatch, exit status | `Process` (exit status only) |
| version, docs generator | `internal/version`, `tools/gendocs` | none | format | not modelled |

How they interact. The daemon and the `refresh` command are separate processes; they share the
config file, the keychain and the credential caches, and nothing else: the blocklist is in the
daemon's memory. `service install` hands the daemon to launchd, which starts it at login and
again after every unsuccessful exit. The service commands share the plist and the job with each
other and with launchd, without a lock. The daemon's log is rotated under it by newsyslog.

What makes each of them hard:

- **configuration** - the file changes under a running daemon; what `Validate` does not refuse
  (a negative poll interval, thresholds too small for the poll interval, two profiles with one
  FILE cache) reaches the loop. *Correct:* one credential per name, one owner of the API cache.
- **acquisition** - several calls, each with its own failures and delays; the password can go
  stale between the lookup and the answer; a failure must be classified. *Correct:* permanent
  exactly when retrying cannot help.
- **daemon** - one profile after the other, with child processes that take up to 40 s; ticks
  that are dropped; reloads that fail; a shutdown that competes with a tick; crashes that empty
  the blocklist. *Correct:* no second strike, no ticket lapses silently, the upkeep resumes, the
  shutdown completes.
- **refresh** - writes under the daemon and ignores its blocklist.
- **service verbs** - `bootout` returns before the job is gone; every call may fail, time out or
  be the last one before the command is killed. *Correct:* a verb that reports success has done
  what it says; every invocation ends.
- **the agent as a whole** - launchd restarts the process by its exit status, so every way `Run` can
  end matters; a stop meets a process that is being respawned. *Correct:* a failed daemon is never
  forgotten, a stopped one never returns, and a repaired config brings it up again.
- **status** - `klist` prints local times without a zone, and a cache can hold tickets for several
  realms; the caches change while they are read. *Correct:* success means every ticket was valid.
- **log file** - newsyslog acts between any two system calls of the writer. *Correct:* lines
  follow the rotation within `checkInterval`; the writer never loses its file.

`PROJECT.json` lists the hazards one by one, each at its line, with the properties that cover it.

## 2. Modules

```
Config  <-  Krb  <-  Daemon  <-  KeepAlive  <-  MCKeepAlive
                                 KeepAlive  <-  KeepAliveProofs  <-  LockoutProofs
Process  <== implemented by ==   KeepAlive          KeepAliveProofs  <-  ProcessProofs  <-  LapseProofs
Process  <-- INSTANCE --  Agent  <-  MCAgent
Service  <-  Agent               Service    <-  ServiceProofs  <-  AgentProofs
Service  <-  MCService
Klist    <-  MCKlist             Klist      <-  KlistProofs
LogFile  <-  MCLogFile           LogFile    <-  LogFileProofs
```

**Config** holds operators only. A raw file is a record: does it parse, the poll interval, and a
sequence of raw profiles. The principal and the keychain reference are one value, the *credential*,
because every consumer but `kinit` itself only compares them, as `credentialKey` does. `Blank`
stands for each field `Validate` refuses. A ccache spec is its syntactic form and its path.
`Loads`, `Normalize`, `Validates`, `PollInterval` and `SelectProfiles` are the functions of the
same names; `Usable` and `Selected` are the chain `Load`, `SelectProfiles` of every caller.

**Krb** has the surroundings as the program sees them: `owner` and `left` (whose ticket a cache
holds - a credential's, or a `Stranger`'s - and the validity that remains), `shown` (the validity that
`ReadStatus` computes of it), `vault` (what a keychain item is worth: a good secret, a
stale one, no item, or a lookup that prompts) and `kdc`. Keeping the remaining validity instead of
an expiry time makes a clock unnecessary. `ReadStatus` is the set of answers a status read may
give, an error always among them. `Answers` is what a `kinit` can report once the KDC has
answered: a refusal may be spelled out, or lost, in which case it looks like any other failure.
For a FILE cache `shown` is `left`. For the API cache it need not be: `klist` prints a local time without a
zone, and what `parseKlistTime` makes of it can be off by `Misread`, the amount the clocks are put back by, in either
direction (`Slip`, `Shown`; that it is never off by anything else is `ReadBack` of `Klist`). While the machine is in another
time zone than the process was started in (`abroad`) the reading can be off by anything up to `ZoneShift`, or be too
small by any amount (`Reading`).
`Steady` is a set of credentials that the KDC never refuses and the keychain never loses, although it may be locked; the
properties about upkeep are about them.

**Daemon** is `Run` and `pollAll`, one action between any two points at which something else can
act:

| `pc` | action | code |
|---|---|---|
| ended: `down`, `exited`, `failed`, `panicked` | `StartDaemon`, `StartFails` | `Run` to the first `pollAll`, and its errors before it |
| `select` | `StartCycle` | the ticker case, reload included |
| `select` | `Exit` | the `ctx.Done` case |
| `poll` | `SkipBlocked`, `CheckStatus`, `EndCycle` | the head of the loop, `NeedsRefresh`, the end of the loop (and, the first time, `time.NewTicker`) |
| `lookup` | `LookupPassword` | `keychain.LookupPassword`, and what exec does with a canceled context |
| `kinit` | `KinitAnswered`, `KinitKilled` | `krb.Acquire` |
| `result` | `HandleResult` | `IsPermanent`, `blocklist.block` |

`moved` says that the machine has left the time zone the process has read at its start, as Go reads it once. `Signal` cancels the context, `Crash` ends the process anywhere. `TimerTick` is a unit of time
on the ticker, which keeps one tick at most, and on the child process. It is possible only when
the daemon waits for something (`Idle`): a step it can take at once takes no time.

**KeepAlive** composes the daemon with `refresh`, which may run at any time for any selection, with
edits of the file, the keychain, the network, sleep and time, and with what else writes to the caches: `Destroy` is `kdestroy`;
in a cache in `Shared`, `TakeOver` is the `kinit` of another principal, and `DestroyTGT` leaves another realm's krbtgt behind, on which `findTGT`
falls back. `ZoneChanges` moves the machine. It adds two history
variables no action reads. `struck` has, per profile, the credentials the KDC has refused this daemon
in a reply the daemon was given, until the file gives the profile another credential. `kept` has the
caches with a ticket written in the daemon's time, as long as nothing has happened that excuses
its lapse; the action that is the excuse removes the cache.

**Process** is the abstract specification of the daemon: what launchd can tell of it. A process that is
started fails (a config that cannot be used, a log that cannot be opened: exit status 1), or runs
its first cycle; then it creates its ticker, or panics if the interval it has read is not positive; it polls
and waits, and looks for a signal only while it waits, upon which it exits with 0. `KeepAlive` implements it under
the mapping at its end: `ProcState`, `ConfigOf`, the `stopping` flag and the sign of `interval`.
All of blocklist, profiles, caches and time is hidden. The point of the
refinement is that `Agent` may use the small specification in the daemon's place.

**Service** models each verb as a process over `plist`, `job` and `source` (the plist the job was
bootstrapped from), with every launchctl call and file operation as a step. The steps of `Stop`
and `Start` are shared; `verb` decides what follows `Stop`. launchd finishes a bootout in its own
time (`TornDown`). An invocation can be killed between any two steps, and a relogin loads the
plist. `PrintMayFail` is whether `launchctl print` may fail for a registered job. `Prepare` is all that an install does
before it touches anything: the prepare function, `Render` and the directories, which can only
fail or yield the plist that is wanted. `Compare` may find a plist it cannot read, which is then written anew; `Stat` may fail over
a plist that is there.

**Agent** is `Service` and `Process` together, with launchd between them: `RunAtLoad`, `KeepAlive` with
`SuccessfulExit` false (`Restarts`) and the throttle (`due`) are the keys of the plist template. A
bootout asks the process to stop, and the job is gone only when the process is; until then launchd
goes on respawning it, as the comment at `service.go:450` warns. A verb, the process, a user with `kill`, an
editor and a reboot interleave. `service status` changes nothing, and what it can see is a state of `Service`.
`asked` is a history variable: since the process was started somebody has asked it to stop.

**Klist** models the reading of caches that hold several tickets. Time is UTC; local time is ahead of it by
`Before` until `Change`, and by `After` from then on. `Local` is what `klist` prints, and `ParseKlistTime`
is what `time.ParseInLocation` makes of it. The `status` command is a process that reads one cache
after the other while tickets come, go and expire; each line it writes is kept beside the truth at that moment.

**LogFile** models the writer's system calls against newsyslog. The mutex lets one call in at a
time, so one program counter is enough. A write after `Close` gets in too, and is refused (`Refuse`). Inodes are a finite set and are reused as soon as no name
and no descriptor holds them, which is what makes the comparison of identities worth checking.

The *mutants* in the modules - definitions above the one they vary, each introduced as such - are
plausible mistakes in the code. Each is there to show that the property named with it in
`PROJECT.json` notices; no specification uses them.

## 3. Runs

| run | shows | distinct states |
|---|---|---|
| `lockout` | `TypeOK`, `NoSecondStrike`, its inductive form `StruckIsBlocked`, and `CycleIsBounded` | 569 k |
| `upkeep` | `NoSilentLapse`, `SteadyNeverBlocked`, `FreshIsNotDue`, `CycleIsBounded` | 1.05 M |
| `recovery` | `UpkeepResumes`, `EditTakesEffect`, `ShutdownCompletes` (liveness); `ImplementsProcess` (refinement) | 207 k |
| `service_shared` | `TypeOK`, `InstallRetiresOldJob`, `EveryStepCounts`, `EveryVerbEnds` (liveness) with two invocations at once | 167 k |
| `agent` | `AgentTypeOK`, `SuccessMeansDone`, `NoOrphan`, `NeverForgotten`, `StopIsReal`, `RepairBringsBack` (liveness) with one invocation after the other | 43 k |
| `status` | `TypeOK`, `SuccessMeansValid`, `ReadBack` | 1.5 M |
| `log_file` | `TypeOK`, `FollowsRotation`, `OpenUntilClosed` | 22 k |
| `block_forgotten`, `negative_poll`, `service_stale`, `service_wedged`, `log_retry` | a counterexample each: see section 6 | - |

Deadlock is checked in every run.

What the properties mean:

- **NoSecondStrike** - when `kinit` runs, its credential is not one the KDC has already refused this
  daemon for this profile (unless the file gave the profile another one in between). The
  scenario that could break it is long: a refusal, an edit during the cycle, a reload, an edit
  back, with a restart or a refresh thrown in. *This daemon* matters: a restart empties the
  blocklist, and each new process may strike once. So does *has been told*: a refusal whose reply
  is lost or worded unlike every marker is retried.
- **SteadyNeverBlocked** - the opposite error: a network that is down, a `kinit` that is killed, a reply that is lost, a keychain
  that is locked when the lookup runs do not block a profile. Its mutant takes the locked keychain for a missing item.
- **NoSilentLapse** - while the daemon runs and is asked to keep a ticket, it does not run out
  unless an attempt failed, the machine slept or went to another time zone, somebody else wrote to the cache, the file stopped asking for
  it, or a keychain prompt held the loop. The end of daylight saving time is no excuse: an end in the API cache may be read an hour
  too late, and the threshold has to leave room for that (`Paced`).
- **UpkeepResumes**, **EditTakesEffect**, **ShutdownCompletes** - nothing the past can do keeps a
  daemon that is now undisturbed from holding a ticket; an edit from one principal to another
  replaces even a valid ticket in the end, and so it does a stranger's, once nobody takes the cache over any more; a daemon told to stop does so unless keychain prompts
  keep stopping it for ever.
- **SuccessMeansDone** - "installed", "restarted", "uninstalled" and "stopped" are true when they
  are reported, whatever killed invocations have left behind. "started" is not: of a `start` the property says only that the
  job is registered, and section 6 says why it cannot say more. It needs invocations not to
  overlap: with two at once, each can undo the other between the last step and the report.
- **InstallRetiresOldJob** - this much survives any overlap: an install that reports a change does
  not leave the job of an older plist running.
- **FreshIsNotDue** - a ticket just acquired is not due, whatever the next poll reads of it: were it, every poll would ask the KDC
  again. It holds where `ticket_lifetime` is given and the realm grants it, or the realm's default is above the threshold, with room for an end in the API cache
  that is read too early (`Grantable`).
- **CycleIsBounded** - whatever fails, each step of a cycle leaves it fewer calls to make (a `klist`, a lookup and a
  `kinit` per profile at most) and no more time to spend (`Rest`); time in it passes only as those calls' timeouts
  are used up, or while a keychain prompt is open. It bounds how long a signal or a tick waits in a cycle. A retry within
  the cycle would break it.
- **EveryStepCounts** - the ranking behind `EveryVerbEnds`: each step of a verb leaves it fewer to take, and no step of
  another verb, of launchd or of the machine gives it more.
- **ImplementsProcess** - the daemon is the process of `Process`. What could break it: a reload that fails and
  ends the loop, an exit with 0 that nobody asked for, a signal that is taken in the middle of a cycle, an
  interval that changes with the file.
- **NoOrphan** - a registered job has a plist. An uninstall removes the one only when the other is gone,
  so a `service status` that reports a job without a plist has looked at the two on either side of an install, and nothing worse.
- **NeverForgotten** - a loaded job whose process has ended is to be started again, unless somebody asked the process
  to stop. It relates every exit status of `Run` to the `KeepAlive` key.
- **StopIsReal** - when `stop` or `uninstall` reports success there is no process and none to come, although
  launchd was respawning it while the job was torn down. `command.go:65` promises it.
- **RepairBringsBack** - however often the process has failed, once the config is good and the job stays loaded, it
  runs again and again.
- **SuccessMeansValid** - `status` succeeds only if every profile's ticket was valid when its line was written.
  The exceptions it names are the two of section 6: the repeated hour, and a cache without its own realm's krbtgt.
- **ReadBack** - the bound on the former: only an end in the repeated hour is misread, by exactly the difference
  of the offsets.
- **AgentTypeOK**, **OpenUntilClosed** - besides types, that launchd has no start due while the process is alive; and that a write needs a
  file, which it has until `Close` and never after.
- **FollowsRotation** - a line is not written to a file that left the path `checkInterval` (and
  twice the longest call) ago, unless the last check failed.

### Bounds, and why they are enough

- `lockout`: one name, two credentials, and four files: the profile with either credential, a
  file with two entries under one name, which must be refused (the mutant that accepts it breaks
  `StruckIsBlocked`), and a negative poll interval. A `klist` and a `kinit` each take up to one unit of time, so that `CycleIsBounded` sees both; time has no part
  in the other properties. More names add nothing: an entry of the blocklist is read and written under
  its own name only, and the theorem covers them all.
- `upkeep`: two profiles, one in the API cache and one in a file, a `kinit` of up to one unit, a poll interval of one, a keychain that is
  locked and unlocked, ends in the API cache that are read one unit early or late, a machine that leaves its time zone and comes back, an alternative file that lacks the
  first profile, and in it a threshold above the lifetime,
  which must be refused (the mutant that accepts it breaks `FreshIsNotDue`). A cycle lasts up to two
  units, so ticks are late and are dropped. The thresholds, 6 for the API cache and 5 for the file, are the least for which `NoSilentLapse` is proved
  (`Paced(1, 2)`, which TLC evaluates together with `Grantable`). The bound is sufficient and not tight: with the same thresholds a misreading of two or three
  units goes well in this instance, and with four TLC finds a ticket lapsing. The ticket may be checked just
  before it is due, and the next check comes after the rest of that cycle, a poll interval, and the work on
  the profiles before it. With the default interval of 60 s and up to 40 s of `klist` and `kinit` per profile, ten profiles
  ask for a threshold above 60 + 19 * 40 s, some 14 minutes, and, where the clocks are put back, for an hour more of the profile in the API cache; nothing in
  `Validate` relates these numbers, and a threshold of half an hour there does not have that room.
- `recovery`: one name, one credential that works and one that may be refused, a file that does
  not load, one with a negative interval, unit durations; the API cache is one that others write to. Every config that `Process` tells apart is there.
- `service_shared`, `agent`: two plists, the old and the new; two polls before the deadline of `waitUnloaded`,
  so that it can succeed at once, later, or not at all; two callers where the question is their overlap.
  In `agent` the config may be good, unusable, or make the process panic.
- `status`: one API cache and one file, two realms and a service ticket, half hours as the unit, the clocks going back
  by an hour at the fourth of five; a lifetime of three, so that tickets end before, in and after the repeated hour.
- `log_file`: four inodes, so that a free one exists when the held, the live and the archived one
  are all different; `checkInterval` two units, a call up to one.

### Fairness

`DaemonWorks` is weakly fair: a process that can take a step takes it, a child process ends (both have
deadlines), and the exception is the keychain prompt, which has none. `Exit` is strongly fair:
with a tick and the shutdown both ready, `select` picks at random, so the shutdown is picked in
the end. `Tick` is weakly fair: time passes. Nothing is assumed of the user, the network
or `refresh`. In `Agent`, launchd's throttle ends (weakly fair), and a start that could succeed again and
again does in the end (strongly fair: each attempt may also fail to open the log); the process itself need
not do anything. In `Service` each invocation's own steps are weakly fair - launchctl has a timeout -
and launchd is not: `EveryVerbEnds` does not rely on its finishing a bootout.

## 4. Proofs

All are checked by TLAPS, for every set of names, credentials, caches, files, timeouts and callers
that the named assumptions of the modules (`ConfigAssumption`, `KrbAssumption`,
`DaemonAssumption`, `SharedAssumption`, `ServiceAssumption`, `LogFileAssumption`, `KlistAssumption`) admit. These say that the special
values are not ordinary ones, and that the numbers are natural.

- **KeepAliveProofs** `TypeCorrect`: `Spec => []TypeOK`. The lemmas about `Config` carry weight
  later: a file that loads gives normalized, valid profiles, and, because `Validate` refuses
  duplicate names, exactly one credential per name (`SelectedCreds`) and, because it refuses a second profile with the API
  cache, at most one owner of that cache in any selection (`OneOwnerOfDefaultCache`). `FreshStays`: `FreshIsNotDue`, if the
  realm's policy, and kinit's default for the profiles without a `ticket_lifetime`, reach the thresholds, and what the API cache's profile is granted
  exceeds its threshold by `Misread` (`Grantable`, an assumption TLC evaluates for the files of `upkeep`); nothing else is asked of the files, since every profile of the running cycle
  comes from a file `Validate` has accepted (`SelectedStep`, `Roomy`).
- **LockoutProofs** `NoLockout`: `Spec => []NoSecondStrike`. The property is not inductive. Its
  strengthening `StruckIsBlocked` (`StruckStaysBlocked`) says why the code is right, in five
  parts: a struck credential is in the blocklist or its rejection is about to be handled; strikes
  are only of the credential the file gives; the running cycle's copy of the profiles has one
  credential per name; the profiles the cycle has yet to visit can only be struck with their
  own credential, so the single entry per name never forgets a strike that still matters; and
  no lookup runs for a blocked profile. The third and fourth need the unique names of `Validate`.
- **LockoutProofs** `NeverBlockedInError`: `Spec => []SteadyNeverBlocked`, from `SteadyFine`, which
  follows a steady credential through the lookup, `kinit` and the classification. `OnlyEditsLeaveStaleBlocks`: if the files
  never give a profile two credentials, then `Spec => BlockMeansLastFailed`, the property that `block_forgotten` refutes: an edit
  of the credential is all it takes to refute it, and nothing less does. The invariant (`GivenIsBlocked`): a profile is blocked for no other
  credential than its own, and nothing is under way for a blocked one.
- **ProcessProofs** `DaemonIsProcess`: `Spec => ImplementsProcess`, the refinement. Each action of `KeepAlive` maps to
  one of `Process` or to a stutter; the invariant is `TickerOK`, which ties the ticker and the interval to the place
  in the loop (no ticker before the end of the first cycle, a positive interval ever after). `PositivePollNeverPanics`: without
  a usable file whose poll interval is zero or below, `Spec => []NeverPanics`, so one more check in `Validate` would end what
  `negative_poll` shows.
- **LapseProofs** `CyclesEnd`: `Spec => CycleIsBounded`, for any number of profiles and any timeouts. It needs that no call
  has used more than its timeout (`Budget`), from which `RestType` gives at most one `Turn` per profile for a cycle.
- **LapseProofs** `NoLapse`: `Spec => []NoSilentLapse` for all `slowest` and `longest` with `Paced(slowest, longest)`:
  every usable file's poll interval is at most `slowest`, its profiles' timeouts sum up to at most `longest`, and
  every profile's threshold and lifetime leave room for `slowest + 2 * longest`, less its own turn, and its threshold, in the API cache,
  for `Misread` as well. The invariant bounds, from
  each place in the loop, the time until the next check of each profile (`Clock`), says that a kept ticket lasts
  that long or is being acquired (`Keeps`), and that of a kept ticket what `ReadStatus` shows is the true remainder or too much by `Slip` at most (`Trusted`):
  a check that finds it above the threshold has then found it to last. It does not ask that profiles have caches of their own.
- **ServiceProofs** `ServiceTypes`; `InstallRetires`: if `launchctl print` answers, then `Spec =>
  InstallRetiresOldJob`, for any number of callers. The invariant is that, once an install's `Stop` has
  returned, a job that is registered was loaded after the install's write. `DoneAlone`, `NeverOrphaned`: with at most one
  caller, and `print` answering, `SuccessMeansDone` (of a `start`, only that the job is registered) and `NoOrphan`. Their invariant (`Progress`) says how far a verb has come: past its
  `Stop` the job is gone, past its write the plist on disk is the one wanted.
  `StopUnloads`: for any number of callers, a stop that reports success has unloaded the job, so a `print` that fails is
  all there is to `service_wedged`. `VerbsCountDown`: `EveryStepCounts`, for any number of callers and polls.
- **AgentProofs** `AgentComposes`: the agent's behaviours are behaviours of `Service` and of `Process`, so each theorem about
  either holds of the agent, and by `DaemonIsProcess` nothing is lost by the small process. `Remembered`:
  `NeverForgotten` for any number of callers; `StopStops`: `StopIsReal` for one, and `StopStopsForMany`: its half about `stop` for any number. `AgentTypes`:
  `AgentTypeOK`. The invariant (`Minds`) adds that what
  is not loaded neither runs nor will be started, which is why a stop may rely on `launchctl print`.
- **KlistProofs** `TypeCorrect`; `EndsReadBack`: for all offsets and every instant of the change, `ReadBack`; `StatusSound`: each line is `VALID` only
  for a valid ticket or one of the named exceptions, and `anyBad` remembers every other, so success implies it of all.
- **LogFileProofs** `LogFileTypes`, `RotationFollowed`, `HeldUntilClosed`: the invariant compares the age of the
  last check with the time the held file has been gone, which can only differ by the time between
  the opening and the record of it, and needs that the recorded identity is the held file's.

Every invariant, every action property and the refinement that the passing runs check is proved. Three theorems have a hypothesis on the configuration
(`NoLapse`, `FreshStays`, `PositivePollNeverPanics`), one on its edits (`OnlyEditsLeaveStaleBlocks`), and those about `Service`
and `Agent` that need `launchctl print` to answer, or one verb at a time, say so; the passing run that checks the
property meets the hypothesis. `BlockMeansLastFailed`, `NeverPanics` and `StopMeansUnloaded` are refuted by runs of section 6, and the
hypothesis of the theorem about each is what those runs give up.

Only model-checked: the liveness properties `UpkeepResumes`, `EditTakesEffect`, `ShutdownCompletes`, `EveryVerbEnds` and
`RepairBringsBack`, since TLAPS has neither `ENABLED` nor fairness. What can be proved of two of them is the ranking that they rest on:
`EveryStepCounts` for `EveryVerbEnds`, and `CycleIsBounded` for the part of `ShutdownCompletes` in which a cycle keeps the daemon.

## 5. Not modelled, and why

- YAML, durations and path expansion, the text of the plist, argv and environment of `kinit`: conversions
  whose results the modelled steps do not tell apart. A `ticket_lifetime` of a fraction of a second, which
  `kinitArgs` truncates, is among them.
- The version and the docs generator only format; flag parsing and dispatch keep no state.
- The layout of the tables and lines that the `status` commands print.
- The principal in a status is displayed and never compared, so it is not kept.
- A clock that is set forward is, to tickets, a machine that has slept (`Sleep`); one that is set back is not modelled.
- An answer of the KDC that is lost or worded unlike every marker (`krb/acquire.go:108`) is modelled, but no property
  bounds what follows: the code retries every poll, as it does any other failure.
- The number of strikes over restarts: each process may strike once, and launchd restarts a panicking one for ever. Nor is that of
  `refresh`, which asks the KDC whatever the blocklist says.
- A password that goes stale between the lookup and `kinit` (`manager.go:29`) is modelled, and blocks the profile as any refusal does; the liveness properties are
  about credentials that are not refused.

## 6. Where the code and its words part

- `block_forgotten` - `daemon.go:71-75` says that the blocklist holds profiles whose *last*
  acquisition failed and that an edit *clears* the block. Entries are never removed: after a refusal,
  an edit to another credential and a success with it, the old entry is still there, and an
  edit back is skipped silently although the password may have been corrected since. For the same reason a
  manual `refresh` (`daemon.go:76`) brings a ticket but does not make the daemon keep it.
- `negative_poll` - a negative `daemon.poll_interval` loads, and panics `time.NewTicker` after the first
  cycle. `service install` validates the config to avoid just such a crash loop
  (`command.go:15-16`), in which every restart runs `kinit` with an empty blocklist.
- `service_stale` - an install that ends between the write of the plist and the stop of the old
  job leaves both; from then on every install finds the plist equal and a job loaded and reports that nothing is to be
  done (`service.go:377-380`), which is what the comment at 370-372 wants to rule out.
- `service_wedged` - `Loaded` takes a `launchctl print` that failed or timed out for "not loaded", and
  `stop` reports success over a running job, against `service.go:440`.
- `log_retry` - "the next write retries" (`logfile.go:119-120`), but `lastCheck` is set before the
  attempt, so for a second no write does.

Five more, met while modelling, have no run of their own; the properties name them as exceptions:

- `start` takes any registered job for a started one (`service.go:425`). Let a `stop` be killed in the wait for a slow teardown (446-466): a `start` just after it
  prints "started" (`command.go:61`), and then the job goes. `Restart` and `Install` are safe, since they wait in `Stop` first. It is the `"unloading"` in
  `SuccessMeansDone`.
- Go reads the time zone once per process, and `klist` prints in the machine's zone of the moment. A daemon on a machine that has gone east reads the ends in the API cache too late
  by the difference, hours after they are due (`status.go:213`), and one that has gone west refreshes at every poll, until it is restarted. It is `Abroad` in `NoSilentLapse` and
  `FreshIsNotDue`.

- `findTGT` falls back to any krbtgt not only "when the realm is unknown" (`status.go:190-191`) but also when
  the realm's own is missing (200-205): the cache then counts as valid as long as the other ticket is. A FILE cache without its realm's
  krbtgt is an error. It is the `noTGT` of `SuccessMeansValid`.
- `install` and `start` take a registered job for a running one (`service.go:377`, 425). A daemon that was sent SIGTERM exits with
  0 and is not restarted, and `install` goes on reporting "already installed and running". It is the `asked` of
  `NeverForgotten`.
- The check of `refresh_threshold` against `ticket_lifetime` is skipped when the latter is omitted, and the realm may grant less
  than is asked for (`config.go:289`): every poll re-acquires. It is why `FreshIsNotDue` is checked with
  lifetimes that the realm grants.

And one that no property states: two profiles may name one FILE cache; the second finds the first's ticket, takes it for
its own, and gets none (`manager.go:47-56`). `EditTakesEffect` asks for a cache whose profiles agree.

## 7. Plan

Done: the daemon and what surrounds it, the lockout theorem, the service verbs, the log file; then klist and the status
commands, the agent with launchd, the daemon as a process and the refinement, and the upkeep theorem; then the types of the agent,
the bounds on cycles and verbs, and the exact conditions of the properties that hold only under some; then what `klist` misreads, strangers in the caches and changes of the
time zone, in the daemon's model and in the upkeep theorem. What is left:

1. `Validate`'s loop as it runs, with `seen` and `apiProfile`, refining `Validates`.
2. A second abstract specification, a *lockout guard* (per profile: untried, struck, replaced) that `KeepAlive` implements.
3. How many strikes a crash loop makes: `Agent` with a count of starts between two throttles.
4. A run of its own for a `start` over a job that is being torn down.
5. A bound on the time from SIGTERM to the exit: a cycle is bounded, but a tick that is ready then may start another.
