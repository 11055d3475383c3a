-------------------------------- MODULE Klist --------------------------------
(***************************************************************************)
(* internal/krb/status.go and the `status` command: how a credential cache  *)
(* becomes a ticket's end, and what the command makes of it.                *)
(*                                                                          *)
(* A FILE cache is parsed in-process and holds instants.  The API cache is  *)
(* read through klist, which prints the local time without a zone: here     *)
(* time is UTC, local time differs from it by Before until Change and by    *)
(* After from then on, and the program has to find the way back.  Other     *)
(* changes of the clocks are months away.                                   *)
(***************************************************************************)
EXTENDS Integers, Sequences

CONSTANTS
    Path,       \* absolute file paths a ccache may name
    CCacheAPI,  \* the default GSSCred cache
    Profiles,   \* the ccache of each profile `status` selects
    Realm,      \* realms
    Server,     \* principals a ticket may be for; a realm r stands for krbtgt/r
    Before, After, Change,  \* the local offset from UTC, and the instant it changes
    Lifetime,   \* of a ticket
    Horizon     \* bound: the last instant explored

ASSUME KlistAssumption ==
    /\ CCacheAPI \notin Path
    /\ Profiles \in Seq(Path \cup {CCacheAPI})
    /\ Realm \subseteq Server
    /\ Before \in Int /\ After \in Int /\ Change \in Int
    /\ Lifetime \in Nat \ {0}
    /\ Horizon \in Nat

CCache == Path \cup {CCacheAPI}

VARIABLES
    now,     \* UTC
    cache,   \* [CCache -> its client's realm and the end of each ticket, 0 for none]
    at,      \* the profile a running `status` reads next, 0 when none runs
    anyBad,  \* anyBad
    lines,   \* the lines it has written, each with the truth at that moment
    exit     \* how the last `status` ended

vars == <<now, cache, at, anyBad, lines, exit>>

Content == [exists : BOOLEAN, realm : Realm, ends : [Server -> Nat]]
State == {"VALID", "EXPIRED", "MISSING", "INVALID"}
Truth == {"valid", "expired", "twice", "noTGT"}

NoTickets == [s \in Server |-> 0]

TypeOK ==
    /\ now \in Nat
    /\ cache \in [CCache -> Content]
    /\ at \in 0 .. Len(Profiles) + 1
    /\ anyBad \in BOOLEAN
    /\ lines \in Seq([state : State, truth : Truth])
    /\ at > 0 => Len(lines) = at - 1
    /\ exit \in {"none", "ok", "error"}

Init ==
    /\ now = 0
    /\ \E r \in Realm : cache = [cc \in CCache |-> [exists |-> FALSE, realm |-> r, ends |-> NoTickets]]
    /\ at = 0
    /\ anyBad = FALSE
    /\ lines = <<>>
    /\ exit = "none"

-----------------------------------------------------------------------------
(* Local time, and the way back from it. *)

Offset(u) == IF u < Change THEN Before ELSE After

\* What klist prints for the instant u.
Local(u) == u + Offset(u)

\* Mutant of ParseKlistTime: the offset is the one the program runs under.
ParseInTheOffsetOfToday(w) == w - Offset(now)

(* time.ParseInLocation, which parseKlistTime calls: the offset in force at the
   wall clock's time taken for UTC, if it is still in force at the instant it
   gives, and else the one in force at that instant. *)
ParseKlistTime(w) ==
    LET guess == w - Offset(w)
    IN IF (guess < Change) <=> (w < Change) THEN guess ELSE w - Offset(guess)

\* The clock shows the local time of u once more, or for the second time.
Twice(u) == Change - (Before - After) <= u /\ u < Change + (Before - After)

-----------------------------------------------------------------------------
(* ReadStatus: what it can return, as far as its callers look at it. *)

Failed == [err |-> TRUE, exists |-> FALSE, end |-> 0]
Missing == [err |-> FALSE, exists |-> FALSE, end |-> 0]
Ticket(u) == [err |-> FALSE, exists |-> TRUE, end |-> u]

HasTGT(c) == c.exists /\ c.ends[c.realm] > 0

(* findTGT: the realm's own krbtgt, and any other when it has none. *)
FindTGT(c) == IF c.ends[c.realm] > 0 THEN {c.realm} ELSE {s \in Realm : c.ends[s] > 0}

(* readFileStatus: only the realm's krbtgt will do. *)
ReadFileStatus(c) ==
    {Failed} \cup IF ~c.exists THEN {Missing}
                  ELSE IF c.ends[c.realm] > 0 THEN {Ticket(c.ends[c.realm])} ELSE {}

(* readAPIStatus and parseKlistJSON: no cache and no tickets are the same. *)
ReadAPIStatus(c) ==
    {Failed} \cup IF ~c.exists \/ c.ends = NoTickets THEN {Missing}
                  ELSE {Ticket(ParseKlistTime(Local(c.ends[s]))) : s \in FindTGT(c)}

ReadStatus(cc) == IF cc = CCacheAPI THEN ReadAPIStatus(cache[cc]) ELSE ReadFileStatus(cache[cc])

Expired(st) == st.end - now <= 0

-----------------------------------------------------------------------------
(* The `status` command. *)

Line(st) ==
    IF st.err THEN "INVALID" ELSE IF ~st.exists THEN "MISSING"
    ELSE IF Expired(st) THEN "EXPIRED" ELSE "VALID"

TruthOf(cc) ==
    LET c == cache[cc]
    IN IF ~HasTGT(c) THEN "noTGT"
       ELSE IF cc = CCacheAPI /\ Twice(c.ends[c.realm]) THEN "twice"
       ELSE IF c.ends[c.realm] > now THEN "valid" ELSE "expired"

StatusStarts ==
    /\ at = 0
    /\ at' = 1
    /\ anyBad' = FALSE
    /\ lines' = <<>>
    /\ exit' = "none"
    /\ UNCHANGED <<now, cache>>

\* Mutant of ReadsLine: a cache that cannot be read gets no line of its own.
ReadsLineOrSkips ==
    /\ at \in DOMAIN Profiles
    /\ \E st \in ReadStatus(Profiles[at]) :
         /\ IF st.err THEN UNCHANGED lines
            ELSE lines' = Append(lines, [state |-> Line(st), truth |-> TruthOf(Profiles[at])])
         /\ anyBad' = (anyBad \/ Line(st) # "VALID")
    /\ at' = at + 1
    /\ UNCHANGED <<now, cache, exit>>

\* Mutant of ReadsLine: an expired ticket is no reason to fail.
ReadsLineButExpired ==
    /\ at \in DOMAIN Profiles
    /\ \E st \in ReadStatus(Profiles[at]) :
         /\ lines' = Append(lines, [state |-> Line(st), truth |-> TruthOf(Profiles[at])])
         /\ anyBad' = (anyBad \/ Line(st) \in {"INVALID", "MISSING"})
    /\ at' = at + 1
    /\ UNCHANGED <<now, cache, exit>>

ReadsLine ==
    /\ at \in DOMAIN Profiles
    /\ \E st \in ReadStatus(Profiles[at]) :
         /\ lines' = Append(lines, [state |-> Line(st), truth |-> TruthOf(Profiles[at])])
         /\ anyBad' = (anyBad \/ Line(st) # "VALID")
    /\ at' = at + 1
    /\ UNCHANGED <<now, cache, exit>>

StatusEnds ==
    /\ at = Len(Profiles) + 1
    /\ exit' = IF anyBad THEN "error" ELSE "ok"
    /\ at' = 0
    /\ UNCHANGED <<now, cache, anyBad, lines>>

-----------------------------------------------------------------------------
(* What fills and empties the caches. *)

Put(cc, c) ==
    /\ cache' = [cache EXCEPT ![cc] = c]
    /\ UNCHANGED <<now, at, anyBad, lines, exit>>

Kinit(cc, r) ==
    Put(cc, [exists |-> TRUE, realm |-> r, ends |-> [NoTickets EXCEPT ![r] = now + Lifetime]])

\* A service ticket, or a ticket for another realm, lasts as long as the krbtgt
\* it was obtained with.
GetTicket(cc, s) ==
    /\ HasTGT(cache[cc])
    /\ cache[cc].ends[cache[cc].realm] > now
    /\ Put(cc, [cache[cc] EXCEPT !.ends[s] = cache[cc].ends[cache[cc].realm]])

\* kdestroy, of the whole cache or of one credential.
Kdestroy(cc) == Put(cc, [cache[cc] EXCEPT !.exists = FALSE, !.ends = NoTickets])
KdestroyCredential(cc, s) == cache[cc].ends[s] > 0 /\ Put(cc, [cache[cc] EXCEPT !.ends[s] = 0])

Tick ==
    /\ now < Horizon
    /\ now' = now + 1
    /\ UNCHANGED <<cache, at, anyBad, lines, exit>>

Status == StatusStarts \/ ReadsLine \/ StatusEnds

Users ==
    \E cc \in CCache :
      \/ \E r \in Realm : Kinit(cc, r)
      \/ \E s \in Server : GetTicket(cc, s) \/ KdestroyCredential(cc, s)
      \/ Kdestroy(cc)

Next == Status \/ Users \/ Tick

Spec == Init /\ [][Next]_vars

-----------------------------------------------------------------------------
(* Properties. *)

\* A `status` that succeeds has found, for every profile, the krbtgt ticket of
\* its cache's own realm, and found it unexpired: except in the API cache, for a
\* ticket that ends in the hour the clock shows twice, or for a cache that holds
\* tickets for other realms and none for its own.
SuccessMeansValid ==
    exit = "ok" =>
      \A i \in DOMAIN Profiles :
        \/ lines[i].truth = "valid"
        \/ Profiles[i] = CCacheAPI /\ lines[i].truth \in {"twice", "noTGT"}

\* What klist prints is read as the instant it was printed from, or as the other
\* instant with the same local time: the change of the clocks moves an end by the
\* difference of the offsets, and only an end in the hour it repeats.
ReadBack ==
    \A st \in ReadStatus(CCacheAPI) :
      LET c == cache[CCacheAPI]
          off == st.end - c.ends[c.realm]
      IN st.exists /\ HasTGT(c) =>
           \/ off = 0
           \/ Twice(c.ends[c.realm]) /\ off \in {Before - After, After - Before}

=============================================================================
