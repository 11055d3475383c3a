------------------------------- MODULE Config -------------------------------
(***************************************************************************)
(* internal/config: what the YAML file says, what Load accepts, and the    *)
(* profiles SelectProfiles hands to the commands and to the daemon.        *)
(*                                                                         *)
(* A raw file keeps only what Load, Validate and their callers tell apart. *)
(* Principal and keychain reference are one value, the credential identity *)
(* the daemon's credentialKey builds; Blank stands for an empty name, a    *)
(* principal without "@" or an incomplete keychain reference.  A ccache    *)
(* spec is its syntactic form and, for the file forms, the path in it.     *)
(* Durations are integers in one abstract unit of time.                    *)
(***************************************************************************)
EXTENDS Integers, Sequences

CONSTANTS
    Name,         \* profile names
    Credential,   \* credential identities: principal, keychain service and account
    Path,         \* absolute file paths a ccache may name
    CCacheAPI,    \* the default GSSCred cache
    Blank,        \* a missing or malformed field
    DefaultPoll   \* defaultPollInterval

ASSUME ConfigAssumption ==
    /\ CCacheAPI \notin Path
    /\ Blank \notin Name \cup Credential
    /\ DefaultPoll \in Nat \ {0}

CCache == Path \cup {CCacheAPI}

SpecForm == {"unset", "API", "API:", "API:name", "FILE:/", "FILE:rel", "/", "other"}
RawSpec == [form : SpecForm, path : Path]

RawProfile == [name : Name \cup {Blank}, cred : Credential \cup {Blank},
               ccache : RawSpec, ccachePath : RawSpec,
               threshold : Int, lifetime : Int]

\* The file on disk.  parses is FALSE for a missing, unreadable or ill-formed file.
RawFile == [parses : BOOLEAN, poll : Int, profiles : Seq(RawProfile)]

\* A profile as every consumer sees it: normalized and validated.
Profile == [name : Name, cred : Credential, ccache : CCache,
            threshold : Nat \ {0}, lifetime : Nat]

-----------------------------------------------------------------------------
(* normalizeCCache: the forms it accepts and what they become. *)

Accepted(spec) == spec.form \in {"API", "API:", "FILE:/", "/"}

NormalizeCCache(spec) ==
    IF spec.form \in {"API", "API:"} THEN CCacheAPI ELSE spec.path

(* Config.normalize: ccache and its deprecated spelling ccache_path exclude
   each other, and one of them must be there. *)
ChosenSpec(p) == IF p.ccache.form = "unset" THEN p.ccachePath ELSE p.ccache

Normalizes(p) ==
    /\ p.ccache.form = "unset" \/ p.ccachePath.form = "unset"
    /\ Accepted(ChosenSpec(p))

Normalize(p) ==
    [name |-> p.name, cred |-> p.cred, ccache |-> NormalizeCCache(ChosenSpec(p)),
     threshold |-> p.threshold, lifetime |-> p.lifetime]

Normalized(ps) == [i \in DOMAIN ps |-> Normalize(ps[i])]

\* Mutant of ValidProfile: the threshold is not compared with the lifetime.
ValidUnrelated(p) ==
    /\ p.name # Blank
    /\ p.cred # Blank
    /\ p.threshold > 0
    /\ p.lifetime >= 0

(* Config.Validate, over the normalized profiles.  It does not look at the
   poll interval, nor at two profiles naming the same file. *)
ValidProfile(p) ==
    /\ p.name # Blank
    /\ p.cred # Blank
    /\ p.threshold > 0
    /\ p.lifetime >= 0
    /\ p.lifetime > 0 => p.threshold < p.lifetime

\* Mutant of Validates: two entries may share a name.
ValidatesSharedNames(ps) ==
    /\ ps # <<>>
    /\ \A i \in DOMAIN ps : ValidProfile(ps[i])
    /\ \A i, j \in DOMAIN ps : i # j => ~(ps[i].ccache = CCacheAPI /\ ps[j].ccache = CCacheAPI)

Validates(ps) ==
    /\ ps # <<>>
    /\ \A i \in DOMAIN ps : ValidProfile(ps[i])
    /\ \A i, j \in DOMAIN ps :
         i # j => /\ ps[i].name # ps[j].name
                  /\ ~(ps[i].ccache = CCacheAPI /\ ps[j].ccache = CCacheAPI)

(* Load: parse, applyDefaults, normalize, Validate. *)
Loads(f) ==
    /\ f.parses
    /\ \A i \in DOMAIN f.profiles : Normalizes(f.profiles[i])
    /\ Validates(Normalized(f.profiles))

PollInterval(f) == IF f.poll = 0 THEN DefaultPoll ELSE f.poll

(* SelectProfiles: every profile, or those of the --profile names in the order
   given; an unknown name is an error for the whole selection. *)
Selects(ps, names) == \A k \in DOMAIN names : \E i \in DOMAIN ps : ps[i].name = names[k]

SelectProfiles(ps, names) ==
    IF names = <<>>
    THEN ps
    ELSE [k \in DOMAIN names |->
            ps[CHOOSE i \in DOMAIN ps : ps[i].name = names[k]]]

\* Load and SelectProfiles as every caller chains them.
Usable(f, names) == Loads(f) /\ Selects(Normalized(f.profiles), names)
Selected(f, names) == SelectProfiles(Normalized(f.profiles), names)

=============================================================================
