-------------------------------- MODULE Krb ---------------------------------
(***************************************************************************)
(* internal/krb, internal/keychain and the part of internal/manager that   *)
(* joins them: what reading a credential cache can answer, when a ticket is *)
(* due, and what a kinit can do and report.  The caches, the keychain and   *)
(* the KDC themselves are outside the program and are modelled as it sees   *)
(* them.                                                                    *)
(*                                                                          *)
(* Expiry is kept as the validity that remains, so no clock is needed: the  *)
(* one the ticket has, and the one ReadStatus makes of it.                  *)
(***************************************************************************)
EXTENDS Config

CONSTANTS
    Nobody,           \* the owner of a cache that does not exist
    DefaultLifetime,  \* what kinit requests when no --lifetime is given
    PolicyLifetime,   \* the longest ticket the KDC grants
    Stranger,         \* the owner of a cache in which somebody else's kinit has written
    Steady,           \* credentials the KDC never refuses and the keychain never loses,
                      \* though it may be locked
    Misread,          \* the time the clocks are put back by, and so how far off a ticket's
                      \* end in the API cache can be read (module Klist)
    ZoneShift         \* how far off it can be once the machine has changed its time zone

ASSUME KrbAssumption ==
    /\ Nobody \notin Credential
    /\ Stranger \notin Credential \cup {Nobody}
    /\ DefaultLifetime \in Nat \ {0}
    /\ PolicyLifetime \in Nat \ {0}
    /\ Steady \subseteq Credential
    /\ Misread \in Nat
    /\ ZoneShift \in Nat

VARIABLES
    owner,  \* [CCache -> whose ticket the cache holds: a credential, Stranger or Nobody]
    left,   \* [CCache -> remaining validity of that ticket, 0 when expired]
    shown,  \* [CCache -> its remaining validity as ReadStatus computes it]
    vault,  \* [Credential -> what its keychain item is worth]
    kdc     \* "up", or "down" while nothing can make a kinit succeed

krbVars == <<owner, left, shown, vault, kdc>>
ticketVars == <<owner, left, shown>>

\* "good" and "stale": the item's secret is one the KDC accepts or refuses;
\* "absent": no such item; "locked": the lookup prompts, and may fail.
VaultState == {"good", "stale", "absent", "locked"}

Password == {"good", "stale"}

\* nil, ErrCredentialRejected, keychain.ErrNotFound, any other error
Error == {"none", "rejected", "notFound", "other"}

KrbTypeOK ==
    /\ owner \in [CCache -> Credential \cup {Nobody, Stranger}]
    /\ left \in [CCache -> Nat]
    /\ shown \in [CCache -> Nat]
    /\ vault \in [Credential -> VaultState]
    /\ kdc \in {"up", "down"}

KrbInit ==
    /\ owner = [cc \in CCache |-> Nobody]
    /\ left = [cc \in CCache |-> 0]
    /\ shown = [cc \in CCache |-> 0]
    /\ vault \in [Credential -> VaultState]
    /\ \A c \in Steady : vault[c] \in {"good", "locked"}
    /\ kdc \in {"up", "down"}

-----------------------------------------------------------------------------
(* ReadStatus: the state of the cache, or an error, which is possible at any
   time (klist killed or failing, a file that does not parse, no krbtgt).  Times
   from klist are read in the zone the process was started in: abroad, when the
   machine is in another one by now, they are off by what the zones differ. *)
Reading(cc, abroad) ==
    IF abroad /\ cc = CCacheAPI THEN 0 .. shown[cc] + ZoneShift ELSE {shown[cc]}

ReadStatus(cc, abroad) ==
    {[err |-> FALSE, exists |-> owner[cc] # Nobody, remaining |-> r] : r \in Reading(cc, abroad)}
      \cup {[err |-> TRUE, exists |-> FALSE, remaining |-> 0]}

(* readFileStatus reads a ticket's end as it is.  readAPIStatus reads a local time
   without a zone, and an end in the hour the clock shows twice as the other end
   with the same local time. *)
Slip(cc) == IF cc = CCacheAPI THEN Misread ELSE 0

Shown(cc, life) ==
    {life, life + Slip(cc), IF life > Slip(cc) THEN life - Slip(cc) ELSE 0}

(* manager.NeedsRefresh, from the status it read.  Neither the principal in
   the status nor who wrote the cache is looked at. *)
NeedsRefresh(p, st) ==
    \/ st.err
    \/ ~st.exists
    \/ st.remaining = 0
    \/ st.remaining < p.threshold

\* Mutant of LookupErrors: whatever fails the lookup, the item is taken for missing.
LookupErrorsAllAlike(c) ==
    IF vault[c] \in {"absent", "locked"} THEN {"notFound"} ELSE {"none"}

(* keychain.LookupPassword: the errors it can return for a credential. *)
LookupErrors(c) ==
    CASE vault[c] = "absent" -> {"notFound"}
      [] vault[c] = "locked" -> {"other"}
      [] OTHER -> {"none"}

(* The lifetime a kinit for p obtains: what it asks for, capped by policy. *)
Requested(p) == IF p.lifetime > 0 THEN p.lifetime ELSE DefaultLifetime
Granted(p) == IF Requested(p) <= PolicyLifetime THEN Requested(p) ELSE PolicyLifetime

\* kinit writes the new ticket over whatever the profile's cache held.
WriteTicket(p) ==
    /\ owner' = [owner EXCEPT ![p.ccache] = p.cred]
    /\ left' = [left EXCEPT ![p.ccache] = Granted(p)]
    /\ \E r \in Shown(p.ccache, Granted(p)) : shown' = [shown EXCEPT ![p.ccache] = r]

(* What a kinit holding this password reports when the KDC answers it.  Only a
   refusal that the answer spells out is a rejection; one that is lost on the
   way, or worded unlike every rejectionMarker, is any other error. *)
Answers(password) == IF password = "good" THEN {"none"} ELSE {"rejected", "other"}

\* Mutant of IsPermanent: the rejection is forgotten.
NotFoundIsPermanent(e) == e = "notFound"

(* manager.IsPermanent *)
IsPermanent(e) == e \in {"rejected", "notFound"}

=============================================================================
