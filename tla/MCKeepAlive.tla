---------------------------- MODULE MCKeepAlive -----------------------------
(***************************************************************************)
(* Small instances of KeepAlive.                                            *)
(***************************************************************************)
EXTENDS KeepAlive

CONSTANTS corp, lab, a, b, c, tmp

MCWanted == <<>>

Spec1(f) == [form |-> f, path |-> tmp]
Entry(n, cr, cc, t, l) ==
    [name |-> n, cred |-> cr, ccache |-> Spec1(cc), ccachePath |-> Spec1("unset"),
     threshold |-> t, lifetime |-> l]
File(poll, ps) == [parses |-> TRUE, poll |-> poll, profiles |-> ps]

-----------------------------------------------------------------------------
(* Lockout: a profile whose credential the user edits back and forth; two entries
   with one name, which Validate refuses; a negative poll interval, which it does
   not. *)
LockoutFiles ==
    {File(0, <<Entry(corp, b, "API", 1, 0)>>),
     File(0, <<Entry(corp, c, "API", 1, 0)>>),
     File(0, <<Entry(corp, b, "API", 1, 0), Entry(corp, c, "/", 1, 0)>>),
     File(-1, <<Entry(corp, b, "API", 1, 0)>>)}

(* Upkeep: two profiles, one in the default cache and one in a file, whose kinit
   takes up to one unit of time each, polled every unit; the API cache's ends are
   read up to one unit off.  Every threshold is the least that Paced allows.  The
   second file has a threshold above its lifetime, which Validate refuses. *)
UpkeepFiles ==
    {File(0, <<Entry(corp, a, "API", 6, 7), Entry(lab, a, "FILE:/", 5, 0)>>),
     File(0, <<Entry(lab, a, "/", 7, 6)>>)}

\* The instance is one that NoSilentLapse and FreshIsNotDue are proved for.
ASSUME UpkeepIsPaced == Files = UpkeepFiles => Paced(1, 2) /\ Grantable

(* Recovery: one profile that the user moves between a credential that is never
   refused and one that can be, a file that does not load, and one that gives the
   second credential to a running daemon and makes a starting one panic. *)
RecoveryFiles ==
    {File(0, <<Entry(corp, a, "API", 1, 0)>>),
     File(0, <<Entry(corp, Blank, "API", 1, 0)>>),
     File(-1, <<Entry(corp, b, "API", 1, 0)>>)}

=============================================================================
