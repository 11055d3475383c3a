----------------------------- MODULE MCService ------------------------------
(***************************************************************************)
(* Small instances of Service: one invocation after the other, or two at a  *)
(* time; two renderings of the plist, before and after a change.            *)
(***************************************************************************)
EXTENDS Service

CONSTANTS k1, k2, old, new

Callers == {k1, k2}
Plists == {old, new}

=============================================================================
