------------------------------- MODULE MCKlist -------------------------------
(***************************************************************************)
(* Small instances of Klist: a profile in the API cache and one in a file,  *)
(* time in half hours, the end of daylight saving time at Change.           *)
(***************************************************************************)
EXTENDS Klist

CONSTANTS tmp, corp, lab, http

MCProfiles == <<CCacheAPI, tmp>>

=============================================================================
