------------------------------- MODULE MCAgent -------------------------------
(***************************************************************************)
(* A small instance of Agent: one verb at a time, two renderings of the      *)
(* plist, and every kind of config.                                          *)
(***************************************************************************)
EXTENDS Agent

CONSTANTS k1, old, new

=============================================================================
