----------------------------- MODULE MCLogFile ------------------------------
(***************************************************************************)
(* A small instance of LogFile: four inodes, so that a new one is there when *)
(* the held, the current and the archived one are all different.             *)
(***************************************************************************)
EXTENDS LogFile

CONSTANTS i1, i2, i3, i4

Inodes == {i1, i2, i3, i4}

=============================================================================
