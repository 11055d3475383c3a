------------------------------- MODULE Process -------------------------------
(***************************************************************************)
(* What launchd can tell of the `daemon` subcommand: how the process starts,  *)
(* how it ends, and that it looks for a signal only between two cycles.       *)
(* KeepAlive implements this module; Agent puts it under launchd.             *)
(*                                                                            *)
(*   StartFails: Run returns an error, and the process exits with 1           *)
(*   Exit:       Run returns nil, and the process exits with 0                *)
(***************************************************************************)

CONSTANT Configs  \* what the config file may be: subset of Config

VARIABLES
    proc,    \* how the process is, or how the last one ended
    term,    \* SIGTERM or SIGINT has been received
    doomed,  \* the interval the process has read makes time.NewTicker panic
    config   \* "bad": does not load or select; "crashing": loads, and dooms

procVars == <<proc, term, doomed>>

Config == {"bad", "good", "crashing"}
Alive == {"first", "polling", "waiting"}
Ended == {"down", "exited", "failed", "panicked"}

ProcessTypeOK ==
    /\ proc \in Alive \cup Ended
    /\ term \in BOOLEAN
    /\ doomed \in BOOLEAN
    /\ config \in Config
    /\ proc \in Ended => ~term /\ ~doomed

ProcessInit ==
    /\ proc = "down"
    /\ term = FALSE
    /\ doomed = FALSE
    /\ config \in Configs

-----------------------------------------------------------------------------
Ends(how) == proc' = how /\ term' = FALSE /\ doomed' = FALSE

\* Mutant of StartFails: the error is printed, and the process exits with 0.
StartGivesUp ==
    /\ proc \in Ended
    /\ Ends("exited")
    /\ UNCHANGED config

\* The config cannot be used, or the log cannot be opened.
StartFails ==
    /\ proc \in Ended
    /\ Ends("failed")
    /\ UNCHANGED config

Start ==
    /\ proc \in Ended
    /\ config # "bad"
    /\ proc' = "first"
    /\ doomed' = (config = "crashing")
    /\ UNCHANGED <<term, config>>

\* The first cycle ends, and the ticker is created.
EndFirst ==
    /\ proc = "first"
    /\ IF doomed THEN Ends("panicked") ELSE proc' = "waiting" /\ UNCHANGED <<term, doomed>>
    /\ UNCHANGED config

\* A tick with a config that cannot be used leaves the process where it is.
Poll ==
    /\ proc = "waiting"
    /\ config # "bad"
    /\ proc' = "polling"
    /\ UNCHANGED <<term, doomed, config>>

EndPoll ==
    /\ proc = "polling"
    /\ proc' = "waiting"
    /\ UNCHANGED <<term, doomed, config>>

Signalled ==
    /\ proc \in Alive
    /\ term' = TRUE
    /\ UNCHANGED <<proc, doomed, config>>

Exit ==
    /\ proc = "waiting"
    /\ term
    /\ Ends("exited")
    /\ UNCHANGED config

\* SIGKILL, or any other way for a process to die.
Killed ==
    /\ proc \in Alive
    /\ Ends("down")
    /\ UNCHANGED config

ConfigChanges(c) ==
    /\ config' = c
    /\ UNCHANGED procVars

ProcessWorks == EndFirst \/ Poll \/ EndPoll \/ Exit

ProcessNext ==
    \/ Start \/ StartFails
    \/ ProcessWorks
    \/ Signalled \/ Killed
    \/ \E c \in Configs : ConfigChanges(c)

ProcessSpec == ProcessInit /\ [][ProcessNext]_<<procVars, config>>

=============================================================================
