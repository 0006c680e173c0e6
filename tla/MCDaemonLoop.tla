---------------------------- MODULE MCDaemonLoop ----------------------------
(***************************************************************************)
(* Instances of DaemonLoop for TLC.                                        *)
(***************************************************************************)
EXTENDS DaemonLoop

MCRequests == {"trigger", "reload", "shutdown", "other", "unreadable"}
MCHarmless == {"trigger", "reload", "other"}
=============================================================================
